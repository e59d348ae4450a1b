------------------------ MODULE FilesAndCallsProofs -----------------------
(* Theorems about the triage files and the report archive, for any number of *)
(* processes that share them, findings, starts, crashes and limits; then, of  *)
(* a part that shares nothing with these, about one call of a provider, for   *)
(* every configuration, answer of the network, number of attempts and backoff. *)
EXTENDS LocalFiles, ProviderCall, FiniteSetTheorems, TLAPS

-----------------------------------------------------------------------------
(* Types. *)

Pcs == {"idle", "resolve", "archive", "write", "prune", "remove", "save", "log", "append"}
Endings == {"expired", "pruned", "removed", "stale"}
Suppressions ==
    [id : Nat, finding : Findings, pack : Nat, base : Bases \cup {NoBase}, born : Nat, until : Nat,
     matched : Nat, place : Nat]
Notes == [kind : Endings \cup {"created", "matched"}, id : Nat, at : Nat]
Endeds == [id : Nat, at : Nat]
Shown == [finding : Findings, pack : Nat]
Runs ==
    [pc : Pcs, state : SUBSET Suppressions, rev : Nat, events : SUBSET Notes, ends : SUBSET Endeds,
     hidden : SUBSET (Shown \X Suppressions \X Nat), base : Bases \cup {NoBase}, old : SUBSET Notes,
     logRev : Nat, dir : Int, stale : SUBSET Int]

States == {S \in SUBSET Suppressions : IsFiniteSet(S)}

-----------------------------------------------------------------------------
(* The operations on a loaded state. *)

LEMMA ImageIsFinite ==
    ASSUME NEW S, IsFiniteSet(S), NEW f, DOMAIN f = S
    PROVE  IsFiniteSet({f[x] : x \in S})
<1> DEFINE T == {f[x] : x \in S}
           g == [x \in S |-> f[x]]
<1>1. g \in Surjection(S, T)
  BY DEF Surjection
<1> QED
  BY <1>1, FS_Surjection

LEMMA PartIsFinite == ASSUME NEW S \in States, NEW T, T \subseteq S PROVE T \in States /\ Ids(T) \subseteq Ids(S)
BY FS_Subset DEF States, Ids

LEMMA WithoutState ==
    ASSUME NEW S \in States, NEW gone
    PROVE  /\ Without(S, gone) \in States /\ Without(S, gone) \subseteq S
           /\ Ids(Without(S, gone)) \subseteq Ids(S) /\ Ids(Without(S, gone)) \cap gone = {}
<1>1. Without(S, gone) \subseteq S
  BY DEF Without
<1> QED
  BY <1>1, PartIsFinite DEF Without, Ids

LEMMA AddedState ==
    ASSUME NEW S \in States, NEW s \in Suppressions
    PROVE  AddOrReplace(S, s) \in States /\ Ids(AddOrReplace(S, s)) \subseteq Ids(S) \cup {s.id}
<1> DEFINE T == {e \in S : ~(e.finding = s.finding /\ e.base = s.base)}
<1>1. T \in States /\ Ids(T) \subseteq Ids(S)
  <2>1. T \subseteq S
    OBVIOUS
  <2> HIDE DEF T
  <2> QED
    BY <2>1, PartIsFinite
<1>2. AddOrReplace(S, s) = T \cup {s}
  BY DEF AddOrReplace
<1> HIDE DEF T
<1>3. IsFiniteSet(T \cup {s}) /\ T \cup {s} \subseteq Suppressions
  BY <1>1, FS_AddElement DEF States
<1> QED
  BY <1>1, <1>2, <1>3 DEF States, Ids

LEMMA CountIsNat == ASSUME NEW S \in States, NEW T, T \subseteq S PROVE Cardinality(T) \in Nat
BY FS_Subset, FS_CardinalityType DEF States

\* What a prune leaves has not lapsed and was there before.
LEMMA PrunedState ==
    ASSUME NEW S \in States, NEW t
    PROVE  Pruned(S, t) \in States /\ Ids(Pruned(S, t)) \subseteq Ids(S) \ Lapsed(S, t)
<1> DEFINE active == Without(S, Lapsed(S, t))
           late(s) == {u \in active : Older(u, s)}
           placed == [s \in Recent(active) |-> [s EXCEPT !.place = Cardinality(late(s)) + 1]]
<1>1. active \in States /\ Ids(active) \subseteq Ids(S) \ Lapsed(S, t)
  BY WithoutState
<1>2. Pruned(S, t) = IF Cardinality(active) <= MaxActive THEN active ELSE {placed[s] : s \in Recent(active)}
  BY DEF Pruned
<1> HIDE DEF active
<1>3. Recent(active) \in States
  <2>1. Recent(active) \subseteq active
    BY DEF Recent
  <2> QED
    BY <1>1, <2>1, PartIsFinite
<1>4. ASSUME NEW s \in Recent(active)
      PROVE  placed[s] \in Suppressions /\ placed[s].id = s.id /\ s \in active
  <2>1. Cardinality(late(s)) \in Nat
    <3>1. late(s) \subseteq active
      OBVIOUS
    <3> HIDE DEF late
    <3> QED
      BY <1>1, <3>1, CountIsNat
  <2> HIDE DEF late
  <2>2. PICK n \in Nat : n = Cardinality(late(s)) + 1
    BY <2>1
  <2>3. placed[s] = [s EXCEPT !.place = n]
    BY <1>4, <2>2
  <2>4. s \in Suppressions /\ s \in active
    BY <1>1, <1>4 DEF States, Recent
  <2> HIDE DEF placed
  <2> QED
    BY <2>3, <2>4 DEF Suppressions
<1>5. DOMAIN placed = Recent(active)
  OBVIOUS
<1> HIDE DEF placed
<1>6. {placed[s] : s \in Recent(active)} \in States
  BY <1>3, <1>4, <1>5, ImageIsFinite DEF States
<1>7. Ids({placed[s] : s \in Recent(active)}) \subseteq Ids(active)
  BY <1>4 DEF Ids
<1> QED
  BY <1>1, <1>2, <1>6, <1>7

LEMMA MatchedState ==
    ASSUME NEW S \in States, NEW used, NEW t \in Nat
    PROVE  Matched(S, used, t) \in States /\ Ids(Matched(S, used, t)) = Ids(S)
<1> DEFINE f == [s \in S |-> IF s.id \in used THEN [s EXCEPT !.matched = t] ELSE s]
<1>1. Matched(S, used, t) = {f[s] : s \in S}
  BY DEF Matched
<1>2. ASSUME NEW s \in S PROVE f[s] \in Suppressions /\ f[s].id = s.id
  <2>1. s \in Suppressions
    BY DEF States
  <2>2. [s EXCEPT !.matched = t] \in Suppressions /\ [s EXCEPT !.matched = t].id = s.id
    BY <2>1 DEF Suppressions
  <2> QED
    BY <2>1, <2>2
<1>3. DOMAIN f = S
  OBVIOUS
<1> HIDE DEF f
<1>4. IsFiniteSet({f[s] : s \in S})
  BY <1>3, ImageIsFinite DEF States
<1> QED
  BY <1>1, <1>2, <1>4 DEF States, Ids

\* A finding is hidden by a suppression of the state that was in force for it.
Hides(h, t, base) ==
    /\ h[2].finding = h[1].finding /\ h[2].until > t
    /\ h[2].pack = 0 \/ h[1].pack = 0 \/ h[2].pack = h[1].pack
    /\ h[2].base = NoBase \/ base = NoBase \/ h[2].base = base

LEMMA AppliedState ==
    ASSUME NEW C \in SUBSET Shown, NEW S \in States, NEW base \in Bases \cup {NoBase}, NEW t \in Nat,
           NEW a, a = Apply(C, S, base, t)
    PROVE  /\ a.state \in States /\ Ids(a.state) \subseteq Ids(S) \ a.stale /\ a.stale \subseteq Ids(S)
           /\ a.hidden \subseteq Shown \X S /\ \A h \in a.hidden : Hides(h, t, base)
<1> DEFINE found == {m \in C \X S : m[2] \in Match(S, m[1], base, t)}
           hid == {m \in found : ~Outdated(m[2], m[1])}
           stale == {m[2].id : m \in found \ hid}
           used == {m[2].id : m \in hid}
<1>1. a.hidden = hid /\ a.stale = stale /\ a.state = Without(Matched(S, used, t), stale)
  BY DEF Apply
<1>2. hid \subseteq C \X S /\ hid \subseteq found /\ \A h \in hid : ~Outdated(h[2], h[1])
  OBVIOUS
<1>3. ASSUME NEW h \in hid PROVE Hides(h, t, base)
  <2>1. h \in C \X S /\ h[2] \in Match(S, h[1], base, t) /\ ~Outdated(h[2], h[1])
    BY <1>3
  <2> HIDE DEF hid, found
  <2>2. PICK c \in Shown, s \in Suppressions : h = <<c, s>>
    BY <2>1 DEF States
  <2>3. s \in Match(S, c, base, t) /\ ~Outdated(s, c)
    BY <2>1, <2>2
  <2>4. s.finding = c.finding /\ ~(s.until <= t) /\ (s.base = NoBase \/ base = NoBase \/ s.base = base)
    BY <2>3 DEF Match, Expired
  <2>5. s.until > t
    BY <2>4 DEF Suppressions
  <2>6. s.pack = 0 \/ c.pack = 0 \/ s.pack = c.pack
    BY <2>3 DEF Outdated
  <2> QED
    BY <2>2, <2>4, <2>5, <2>6 DEF Hides
<1>4. stale \subseteq Ids(S)
  BY DEF Ids
<1> HIDE DEF hid, stale, used, found
<1>5. Matched(S, used, t) \in States /\ Ids(Matched(S, used, t)) = Ids(S)
  BY MatchedState
<1>6. a.state \in States /\ Ids(a.state) \subseteq Ids(S) /\ Ids(a.state) \cap stale = {}
  BY <1>1, <1>5, WithoutState
<1> QED
  BY <1>1, <1>2, <1>3, <1>4, <1>6

-----------------------------------------------------------------------------
(* The inductive invariant. *)

IdsOf(ends) == {e.id : e \in ends}
Clear(ids) == ids \cap IdsOf(ended) = {}
Told(e, events) == \E l \in events : l.id = e.id /\ l.at = e.at /\ l.kind \in Endings

Typed ==
    /\ cfg \in [triage : BOOLEAN, archive : BOOLEAN] /\ now \in Nat /\ pack \in [Findings -> Nat]
    /\ starts \in Nat /\ trouble \in Nat /\ crossed \in BOOLEAN
    /\ file \in States /\ rev \in Nat /\ log \in SUBSET Notes /\ logRev \in Nat
    /\ dirs \in [DOMAIN dirs -> [parts : Nat, manifest : BOOLEAN]]
    /\ run \in [Procs -> Runs] /\ ended \in SUBSET Endeds
    /\ made \in SUBSET Int /\ IsFiniteSet(made) /\ doomed \in SUBSET made

\* What the file holds has not ended, unless a file was replaced unread; and
\* ids grow with the starts.
FileInv ==
    /\ Ids(file) \cup IdsOf(ended) \subseteq 0 .. starts
    /\ ~crossed => Clear(Ids(file))

\* What is archived and not chosen for removal is complete before its manifest.
ArchiveInv ==
    /\ DOMAIN dirs \subseteq made
    /\ \A d \in doomed : Cardinality({e \in made : e > d}) >= Retention
    /\ \A d \in DOMAIN dirs \ doomed :
         dirs[d].parts <= Artifacts /\ (dirs[d].manifest => dirs[d].parts = Artifacts)

\* One run r: what it knows of the files is of some revision, at most the last
\* one; if it is the last, nothing in its hands has ended; what its own write
\* will end is not in what it will write, and is among the events it will log.
RunInv(r) ==
    /\ r \in Runs /\ IsFiniteSet(r.state)
    /\ r.rev <= rev /\ r.logRev <= logRev
    /\ Ids(r.state) \cup IdsOf(r.ends) \subseteq 0 .. starts
    /\ Ids(r.state) \cap IdsOf(r.ends) = {}
    /\ ~crossed /\ r.rev = rev => Clear(Ids(r.state)) /\ \A h \in r.hidden : h[2].id \notin IdsOf(ended)
    /\ \A h \in r.hidden : Hides(h, h[3], r.base)
    /\ \A e \in r.ends : Told(e, r.events)
    /\ ~crossed /\ r.pc = "append" /\ r.logRev = logRev => r.old = log
    /\ r.stale \subseteq doomed

RunsInv == \A p \in Procs : RunInv(run[p])

\* The events that are in the log or about to be.
Heard == log \cup UNION {run[p].events : p \in {q \in Procs : run[q].pc \in {"log", "append"}}}
LogInv == crossed \/ \A e \in ended : now > e.at + EventDays \/ Told(e, Heard)

LocalIInv == Typed /\ FileInv /\ ArchiveInv /\ RunsInv /\ LogInv

-----------------------------------------------------------------------------
(* What a step keeps. *)

LEMMA IdleInv == ASSUME LocalIInv PROVE RunInv(Idle)
<1>1. Idle \in Runs
  BY DEF Idle, Runs, Pcs
<1>2. rev \in Nat /\ logRev \in Nat
  BY DEF LocalIInv, Typed
<1>3. IsFiniteSet({})
  BY FS_EmptySet
<1> QED
  BY <1>1, <1>2, <1>3 DEF Idle, RunInv, Ids, IdsOf, Clear

\* The shape of a step in which the files and what ended stay as they are.
Quiet(c) ==
    /\ file' = file /\ rev' = rev /\ log' = log /\ logRev' = logRev /\ ended' = ended
    /\ starts' \in {starts, starts + 1} /\ crossed' = (crossed \/ c)

LEMMA RunStays ==
    ASSUME LocalIInv, NEW c \in BOOLEAN, Quiet(c), NEW r, RunInv(r), doomed \subseteq doomed'
    PROVE  RunInv(r)'
<1>1. starts \in Nat
  BY DEF LocalIInv, Typed
<1>2. 0 .. starts \subseteq 0 .. starts'
  BY <1>1 DEF Quiet
<1> QED
  BY <1>2 DEF RunInv, Quiet, Clear, Ids, IdsOf

LEMMA RunInvNext ==
    ASSUME NEW c \in BOOLEAN, Quiet(c), NEW r \in Runs, IsFiniteSet(r.state), r.rev <= rev, r.logRev <= logRev,
           Ids(r.state) \cup IdsOf(r.ends) \subseteq 0 .. starts', Ids(r.state) \cap IdsOf(r.ends) = {},
           ~crossed' => Clear(Ids(r.state)) /\ \A h \in r.hidden : h[2].id \notin IdsOf(ended),
           \A h \in r.hidden : Hides(h, h[3], r.base), \A e \in r.ends : Told(e, r.events),
           r.pc # "append", r.stale \subseteq doomed'
    PROVE  RunInv(r)'
BY DEF RunInv, Quiet, Clear, IdsOf

LEMMA FilesStay ==
    ASSUME LocalIInv, NEW c \in BOOLEAN, Quiet(c)
    PROVE  /\ FileInv'
           /\ file' \in States /\ rev' \in Nat /\ log' \in SUBSET Notes /\ logRev' \in Nat
           /\ starts' \in Nat /\ crossed' \in BOOLEAN /\ ended' \in SUBSET Endeds
<1>1. starts \in Nat
  BY DEF LocalIInv, Typed
<1>2. 0 .. starts \subseteq 0 .. starts'
  BY <1>1 DEF Quiet
<1>3. FileInv'
  BY <1>2 DEF LocalIInv, FileInv, Quiet, Clear, Ids, IdsOf
<1> QED
  BY <1>1, <1>3 DEF LocalIInv, Typed, Quiet

LEMMA ArchiveStays ==
    ASSUME LocalIInv, dirs' = dirs, made' = made, doomed' = doomed
    PROVE  /\ ArchiveInv'
           /\ dirs' \in [DOMAIN dirs' -> [parts : Nat, manifest : BOOLEAN]]
           /\ made' \in SUBSET Int /\ IsFiniteSet(made') /\ doomed' \in SUBSET made'
BY DEF LocalIInv, Typed, ArchiveInv

\* A step that changes one run at most.
LEMMA OneRun ==
    ASSUME LocalIInv, NEW c \in BOOLEAN, Quiet(c), NEW p \in Procs, NEW r, RunInv(r)',
           run' = [run EXCEPT ![p] = r], doomed \subseteq doomed'
    PROVE  RunsInv' /\ run' \in [Procs -> Runs]
<1>1. run \in [Procs -> Runs]
  BY DEF LocalIInv, Typed
<1>2. r \in Runs
  BY DEF RunInv
<1>3. ASSUME NEW q \in Procs PROVE RunInv(run[q])'
  <2>1. PICK s : s = run'[q]
    OBVIOUS
  <2>2. RunInv(s)'
    <3>1. CASE q = p
      BY <1>1, <2>1, <3>1
    <3>2. CASE q # p
      <4>1. s = run[q] /\ RunInv(run[q])
        BY <1>1, <2>1, <3>2 DEF LocalIInv, RunsInv
      <4>2. RunInv(s)
        BY <4>1
      <4> QED
        BY <4>2, RunStays
    <3> QED
      BY <3>1, <3>2
  <2> QED
    BY <2>1, <2>2 DEF RunInv
<1> QED
  BY <1>1, <1>2, <1>3 DEF RunsInv

\* The log is not cut off from the ends while the events on their way stay.
LEMMA LogStays ==
    ASSUME LocalIInv, NEW c \in BOOLEAN, Quiet(c), now' \in Nat, now' >= now,
           c \/ \A q \in Procs : run[q].pc \in {"log", "append"} =>
                   run'[q].pc \in {"log", "append"} /\ run'[q].events = run[q].events
    PROVE  LogInv'
<1> SUFFICES ASSUME ~crossed', NEW e \in ended, ~(now' > e.at + EventDays)
             PROVE  Told(e, Heard)'
  BY DEF LogInv, Quiet
<1>1. ~crossed /\ ~c
  BY DEF Quiet
<1>2. e \in Endeds /\ now \in Nat /\ EventDays \in Nat
  BY TimesAssumption DEF LocalIInv, Typed
<1>3. ~(now > e.at + EventDays)
  BY <1>2 DEF Endeds
<1>4. Told(e, Heard)
  BY <1>1, <1>3 DEF LocalIInv, LogInv
<1>5. Heard \subseteq Heard'
  BY <1>1 DEF Heard, Quiet
<1> QED
  BY <1>4, <1>5 DEF Told

LEMMA NoRun ==
    ASSUME LocalIInv, NEW c \in BOOLEAN, Quiet(c), run' = run, doomed \subseteq doomed'
    PROVE  RunsInv' /\ run' \in [Procs -> Runs]
<1>1. ASSUME NEW q \in Procs PROVE RunInv(run[q])'
  <2>1. PICK s : s = run[q]
    OBVIOUS
  <2>2. RunInv(s)
    BY <2>1 DEF LocalIInv, RunsInv
  <2>3. RunInv(s)'
    BY <2>2, RunStays
  <2> QED
    BY <2>1, <2>3 DEF RunInv
<1> QED
  BY <1>1 DEF RunsInv, LocalIInv, Typed

-----------------------------------------------------------------------------
(* The commands. *)

LEMMA EventsAreNotes ==
    ASSUME NEW kind \in Endings \cup {"created", "matched"}, NEW ids \in SUBSET Nat, now \in Nat
    PROVE  /\ Events(kind, ids) \subseteq Notes /\ Ends(ids) \subseteq Endeds /\ IdsOf(Ends(ids)) = ids
           /\ kind \in Endings => \A e \in Ends(ids) : Told(e, Events(kind, ids))
<1>1. Events(kind, ids) \subseteq Notes
  BY DEF Events, Notes
<1>2. Ends(ids) \subseteq Endeds
  BY DEF Ends, Endeds
<1>3. IdsOf(Ends(ids)) = ids
  <2>1. ASSUME NEW i \in ids PROVE i \in IdsOf(Ends(ids))
    <3>1. [id |-> i, at |-> now] \in Ends(ids) /\ [id |-> i, at |-> now].id = i
      BY DEF Ends
    <3> QED
      BY <3>1 DEF IdsOf
  <2>2. ASSUME NEW i \in IdsOf(Ends(ids)) PROVE i \in ids
    BY DEF Ends, IdsOf
  <2> QED
    BY <2>1, <2>2
<1>4. ASSUME kind \in Endings, NEW e \in Ends(ids) PROVE Told(e, Events(kind, ids))
  <2>1. PICK i \in ids : e = [id |-> i, at |-> now]
    BY <1>4 DEF Ends
  <2>2. [kind |-> kind, id |-> i, at |-> now] \in Events(kind, ids)
    BY DEF Events
  <2> QED
    BY <1>4, <2>1, <2>2 DEF Told
<1> QED
  BY <1>1, <1>2, <1>3, <1>4

LEMMA ToldByMore ==
    ASSUME NEW E, NEW L, NEW M, \A e \in E : Told(e, L), L \subseteq M
    PROVE  \A e \in E : Told(e, M)
BY DEF Told

\* What a prune takes out of a state S, and what it logs about it.
PruneOf(S, next, late, over, ends, events) ==
    /\ next \in States /\ Ids(next) \subseteq Ids(S) /\ late \cup over \subseteq Ids(S)
    /\ Ids(next) \cap (late \cup over) = {} /\ IdsOf(ends) = late \cup over
    /\ events \subseteq Notes /\ ends \subseteq Endeds /\ \A e \in ends : Told(e, events)

LEMMA PruneEnds ==
    ASSUME NEW S \in States, now \in Nat,
           NEW next, next = Pruned(S, now), NEW late, late = Lapsed(S, now),
           NEW over, over = (Ids(S) \ Ids(next)) \ late,
           NEW ends, ends = Ends(late \cup over),
           NEW events, events = Events("expired", late) \cup Events("pruned", over)
    PROVE  PruneOf(S, next, late, over, ends, events)
<1>1. next \in States /\ Ids(next) \subseteq Ids(S) \ late
  BY PrunedState
<1>2. late \subseteq Ids(S)
  BY DEF Lapsed, Ids
<1>3. Ids(S) \subseteq Nat
  BY DEF States, Suppressions, Ids
<1>4. late \in SUBSET Nat /\ over \in SUBSET Nat /\ late \cup over \in SUBSET Nat
  BY <1>2, <1>3
<1>5. /\ Events("expired", late) \subseteq Notes /\ Events("pruned", over) \subseteq Notes
      /\ \A e \in Ends(late) : Told(e, Events("expired", late))
      /\ \A e \in Ends(over) : Told(e, Events("pruned", over))
      /\ Ends(late \cup over) \subseteq Endeds /\ IdsOf(Ends(late \cup over)) = late \cup over
  BY <1>4, EventsAreNotes DEF Endings
<1>6. Ends(late \cup over) = Ends(late) \cup Ends(over)
  BY DEF Ends
<1>7. \A e \in Ends(late \cup over) : Told(e, Events("expired", late) \cup Events("pruned", over))
  BY <1>5, <1>6 DEF Told
<1> QED
  BY <1>1, <1>2, <1>5, <1>7 DEF PruneOf

LEMMA LoadedState ==
    ASSUME LocalIInv, NEW c \in BOOLEAN, Quiet(c)
    PROVE  /\ Loaded(c) \in States /\ Ids(Loaded(c)) \subseteq 0 .. starts
           /\ ~crossed' => Clear(Ids(Loaded(c)))
<1>1. {} \in States /\ Ids({}) = {}
  BY FS_EmptySet DEF States, Ids
<1> QED
  BY <1>1 DEF LocalIInv, Typed, FileInv, Loaded, Quiet

\* A command that will write a state and log what it ends.
LEMMA ChangedInv ==
    ASSUME LocalIInv, NEW c \in BOOLEAN, Quiet(c), now' = now, doomed' = doomed,
           NEW p \in Procs, run[p].pc = "idle",
           NEW next \in States, NEW events \in SUBSET Notes, NEW ends \in SUBSET Endeds,
           Ids(next) \cup IdsOf(ends) \subseteq 0 .. starts', Ids(next) \cap IdsOf(ends) = {},
           ~crossed' => Clear(Ids(next)), \A e \in ends : Told(e, events),
           Changed(p, next, events, ends)
    PROVE  RunsInv' /\ run' \in [Procs -> Runs] /\ LogInv'
<1>1. PICK r : r = [Idle EXCEPT !.pc = "save", !.state = next, !.rev = rev, !.events = events, !.ends = ends]
  OBVIOUS
<1>2. /\ r.pc = "save" /\ r.state = next /\ r.rev = rev /\ r.events = events /\ r.ends = ends
      /\ r.hidden = {} /\ r.logRev = 0 /\ r.stale = {} /\ r.base = NoBase
  BY <1>1 DEF Idle
<1>3. rev \in Nat /\ logRev \in Nat /\ now \in Nat
  BY DEF LocalIInv, Typed
<1>4. r \in Runs
  <2>1. r = [pc |-> "save", state |-> next, rev |-> rev, events |-> events, ends |-> ends, hidden |-> {},
             base |-> NoBase, old |-> {}, logRev |-> 0, dir |-> 0, stale |-> {}]
    BY <1>1 DEF Idle
  <2>2. next \in SUBSET Suppressions
    BY DEF States
  <2> QED
    BY <1>3, <2>1, <2>2 DEF Runs, Pcs
<1>5. RunInv(r)'
  BY <1>2, <1>3, <1>4 DEF RunInv, Quiet, Clear, Ids, IdsOf, States, Told
<1>6. run' = [run EXCEPT ![p] = r]
  BY <1>1 DEF Changed, Set
<1>7. LogInv'
  <2>1. run \in [Procs -> Runs]
    BY DEF LocalIInv, Typed
  <2>2. \A q \in Procs : run[q].pc \in {"log", "append"} => run'[q] = run[q]
    BY <1>6, <2>1
  <2> QED
    BY <1>3, <2>2, LogStays
<1> QED
  BY <1>5, <1>6, <1>7, OneRun

\* The same for a prune of a state in which nothing has ended.
LEMMA PrunedInv ==
    ASSUME LocalIInv, NEW c \in BOOLEAN, Quiet(c), now' = now, doomed' = doomed,
           NEW p \in Procs, run[p].pc = "idle",
           NEW S, Ids(S) \subseteq 0 .. starts', ~crossed' => Clear(Ids(S)),
           NEW next, NEW late, NEW over, NEW ends, NEW pruned, PruneOf(S, next, late, over, ends, pruned),
           NEW events \in SUBSET Notes, \A e \in ends : Told(e, events),
           Changed(p, next, events, ends)
    PROVE  RunsInv' /\ run' \in [Procs -> Runs] /\ LogInv'
<1>1. Ids(next) \cup IdsOf(ends) \subseteq 0 .. starts' /\ Ids(next) \cap IdsOf(ends) = {}
  BY DEF PruneOf
<1>2. ~crossed' => Clear(Ids(next))
  BY DEF PruneOf, Clear
<1>3. next \in States /\ ends \in SUBSET Endeds
  BY DEF PruneOf
<1> QED
  BY <1>1, <1>2, <1>3, ChangedInv

\* What a started command leaves alone.
LEMMA StartedKeeps ==
    ASSUME LocalIInv, NEW p \in Procs, Started(p), NEW c \in BOOLEAN, Costs(c), crossed' = (crossed \/ c)
    PROVE  /\ Quiet(c) /\ now' = now /\ doomed' = doomed /\ run[p].pc = "idle" /\ FileInv' /\ ArchiveInv'
           /\ now \in Nat /\ starts \in Nat /\ starts' = starts + 1
           /\ run' \in [Procs -> Runs] => Typed'
<1>1. /\ Quiet(c) /\ now' = now /\ doomed' = doomed /\ run[p].pc = "idle" /\ dirs' = dirs /\ made' = made
      /\ cfg' = cfg /\ pack' = pack /\ starts' = starts + 1
  BY DEF Started, Quiet, files
<1>2. trouble' \in Nat
  BY DEF Costs, LocalIInv, Typed
<1>3. /\ cfg \in [triage : BOOLEAN, archive : BOOLEAN] /\ now \in Nat /\ pack \in [Findings -> Nat]
      /\ starts \in Nat
  BY DEF LocalIInv, Typed
<1>4. run' \in [Procs -> Runs] => Typed'
  BY <1>1, <1>2, <1>3, FilesStay, ArchiveStays DEF Typed
<1> QED
  BY <1>1, <1>3, <1>4, FilesStay, ArchiveStays

LEMMA SuppressInv ==
    ASSUME LocalIInv, NEW p \in Procs, NEW f \in Findings, NEW base \in Bases \cup {NoBase}, NEW until \in Expiries,
           Suppress(p, f, base, until)
    PROVE  LocalIInv'
<1>1. PICK v \in 0 .. pack[f], c \in BOOLEAN :
       LET s     == Suppression(starts', f, v, base, until)
           added == AddOrReplace(Loaded(c), s)
           next  == Pruned(added, now)
           late  == Lapsed(added, now)
           over  == (Ids(added) \ Ids(next)) \ late
       IN /\ Costs(c) /\ crossed' = (crossed \/ c)
          /\ Changed(p, next, Events("created", {s.id}) \cup Events("expired", late) \cup Events("pruned", over),
                     Ends(late \cup over))
  BY DEF Suppress
<1> DEFINE s == Suppression(starts', f, v, base, until)
           added == AddOrReplace(Loaded(c), s)
           next  == Pruned(added, now)
           late  == Lapsed(added, now)
           over  == (Ids(added) \ Ids(next)) \ late
           ends  == Ends(late \cup over)
           pruned == Events("expired", late) \cup Events("pruned", over)
           events == Events("created", {s.id}) \cup Events("expired", late) \cup Events("pruned", over)
<1>2. Costs(c) /\ crossed' = (crossed \/ c) /\ Changed(p, next, events, ends)
  BY <1>1
<1>3. Started(p)
  BY DEF Suppress
<1>4. /\ Quiet(c) /\ now' = now /\ doomed' = doomed /\ run[p].pc = "idle" /\ FileInv' /\ ArchiveInv'
      /\ now \in Nat /\ starts \in Nat /\ starts' = starts + 1 /\ (run' \in [Procs -> Runs] => Typed')
  BY <1>2, <1>3, StartedKeeps
<1>5. s \in Suppressions /\ s.id = starts'
  <2>1. pack[f] \in Nat /\ until \in Nat
    BY <1>4, TimesAssumption DEF LocalIInv, Typed, Expiries
  <2>2. v \in Nat
    BY <2>1
  <2> QED
    BY <1>4, <2>1, <2>2 DEF Suppression, Suppressions
<1> HIDE DEF s
<1>6. /\ Loaded(c) \in States /\ Ids(Loaded(c)) \subseteq 0 .. starts
      /\ ~crossed' => Clear(Ids(Loaded(c)))
  BY <1>4, LoadedState
<1>7. added \in States /\ Ids(added) \subseteq Ids(Loaded(c)) \cup {starts'}
  BY <1>5, <1>6, AddedState
<1> HIDE DEF added
<1>8. PruneOf(added, next, late, over, ends, pruned)
  BY <1>4, <1>7, PruneEnds
<1>9. events = Events("created", {s.id}) \cup pruned
  OBVIOUS
<1> HIDE DEF next, late, over, ends, pruned, events
<1>10. events \in SUBSET Notes /\ \A e \in ends : Told(e, events)
  <2>1. {s.id} \in SUBSET Nat
    BY <1>4, <1>5
  <2>2. Events("created", {s.id}) \subseteq Notes
    BY <1>4, <2>1, EventsAreNotes
  <2> QED
    BY <1>8, <1>9, <2>2, ToldByMore DEF PruneOf
<1>11. Ids(added) \subseteq 0 .. starts' /\ (~crossed' => Clear(Ids(added)))
  <2>1. 0 .. starts \subseteq 0 .. starts' /\ starts' \in 0 .. starts' /\ starts' \notin 0 .. starts
    BY <1>4
  <2>2. IdsOf(ended) \subseteq 0 .. starts
    BY DEF LocalIInv, FileInv
  <2> QED
    BY <1>6, <1>7, <2>1, <2>2 DEF Clear
<1>12. RunsInv' /\ run' \in [Procs -> Runs] /\ LogInv'
  BY <1>2, <1>4, <1>8, <1>10, <1>11, PrunedInv
<1> QED
  BY <1>4, <1>12 DEF LocalIInv

\* A command that found nothing to do.
LEMMA NothingToDo ==
    ASSUME LocalIInv, NEW p \in Procs, Started(p), NEW c \in BOOLEAN, Costs(c), crossed' = (crossed \/ c),
           run' = run
    PROVE  LocalIInv'
<1>1. /\ Quiet(c) /\ now' = now /\ doomed' = doomed /\ FileInv' /\ ArchiveInv' /\ now \in Nat
      /\ (run' \in [Procs -> Runs] => Typed')
  BY StartedKeeps
<1>2. RunsInv' /\ run' \in [Procs -> Runs]
  BY <1>1, NoRun
<1>3. LogInv'
  BY <1>1, LogStays
<1> QED
  BY <1>1, <1>2, <1>3 DEF LocalIInv

LEMMA UnsuppressInv ==
    ASSUME LocalIInv, NEW p \in Procs, NEW selector, Unsuppress(p, selector)
    PROVE  LocalIInv'
<1>1. PICK c \in BOOLEAN :
       LET state == Loaded(c)
           ids   == Ids(Removed(state, selector))
       IN /\ Costs(c) /\ crossed' = (crossed \/ c)
          /\ IF ids = {} THEN UNCHANGED run
             ELSE Changed(p, Without(state, ids), Events("removed", ids), Ends(ids))
  BY DEF Unsuppress
<1> DEFINE ids == Ids(Removed(Loaded(c), selector))
           next == Without(Loaded(c), ids)
<1>2. /\ Costs(c) /\ crossed' = (crossed \/ c) /\ Started(p)
      /\ IF ids = {} THEN run' = run ELSE Changed(p, next, Events("removed", ids), Ends(ids))
  BY <1>1 DEF Unsuppress
<1>3. /\ Quiet(c) /\ now' = now /\ doomed' = doomed /\ run[p].pc = "idle" /\ FileInv' /\ ArchiveInv'
      /\ now \in Nat /\ starts \in Nat /\ starts' = starts + 1 /\ (run' \in [Procs -> Runs] => Typed')
  BY <1>2, StartedKeeps
<1>4. /\ Loaded(c) \in States /\ Ids(Loaded(c)) \subseteq 0 .. starts
      /\ ~crossed' => Clear(Ids(Loaded(c)))
  BY <1>3, LoadedState
<1>5. ids \subseteq Ids(Loaded(c)) /\ ids \in SUBSET Nat
  <2>1. ids \subseteq Ids(Loaded(c))
    BY DEF Ids, Removed
  <2> QED
    BY <1>3, <1>4, <2>1
<1> HIDE DEF ids
<1>6. next \in States /\ Ids(next) \subseteq Ids(Loaded(c)) /\ Ids(next) \cap ids = {}
  BY <1>4, WithoutState
<1> HIDE DEF next
<1>7. CASE ids = {}
  BY <1>2, <1>7, NothingToDo
<1>8. CASE ids # {}
  <2>1. /\ Events("removed", ids) \in SUBSET Notes /\ Ends(ids) \in SUBSET Endeds /\ IdsOf(Ends(ids)) = ids
        /\ \A e \in Ends(ids) : Told(e, Events("removed", ids))
    BY <1>3, <1>5, EventsAreNotes DEF Endings
  <2>2. 0 .. starts \subseteq 0 .. starts'
    BY <1>3
  <2>3. Ids(next) \cup IdsOf(Ends(ids)) \subseteq 0 .. starts' /\ Ids(next) \cap IdsOf(Ends(ids)) = {}
    BY <1>4, <1>5, <1>6, <2>1, <2>2
  <2>4. ~crossed' => Clear(Ids(next))
    BY <1>4, <1>6 DEF Clear
  <2>5. RunsInv' /\ run' \in [Procs -> Runs] /\ LogInv'
    BY <1>2, <1>3, <1>6, <1>8, <2>1, <2>3, <2>4, ChangedInv
  <2> QED
    BY <1>3, <2>5 DEF LocalIInv
<1> QED
  BY <1>7, <1>8

LEMMA PruneInv ==
    ASSUME LocalIInv, NEW p \in Procs, NEW listing, Prune(p, listing)
    PROVE  LocalIInv'
<1>1. PICK c \in BOOLEAN :
       LET state == Loaded(c)
           next  == Pruned(state, now)
           late  == Lapsed(state, now)
           over  == (Ids(state) \ Ids(next)) \ late
       IN /\ Costs(c) /\ crossed' = (crossed \/ c)
          /\ IF listing /\ next = state THEN UNCHANGED run
             ELSE Changed(p, next, Events("expired", late) \cup Events("pruned", over), Ends(late \cup over))
  BY DEF Prune
<1> DEFINE state == Loaded(c)
           next  == Pruned(state, now)
           late  == Lapsed(state, now)
           over  == (Ids(state) \ Ids(next)) \ late
           ends  == Ends(late \cup over)
           pruned == Events("expired", late) \cup Events("pruned", over)
<1>2. /\ Costs(c) /\ crossed' = (crossed \/ c) /\ Started(p)
      /\ run' = run \/ Changed(p, next, pruned, ends)
  BY <1>1 DEF Prune
<1>3. /\ Quiet(c) /\ now' = now /\ doomed' = doomed /\ run[p].pc = "idle" /\ FileInv' /\ ArchiveInv'
      /\ now \in Nat /\ starts \in Nat /\ starts' = starts + 1 /\ (run' \in [Procs -> Runs] => Typed')
  BY <1>2, StartedKeeps
<1>4. state \in States /\ Ids(state) \subseteq 0 .. starts /\ (~crossed' => Clear(Ids(state)))
  BY <1>3, LoadedState
<1> HIDE DEF state
<1>5. PruneOf(state, next, late, over, ends, pruned)
  BY <1>3, <1>4, PruneEnds
<1> HIDE DEF next, late, over, ends, pruned
<1>6. CASE run' = run
  BY <1>2, <1>6, NothingToDo
<1>7. CASE Changed(p, next, pruned, ends)
  <2>1. Ids(state) \subseteq 0 .. starts'
    BY <1>3, <1>4
  <2>2. pruned \in SUBSET Notes /\ \A e \in ends : Told(e, pruned)
    BY <1>5 DEF PruneOf
  <2>3. RunsInv' /\ run' \in [Procs -> Runs] /\ LogInv'
    BY <1>3, <1>4, <1>5, <1>7, <2>1, <2>2, PrunedInv
  <2> QED
    BY <1>3, <2>3 DEF LocalIInv
<1> QED
  BY <1>2, <1>6, <1>7

-----------------------------------------------------------------------------
(* A gate run. *)

LEMMA CandidatesAreShown ==
    ASSUME LocalIInv, NEW F \in SUBSET Findings, NEW oldest \in BOOLEAN
    PROVE  Candidates(F, oldest) \in SUBSET Shown
<1>1. pack \in [Findings -> Nat]
  BY DEF LocalIInv, Typed
<1> QED
  BY <1>1 DEF Candidates, Shown

\* One run goes on, and the files and what ended stay as they are.
LEMMA RunGoesOn ==
    ASSUME LocalIInv, NEW c \in BOOLEAN, Quiet(c), now' = now, doomed \subseteq doomed',
           NEW p \in Procs, run[p].pc \notin {"log", "append"}, NEW r, RunInv(r)',
           run' = [run EXCEPT ![p] = r]
    PROVE  RunsInv' /\ run' \in [Procs -> Runs] /\ LogInv'
<1>1. run \in [Procs -> Runs] /\ now \in Nat
  BY DEF LocalIInv, Typed
<1>2. \A q \in Procs : run[q].pc \in {"log", "append"} => run'[q] = run[q]
  BY <1>1
<1>3. LogInv'
  BY <1>1, <1>2, LogStays
<1> QED
  BY <1>3, OneRun

\* What a gate run keeps of the suppressions that it applied.
LEMMA HiddenInv ==
    ASSUME now \in Nat, NEW S \in States, NEW base, NEW hid, hid \subseteq Shown \X S,
           \A h \in hid : Hides(h, now, base),
           NEW told, told = {<<h[1], h[2], now>> : h \in hid}
    PROVE  /\ told \subseteq Shown \X Suppressions \X Nat
           /\ \A h \in told : h[2].id \in Ids(S) /\ Hides(h, h[3], base)
<1>1. SUFFICES ASSUME NEW t \in told
               PROVE  /\ t \in Shown \X Suppressions \X Nat
                      /\ t[2].id \in Ids(S) /\ Hides(t, t[3], base)
  OBVIOUS
<1>2. PICK h \in hid : t = <<h[1], h[2], now>>
  BY <1>1
<1>3. h[1] \in Shown /\ h[2] \in S /\ h[2] \in Suppressions
  BY DEF States
<1>4. t[1] = h[1] /\ t[2] = h[2] /\ t[3] = now
  BY <1>2
<1> QED
  BY <1>2, <1>3, <1>4 DEF Hides, Ids

\* What a gate run makes of a state S in which nothing has ended: the state it
\* will write, what that ends and what it will log of it.
GateOf(S, a, ends, events) ==
    /\ a.state \in States /\ Ids(a.state) \subseteq Ids(S) /\ Ids(a.state) \cap a.stale = {}
    /\ a.stale \subseteq Ids(S) /\ ends = Ends(a.stale) /\ IdsOf(ends) = a.stale
    /\ ends \subseteq Endeds /\ events \subseteq Notes /\ \A e \in ends : Told(e, events)

LEMMA GateEnds ==
    ASSUME now \in Nat, NEW C \in SUBSET Shown, NEW S \in States, NEW base \in Bases \cup {NoBase},
           NEW a, a = Apply(C, S, base, now), NEW ends, ends = Ends(a.stale), NEW events,
           events = Events("stale", a.stale) \cup Events("matched", {h[2].id : h \in a.hidden})
    PROVE  GateOf(S, a, ends, events)
<1>1. /\ a.state \in States /\ Ids(a.state) \subseteq Ids(S) \ a.stale /\ a.stale \subseteq Ids(S)
      /\ a.hidden \subseteq Shown \X S
  BY AppliedState
<1>2. Ids(S) \subseteq Nat
  BY DEF States, Suppressions, Ids
<1>3. {h[2].id : h \in a.hidden} \in SUBSET Nat
  <2>1. \A h \in a.hidden : h[2] \in S
    BY <1>1
  <2> QED
    BY <1>2, <2>1 DEF Ids
<1>4. a.stale \in SUBSET Nat
  BY <1>1, <1>2
<1>5. /\ Events("stale", a.stale) \subseteq Notes /\ ends \subseteq Endeds /\ IdsOf(ends) = a.stale
      /\ \A e \in ends : Told(e, Events("stale", a.stale))
  BY <1>4, EventsAreNotes DEF Endings
<1>6. Events("matched", {h[2].id : h \in a.hidden}) \subseteq Notes
  BY <1>3, EventsAreNotes
<1>7. \A e \in ends : Told(e, events)
  BY <1>5 DEF Told
<1> QED
  BY <1>1, <1>5, <1>6, <1>7 DEF GateOf

LEMMA DecideInv ==
    ASSUME LocalIInv, NEW p \in Procs, NEW F \in SUBSET Findings, NEW base \in Bases, Decide(p, F, base)
    PROVE  LocalIInv'
<1>1. PICK c \in BOOLEAN :
       LET state == Loaded(c)
           kept  == Pruned(state, now)
           late  == Lapsed(state, now)
           over  == (Ids(state) \ Ids(kept)) \ late
           a     == Apply(Candidates(F, FALSE), kept, base, now)
       IN /\ Costs(c) /\ crossed' = (crossed \/ c)
          /\ Set(p, IF ~cfg.triage THEN [Idle EXCEPT !.pc = "resolve", !.base = base]
                    ELSE [Idle EXCEPT !.pc = "resolve", !.base = base, !.rev = rev, !.state = a.state,
                            !.events = Events("expired", late) \cup Events("pruned", over)
                                         \cup Events("stale", a.stale) \cup Events("matched", {h[2].id : h \in a.hidden}),
                            !.ends = Ends(late \cup over \cup a.stale),
                            !.hidden = {<<h[1], h[2], now>> : h \in a.hidden}])
  BY DEF Decide
<1> DEFINE state == Loaded(c)
           kept  == Pruned(state, now)
           late  == Lapsed(state, now)
           over  == (Ids(state) \ Ids(kept)) \ late
           a     == Apply(Candidates(F, FALSE), kept, base, now)
           ends  == Ends(late \cup over)
           pruned == Events("expired", late) \cup Events("pruned", over)
           stales == Ends(a.stale)
           applied == Events("stale", a.stale) \cup Events("matched", {h[2].id : h \in a.hidden})
           hidden == {<<h[1], h[2], now>> : h \in a.hidden}
           events == Events("expired", late) \cup Events("pruned", over)
                       \cup Events("stale", a.stale) \cup Events("matched", {h[2].id : h \in a.hidden})
           all == Ends(late \cup over \cup a.stale)
<1>2. Costs(c) /\ crossed' = (crossed \/ c) /\ Started(p)
  BY <1>1 DEF Decide
<1>3. PICK r : r = IF ~cfg.triage THEN [Idle EXCEPT !.pc = "resolve", !.base = base]
                   ELSE [Idle EXCEPT !.pc = "resolve", !.base = base, !.rev = rev, !.state = a.state,
                           !.events = events, !.ends = all, !.hidden = hidden]
  OBVIOUS
<1>4. run' = [run EXCEPT ![p] = r]
  BY <1>1, <1>3 DEF Set
<1>5. /\ Quiet(c) /\ now' = now /\ doomed' = doomed /\ run[p].pc = "idle" /\ FileInv' /\ ArchiveInv'
      /\ now \in Nat /\ starts \in Nat /\ starts' = starts + 1 /\ (run' \in [Procs -> Runs] => Typed')
  BY <1>2, StartedKeeps
<1>6. state \in States /\ Ids(state) \subseteq 0 .. starts /\ (~crossed' => Clear(Ids(state)))
  BY <1>5, LoadedState
<1> HIDE DEF state
<1>7. PruneOf(state, kept, late, over, ends, pruned)
  BY <1>5, <1>6, PruneEnds
<1>8. kept \in States
  BY <1>7 DEF PruneOf
<1>9. Candidates(F, FALSE) \in SUBSET Shown
  BY CandidatesAreShown
<1> HIDE DEF kept
<1>10. GateOf(kept, a, stales, applied)
  BY <1>5, <1>8, <1>9, GateEnds
<1>11. a.hidden \subseteq Shown \X kept /\ \A h \in a.hidden : Hides(h, now, base)
  BY <1>5, <1>8, <1>9, AppliedState
<1> HIDE DEF a
<1>12. /\ hidden \subseteq Shown \X Suppressions \X Nat
       /\ \A h \in hidden : h[2].id \in Ids(kept) /\ Hides(h, h[3], base)
  BY <1>5, <1>8, <1>11, HiddenInv
<1>13. events = pruned \cup applied /\ all = ends \cup stales
  BY DEF Ends
<1> HIDE DEF late, over, ends, pruned, stales, applied, hidden, events, all
<1>14. rev \in Nat /\ logRev \in Nat
  BY DEF LocalIInv, Typed
<1>15. 0 .. starts \subseteq 0 .. starts'
  BY <1>5
<1>16. CASE ~cfg.triage
  <2>1. r = [Idle EXCEPT !.pc = "resolve", !.base = base]
    BY <1>3, <1>16
  <2>2. r = [pc |-> "resolve", state |-> {}, rev |-> 0, events |-> {}, ends |-> {}, hidden |-> {},
             base |-> base, old |-> {}, logRev |-> 0, dir |-> 0, stale |-> {}]
    BY <2>1 DEF Idle
  <2>3. r \in Runs
    BY <2>2 DEF Runs, Pcs
  <2>4. IsFiniteSet({})
    BY FS_EmptySet
  <2>5. RunInv(r)'
    BY <1>5, <1>14, <2>2, <2>3, <2>4 DEF RunInv, Quiet, Clear, Ids, IdsOf
  <2>6. RunsInv' /\ run' \in [Procs -> Runs] /\ LogInv'
    BY <1>4, <1>5, <2>5, RunGoesOn
  <2> QED
    BY <1>5, <2>6 DEF LocalIInv
<1>17. CASE cfg.triage
  <2>1. r = [Idle EXCEPT !.pc = "resolve", !.base = base, !.rev = rev, !.state = a.state,
                           !.events = events, !.ends = all, !.hidden = hidden]
    BY <1>3, <1>17
  <2>2. r = [pc |-> "resolve", state |-> a.state, rev |-> rev, events |-> events, ends |-> all,
             hidden |-> hidden, base |-> base, old |-> {}, logRev |-> 0, dir |-> 0, stale |-> {}]
    BY <2>1 DEF Idle
  <2>3. /\ a.state \in States /\ Ids(a.state) \subseteq Ids(state) /\ Ids(kept) \subseteq Ids(state)
        /\ IdsOf(all) \subseteq Ids(state) /\ Ids(a.state) \cap IdsOf(all) = {}
    <3>1. IdsOf(all) = (late \cup over) \cup a.stale
      BY <1>7, <1>10, <1>13 DEF PruneOf, GateOf, IdsOf
    <3> QED
      BY <1>7, <1>10, <3>1 DEF PruneOf, GateOf
  <2>4. events \in SUBSET Notes /\ all \in SUBSET Endeds /\ \A e \in all : Told(e, events)
    BY <1>7, <1>10, <1>13 DEF PruneOf, GateOf, Told
  <2>5. a.state \in SUBSET Suppressions /\ IsFiniteSet(a.state)
    BY <2>3 DEF States
  <2>6. r \in Runs
    BY <1>12, <1>14, <2>2, <2>4, <2>5 DEF Runs, Pcs
  <2>7. /\ r.pc = "resolve" /\ r.state = a.state /\ r.rev = rev /\ r.events = events /\ r.ends = all
        /\ r.hidden = hidden /\ r.base = base /\ r.logRev = 0 /\ r.stale = {}
    BY <2>2
  <2>8. Ids(r.state) \cup IdsOf(r.ends) \subseteq 0 .. starts' /\ Ids(r.state) \cap IdsOf(r.ends) = {}
    BY <1>6, <1>15, <2>3, <2>7
  <2>9. ~crossed' => Clear(Ids(r.state)) /\ \A h \in r.hidden : h[2].id \notin IdsOf(ended)
    BY <1>6, <1>12, <2>3, <2>7 DEF Clear
  <2>10. RunInv(r)'
    <3>1. r.rev <= rev /\ r.logRev <= logRev /\ IsFiniteSet(r.state) /\ r.pc # "append" /\ r.stale \subseteq doomed'
      BY <1>14, <2>5, <2>7
    <3>2. \A h \in r.hidden : Hides(h, h[3], r.base)
      BY <1>12, <2>7
    <3>3. \A e \in r.ends : Told(e, r.events)
      BY <2>4, <2>7
    <3> QED
      BY <1>5, <2>6, <2>8, <2>9, <3>1, <3>2, <3>3, RunInvNext
  <2>11. RunsInv' /\ run' \in [Procs -> Runs] /\ LogInv'
    BY <1>4, <1>5, <2>10, RunGoesOn
  <2> QED
    BY <1>5, <2>11 DEF LocalIInv
<1> QED
  BY <1>16, <1>17

\* What a step of a run leaves alone that touches neither the starts nor the files.
LEMMA RunKeeps ==
    ASSUME LocalIInv, Quiet(FALSE), UNCHANGED <<cfg, now, pack, starts, trouble, dirs, made, doomed>>,
           run' \in [Procs -> Runs], RunsInv', LogInv'
    PROVE  LocalIInv'
<1>1. Typed'
  BY FilesStay, ArchiveStays DEF LocalIInv, Typed
<1> QED
  BY <1>1, FilesStay, ArchiveStays DEF LocalIInv

LEMMA CarryInv ==
    ASSUME LocalIInv, NEW p \in Procs, NEW F \in SUBSET Findings, Carry(p, F)
    PROVE  LocalIInv'
<1> DEFINE a == Apply(Candidates(F, TRUE), run[p].state, run[p].base, now)
           stales == Ends(a.stale)
           applied == Events("stale", a.stale) \cup Events("matched", {h[2].id : h \in a.hidden})
           hidden == {<<h[1], h[2], now>> : h \in a.hidden}
           next == IF cfg.archive THEN "archive" ELSE IF cfg.triage THEN "save" ELSE "idle"
<1>1. PICK me : me = run[p]
  OBVIOUS
<1>2. PICK r : r = IF ~cfg.triage THEN [me EXCEPT !.pc = next]
                   ELSE [me EXCEPT !.pc = next, !.state = a.state,
                           !.events = @ \cup Events("stale", a.stale) \cup Events("matched", {h[2].id : h \in a.hidden}),
                           !.ends = @ \cup stales, !.hidden = @ \cup hidden]
  OBVIOUS
<1>3. /\ me.pc = "resolve" /\ run' = [run EXCEPT ![p] = r]
      /\ UNCHANGED <<cfg, now, pack, starts, trouble, files, ended, crossed, made, doomed>>
  BY <1>1, <1>2 DEF Carry, Set
<1>4. /\ Quiet(FALSE) /\ UNCHANGED <<cfg, now, pack, starts, trouble, dirs, made, doomed>>
  BY <1>3 DEF Quiet, files, LocalIInv, Typed
<1>5. RunInv(me)
  BY <1>1 DEF LocalIInv, RunsInv
<1>6. RunInv(me)'
  BY <1>4, <1>5, RunStays
<1>7. now \in Nat /\ me \in Runs /\ me.state \in States /\ me.base \in Bases \cup {NoBase}
  BY <1>5 DEF LocalIInv, Typed, RunInv, Runs, States
<1>8. next \in Pcs /\ next \notin {"log", "append"}
  BY DEF Pcs
<1>9. Candidates(F, TRUE) \in SUBSET Shown
  BY CandidatesAreShown
<1>10. GateOf(me.state, a, stales, applied)
  BY <1>1, <1>7, <1>9, GateEnds
<1>11. a.hidden \subseteq Shown \X me.state /\ \A h \in a.hidden : Hides(h, now, me.base)
  BY <1>1, <1>7, <1>9, AppliedState
<1> HIDE DEF a
<1>12. /\ hidden \subseteq Shown \X Suppressions \X Nat
       /\ \A h \in hidden : h[2].id \in Ids(me.state) /\ Hides(h, h[3], me.base)
  BY <1>7, <1>11, HiddenInv, ZenonT(60)
<1>13. r = IF ~cfg.triage THEN [me EXCEPT !.pc = next]
           ELSE [me EXCEPT !.pc = next, !.state = a.state, !.events = me.events \cup applied,
                   !.ends = me.ends \cup stales, !.hidden = me.hidden \cup hidden]
  <2>1. me.events \cup Events("stale", a.stale) \cup Events("matched", {h[2].id : h \in a.hidden}) = me.events \cup applied
    OBVIOUS
  <2> HIDE DEF applied, next, stales, hidden
  <2> QED
    BY <1>2, <1>7, <2>1 DEF Runs
<1> HIDE DEF stales, applied, hidden, next
<1>14. CASE ~cfg.triage
  <2>1. r = [me EXCEPT !.pc = next]
    BY <1>13, <1>14
  <2>2. /\ r \in Runs /\ r.pc = next /\ r.state = me.state /\ r.rev = me.rev /\ r.events = me.events
        /\ r.ends = me.ends /\ r.hidden = me.hidden /\ r.base = me.base /\ r.logRev = me.logRev
        /\ r.stale = me.stale
    BY <1>7, <1>8, <2>1 DEF Runs
  <2>3. RunInv(r)'
    BY <1>6, <1>8, <2>2 DEF RunInv
  <2>4. RunsInv' /\ run' \in [Procs -> Runs] /\ LogInv'
    BY <1>1, <1>3, <1>4, <2>3, RunGoesOn
  <2> QED
    BY <1>4, <2>4, RunKeeps
<1>15. CASE cfg.triage
  <2>1. r = [me EXCEPT !.pc = next, !.state = a.state, !.events = me.events \cup applied,
                       !.ends = me.ends \cup stales, !.hidden = me.hidden \cup hidden]
    BY <1>13, <1>15
  <2>2. /\ a.state \in SUBSET Suppressions /\ IsFiniteSet(a.state) /\ applied \subseteq Notes /\ stales \subseteq Endeds
    BY <1>10 DEF GateOf, States
  <2>3. /\ r.pc = next /\ r.state = a.state /\ r.rev = me.rev /\ r.events = me.events \cup applied
        /\ r.ends = me.ends \cup stales /\ r.hidden = me.hidden \cup hidden /\ r.base = me.base
        /\ r.logRev = me.logRev /\ r.stale = me.stale
    BY <1>7, <2>1 DEF Runs
  <2>4. r \in Runs
    BY <1>7, <1>8, <1>12, <2>1, <2>2 DEF Runs
  <2>5. /\ me.rev <= rev /\ me.logRev <= logRev /\ me.stale \subseteq doomed
        /\ Ids(me.state) \cup IdsOf(me.ends) \subseteq 0 .. starts /\ Ids(me.state) \cap IdsOf(me.ends) = {}
        /\ ~crossed /\ me.rev = rev => Clear(Ids(me.state)) /\ \A h \in me.hidden : h[2].id \notin IdsOf(ended)
        /\ \A h \in me.hidden : Hides(h, h[3], me.base)
        /\ \A e \in me.ends : Told(e, me.events)
    BY <1>5 DEF RunInv
  <2>6. IdsOf(r.ends) = IdsOf(me.ends) \cup a.stale
    BY <1>10, <2>3 DEF GateOf, IdsOf
  <2>7. Ids(r.state) \cup IdsOf(r.ends) \subseteq 0 .. starts /\ Ids(r.state) \cap IdsOf(r.ends) = {}
    BY <1>10, <2>3, <2>5, <2>6 DEF GateOf
  <2>8. ~crossed /\ me.rev = rev => Clear(Ids(r.state)) /\ \A h \in r.hidden : h[2].id \notin IdsOf(ended)
    BY <1>10, <1>12, <2>3, <2>5 DEF GateOf, Clear
  <2>9. \A h \in r.hidden : Hides(h, h[3], r.base)
    BY <1>12, <2>3, <2>5
  <2>10. \A e \in r.ends : Told(e, r.events)
    BY <1>10, <2>3, <2>5 DEF GateOf, Told
  <2>11. RunInv(r)
    BY <1>8, <2>2, <2>3, <2>4, <2>5, <2>7, <2>8, <2>9, <2>10 DEF RunInv
  <2>12. RunInv(r)'
    BY <1>4, <2>11, RunStays
  <2>13. RunsInv' /\ run' \in [Procs -> Runs] /\ LogInv'
    BY <1>1, <1>3, <1>4, <2>12, RunGoesOn
  <2> QED
    BY <1>4, <2>13, RunKeeps
<1> QED
  BY <1>14, <1>15

LEMMA NothingMoves ==
    ASSUME LocalIInv, NEW c \in BOOLEAN, Quiet(c), now' = now, run' = run, doomed \subseteq doomed'
    PROVE  RunsInv' /\ run' \in [Procs -> Runs] /\ LogInv'
<1>1. now' \in Nat /\ now' >= now
  BY DEF LocalIInv, Typed
<1>2. LogInv'
  BY <1>1, LogStays
<1> QED
  BY <1>2, NoRun

-----------------------------------------------------------------------------
(* The archive. *)

ArchiveTyped ==
    /\ dirs \in [DOMAIN dirs -> [parts : Nat, manifest : BOOLEAN]]
    /\ made \in SUBSET Int /\ IsFiniteSet(made) /\ doomed \in SUBSET made

\* A step of an archiving run is one of that run, and it is not at the log.
LEMMA ArchiveStep ==
    ASSUME LocalIInv, NEW p \in Procs, NEW pc \in {"archive", "write", "prune", "remove"}, Archiving(p, pc),
           doomed \subseteq doomed', ArchiveTyped', ArchiveInv',
           \/ run' = run
           \/ run' = [run EXCEPT ![p] = Idle]
           \/ \E x \in Pcs \ {"append"}, d \in Int, st \in SUBSET Int :
                /\ run' = [run EXCEPT ![p] = [run[p] EXCEPT !.pc = x, !.dir = d, !.stale = st]]
                /\ st \subseteq doomed'
    PROVE  LocalIInv'
<1>1. /\ run[p].pc = pc /\ Quiet(FALSE) /\ now' = now /\ cfg' = cfg /\ pack' = pack /\ trouble' = trouble
      /\ starts' = starts
  BY DEF Archiving, Quiet, LocalIInv, Typed
<1>2. now \in Nat /\ run \in [Procs -> Runs] /\ run[p].pc \notin {"log", "append"}
  BY <1>1 DEF LocalIInv, Typed
<1>3. RunsInv' /\ run' \in [Procs -> Runs] /\ LogInv'
  <2>1. CASE run' = run
    BY <1>1, <2>1, NothingMoves
  <2>2. CASE run' = [run EXCEPT ![p] = Idle]
    <3>1. PICK r : r = Idle
      OBVIOUS
    <3>2. RunInv(r)'
      BY <1>1, <3>1, IdleInv, RunStays
    <3>3. run' = [run EXCEPT ![p] = r]
      BY <2>2, <3>1
    <3> QED
      BY <1>1, <1>2, <3>2, <3>3, RunGoesOn
  <2>3. ASSUME NEW x \in Pcs \ {"append"}, NEW d \in Int, NEW st \in SUBSET Int,
               run' = [run EXCEPT ![p] = [run[p] EXCEPT !.pc = x, !.dir = d, !.stale = st]],
               st \subseteq doomed'
        PROVE  RunsInv' /\ run' \in [Procs -> Runs] /\ LogInv'
    <3>1. PICK me : me = run[p]
      OBVIOUS
    <3>2. RunInv(me) /\ me \in Runs
      BY <3>1 DEF LocalIInv, RunsInv, RunInv
    <3>3. RunInv(me)'
      BY <1>1, <3>2, RunStays
    <3>4. PICK r : r = [me EXCEPT !.pc = x, !.dir = d, !.stale = st]
      OBVIOUS
    <3>5. /\ r.pc = x /\ r.state = me.state /\ r.rev = me.rev /\ r.events = me.events /\ r.ends = me.ends
          /\ r.hidden = me.hidden /\ r.base = me.base /\ r.logRev = me.logRev /\ r.stale = st
      BY <3>2, <3>4 DEF Runs
    <3>6. r \in Runs
      BY <3>2, <3>4 DEF Runs
    <3>7. RunInv(r)'
      BY <2>3, <3>3, <3>5, <3>6 DEF RunInv
    <3>8. run' = [run EXCEPT ![p] = r]
      BY <2>3, <3>1, <3>4
    <3> QED
      BY <1>1, <1>2, <3>7, <3>8, RunGoesOn
  <2> QED
    BY <2>1, <2>2, <2>3
<1>4. Typed'
  BY <1>1, <1>3, FilesStay DEF LocalIInv, Typed, ArchiveTyped
<1> QED
  BY <1>1, <1>3, <1>4, FilesStay DEF LocalIInv

LEMMA ArchiveGoesOn ==
    ASSUME LocalIInv, NEW p \in Procs, NEW pc \in {"archive", "write", "prune", "remove"}, Archiving(p, pc),
           doomed \subseteq doomed', ArchiveTyped', ArchiveInv',
           NEW x \in Pcs \ {"append"}, NEW d \in Int, NEW st \in SUBSET Int, st \subseteq doomed',
           run' = [run EXCEPT ![p] = [run[p] EXCEPT !.pc = x, !.dir = d, !.stale = st]]
    PROVE  LocalIInv'
<1>1. \E y \in Pcs \ {"append"}, e \in Int, s \in SUBSET Int :
         /\ run' = [run EXCEPT ![p] = [run[p] EXCEPT !.pc = y, !.dir = e, !.stale = s]]
         /\ s \subseteq doomed'
  OBVIOUS
<1> QED
  BY <1>1, ArchiveStep

\* A directory that was chosen for removal stays an old one.
LEMMA DoomedStay ==
    ASSUME NEW M \in SUBSET Int, NEW N \in SUBSET Int, IsFiniteSet(N), M \subseteq N, NEW d \in Int,
           Cardinality({e \in M : e > d}) >= Retention
    PROVE  Cardinality({e \in N : e > d}) >= Retention
<1> DEFINE A == {e \in M : e > d}
           B == {e \in N : e > d}
<1>1. A \subseteq B /\ B \subseteq N
  OBVIOUS
<1> HIDE DEF A, B
<1>2. IsFiniteSet(B)
  BY <1>1, FS_Subset
<1>3. Cardinality(A) <= Cardinality(B) /\ IsFiniteSet(A)
  BY <1>1, <1>2, FS_Subset
<1>4. Cardinality(A) \in Nat /\ Cardinality(B) \in Nat /\ Retention \in Nat
  BY <1>2, <1>3, FS_CardinalityType, LimitsAssumption
<1>5. Cardinality(A) >= Retention
  BY DEF A
<1>6. Cardinality(B) >= Retention
  BY <1>3, <1>4, <1>5
<1> QED
  BY <1>6 DEF B

LEMMA MakeDirInv == ASSUME LocalIInv, NEW p \in Procs, MakeDir(p) PROVE LocalIInv'
<1>1. PICK at \in {now - 1, now}, part \in 0 .. 1 :
       LET name == 2 * at + part IN
       /\ name \notin made
       /\ dirs' = [d \in DOMAIN dirs \cup {name} |->
                      IF d = name THEN [parts |-> 0, manifest |-> FALSE] ELSE dirs[d]]
       /\ made' = made \cup {name}
       /\ Set(p, [run[p] EXCEPT !.pc = "write", !.dir = name])
  BY DEF MakeDir
<1>2. now \in Nat
  BY DEF LocalIInv, Typed
<1>3. PICK name \in Int : name = 2 * at + part
  BY <1>2
<1>4. /\ name \notin made /\ made' = made \cup {name} /\ doomed' = doomed
      /\ dirs' = [d \in DOMAIN dirs \cup {name} |->
                      IF d = name THEN [parts |-> 0, manifest |-> FALSE] ELSE dirs[d]]
      /\ run' = [run EXCEPT ![p] = [run[p] EXCEPT !.pc = "write", !.dir = name]]
      /\ Archiving(p, "archive")
  BY <1>1, <1>3 DEF MakeDir, Set
<1>5. /\ dirs \in [DOMAIN dirs -> [parts : Nat, manifest : BOOLEAN]]
      /\ made \in SUBSET Int /\ IsFiniteSet(made) /\ doomed \in SUBSET made /\ DOMAIN dirs \subseteq made
  BY DEF LocalIInv, Typed, ArchiveInv
<1>6. [parts |-> 0, manifest |-> FALSE] \in [parts : Nat, manifest : BOOLEAN]
  OBVIOUS
<1>7. DOMAIN dirs' = DOMAIN dirs \cup {name}
  BY <1>4
<1>8. \A d \in DOMAIN dirs' : dirs'[d] = IF d = name THEN [parts |-> 0, manifest |-> FALSE] ELSE dirs[d]
  BY <1>4
<1>9. \A d \in DOMAIN dirs' : dirs'[d] \in [parts : Nat, manifest : BOOLEAN]
  BY <1>5, <1>6, <1>7, <1>8
<1>10. dirs' \in [DOMAIN dirs' -> [parts : Nat, manifest : BOOLEAN]]
  <2>1. dirs' = [d \in DOMAIN dirs' |-> dirs'[d]]
    BY <1>4, <1>7
  <2> QED
    BY <1>9, <2>1
<1>11. made' \in SUBSET Int /\ IsFiniteSet(made') /\ doomed' \in SUBSET made'
  BY <1>4, <1>5, FS_AddElement
<1>12. ArchiveTyped'
  BY <1>10, <1>11 DEF ArchiveTyped
<1>13. ArchiveInv'
  <2>1. \A d \in doomed' : Cardinality({e \in made' : e > d}) >= Retention
    <3>1. \A d \in doomed : Cardinality({e \in made : e > d}) >= Retention
      BY DEF LocalIInv, ArchiveInv
    <3>2. ASSUME NEW d \in doomed' PROVE Cardinality({e \in made' : e > d}) >= Retention
      <4>1. d \in Int /\ Cardinality({e \in made : e > d}) >= Retention /\ made \subseteq made'
        BY <1>4, <1>5, <3>1
      <4> QED
        BY <1>5, <1>11, <4>1, DoomedStay
    <3> QED
      BY <3>2
  <2>2. ASSUME NEW d \in DOMAIN dirs' \ doomed'
        PROVE  dirs'[d].parts <= Artifacts /\ (dirs'[d].manifest => dirs'[d].parts = Artifacts)
    <3>1. CASE d = name
      <4>1. dirs'[d] = [parts |-> 0, manifest |-> FALSE]
        BY <1>8, <3>1
      <4> QED
        BY <4>1, LimitsAssumption
    <3>2. CASE d # name
      <4>1. dirs'[d] = dirs[d] /\ d \in DOMAIN dirs \ doomed
        BY <1>4, <1>7, <1>8, <3>2
      <4> QED
        BY <4>1 DEF LocalIInv, ArchiveInv
    <3> QED
      BY <3>1, <3>2
  <2>3. DOMAIN dirs' \subseteq made'
    BY <1>4, <1>5, <1>7
  <2> QED
    BY <2>1, <2>2, <2>3 DEF ArchiveInv
<1>14. run' = [run EXCEPT ![p] = [run[p] EXCEPT !.pc = "write", !.dir = name, !.stale = run[p].stale]]
  <2>1. run[p] \in Runs
    BY DEF LocalIInv, Typed
  <2>2. [run[p] EXCEPT !.pc = "write", !.dir = name] = [run[p] EXCEPT !.pc = "write", !.dir = name, !.stale = run[p].stale]
    BY <2>1 DEF Runs
  <2> QED
    BY <1>4, <2>2
<1>15. run[p].stale \in SUBSET Int /\ run[p].stale \subseteq doomed'
  BY <1>4 DEF LocalIInv, Typed, RunsInv, RunInv, Runs
<1>16. doomed \subseteq doomed' /\ "write" \in Pcs \ {"append"}
  BY <1>4 DEF Pcs
<1>17. PICK st \in SUBSET Int : st = run[p].stale
  BY <1>15
<1>18. st \subseteq doomed' /\ Archiving(p, "archive")
  BY <1>4, <1>15, <1>17
<1>19. run' = [run EXCEPT ![p] = [run[p] EXCEPT !.pc = "write", !.dir = name, !.stale = st]]
  BY <1>14, <1>17
<1> QED
  BY <1>12, <1>13, <1>16, <1>18, <1>19, ArchiveGoesOn

\* A step that changes only what is in the directories.
LEMMA EntriesChange ==
    ASSUME LocalIInv, made' = made, doomed' = doomed, NEW n \in DOMAIN dirs,
           NEW new \in [parts : Nat, manifest : BOOLEAN], dirs' = [dirs EXCEPT ![n] = new],
           n \notin doomed => new.parts <= Artifacts /\ (new.manifest => new.parts = Artifacts)
    PROVE  ArchiveTyped' /\ ArchiveInv'
<1>1. dirs \in [DOMAIN dirs -> [parts : Nat, manifest : BOOLEAN]]
  BY DEF LocalIInv, Typed
<1>2. DOMAIN dirs' = DOMAIN dirs /\ dirs' \in [DOMAIN dirs' -> [parts : Nat, manifest : BOOLEAN]]
  BY <1>1
<1>3. \A d \in DOMAIN dirs : dirs'[d] = IF d = n THEN new ELSE dirs[d]
  BY <1>1
<1>4. ArchiveTyped'
  BY <1>2 DEF ArchiveTyped, LocalIInv, Typed
<1>5. \A d \in DOMAIN dirs' \ doomed' :
        dirs'[d].parts <= Artifacts /\ (dirs'[d].manifest => dirs'[d].parts = Artifacts)
  BY <1>2, <1>3 DEF LocalIInv, ArchiveInv
<1> QED
  BY <1>2, <1>4, <1>5 DEF LocalIInv, ArchiveInv

LEMMA WriteFileInv == ASSUME LocalIInv, NEW p \in Procs, WriteFile(p) PROVE LocalIInv'
<1> DEFINE n == run[p].dir
<1>1. Archiving(p, "write") /\ made' = made /\ doomed' = doomed
  BY DEF WriteFile
<1>2. run[p] \in Runs /\ run[p].stale \subseteq doomed' /\ run[p].stale \in SUBSET Int /\ run[p].dir \in Int
  BY <1>1 DEF LocalIInv, Typed, RunsInv, RunInv, Runs
<1>3. CASE n \notin DOMAIN dirs
  <2>1. run' = [run EXCEPT ![p] = Idle] /\ dirs' = dirs
    BY <1>3 DEF WriteFile, Set
  <2>2. ArchiveTyped' /\ ArchiveInv'
    BY <1>1, <2>1, ArchiveStays DEF ArchiveTyped
  <2> QED
    BY <1>1, <2>1, <2>2, ArchiveStep
<1>4. CASE n \in DOMAIN dirs /\ dirs[n].parts < Artifacts
  <2>1. dirs' = [dirs EXCEPT ![n].parts = @ + 1] /\ run' = run
    BY <1>4 DEF WriteFile
  <2>2. dirs[n] \in [parts : Nat, manifest : BOOLEAN]
    BY <1>4 DEF LocalIInv, Typed
  <2>3. PICK new : new = [dirs[n] EXCEPT !.parts = @ + 1]
    OBVIOUS
  <2>4. /\ new \in [parts : Nat, manifest : BOOLEAN] /\ new.parts = dirs[n].parts + 1
        /\ new.manifest = dirs[n].manifest
    BY <2>2, <2>3
  <2>5. dirs' = [dirs EXCEPT ![n] = new]
    BY <2>1, <2>3
  <2>6. n \notin doomed => new.parts <= Artifacts /\ (new.manifest => new.parts = Artifacts)
    <3>1. n \notin doomed => (dirs[n].manifest => dirs[n].parts = Artifacts)
      BY <1>4 DEF LocalIInv, ArchiveInv
    <3> QED
      BY <1>4, <2>2, <2>4, <3>1, LimitsAssumption
  <2> HIDE DEF n
  <2>7. ArchiveTyped' /\ ArchiveInv'
    BY <1>1, <1>4, <2>4, <2>5, <2>6, EntriesChange
  <2> QED
    BY <1>1, <2>1, <2>7, ArchiveStep
<1>5. CASE n \in DOMAIN dirs /\ ~(dirs[n].parts < Artifacts)
  <2>1. dirs' = [dirs EXCEPT ![n].manifest = TRUE] /\ run' = [run EXCEPT ![p] = [run[p] EXCEPT !.pc = "prune"]]
    BY <1>5 DEF WriteFile, Set
  <2>2. dirs[n] \in [parts : Nat, manifest : BOOLEAN]
    BY <1>5 DEF LocalIInv, Typed
  <2>3. PICK new : new = [dirs[n] EXCEPT !.manifest = TRUE]
    OBVIOUS
  <2>4. new \in [parts : Nat, manifest : BOOLEAN] /\ new.parts = dirs[n].parts
    BY <2>2, <2>3
  <2>5. dirs' = [dirs EXCEPT ![n] = new]
    BY <2>1, <2>3
  <2>6. n \notin doomed => new.parts <= Artifacts /\ (new.manifest => new.parts = Artifacts)
    <3>1. n \notin doomed => dirs[n].parts <= Artifacts
      BY <1>5 DEF LocalIInv, ArchiveInv
    <3> QED
      BY <1>5, <2>2, <2>4, <3>1, LimitsAssumption
  <2>7. ArchiveTyped' /\ ArchiveInv'
    <3> HIDE DEF n
    <3> QED
      BY <1>1, <1>5, <2>4, <2>5, <2>6, EntriesChange
  <2>8. [run[p] EXCEPT !.pc = "prune"] = [run[p] EXCEPT !.pc = "prune", !.dir = n, !.stale = run[p].stale]
    BY <1>2 DEF Runs
  <2>9. doomed \subseteq doomed' /\ "prune" \in Pcs \ {"append"}
    BY <1>1 DEF Pcs
  <2>10. run' = [run EXCEPT ![p] = [run[p] EXCEPT !.pc = "prune", !.dir = n, !.stale = run[p].stale]]
    BY <2>1, <2>8
  <2>11. n \in Int
    BY <1>2
  <2> HIDE DEF n
  <2> QED
    BY <1>1, <1>2, <2>7, <2>9, <2>10, <2>11, ArchiveGoesOn
<1> QED
  BY <1>3, <1>4, <1>5

LEMMA ListStaleInv == ASSUME LocalIInv, NEW p \in Procs, ListStale(p) PROVE LocalIInv'
<1>1. PICK stale : stale = {d \in DOMAIN dirs : Cardinality({e \in DOMAIN dirs : e > d}) >= Retention}
  OBVIOUS
<1>2. /\ Archiving(p, "prune") /\ dirs' = dirs /\ made' = made /\ doomed' = doomed \cup stale
      /\ run' = [run EXCEPT ![p] = [run[p] EXCEPT !.pc = "remove", !.stale = stale]]
  BY <1>1 DEF ListStale, Set
<1>3. /\ dirs \in [DOMAIN dirs -> [parts : Nat, manifest : BOOLEAN]] /\ DOMAIN dirs \subseteq made
      /\ made \in SUBSET Int /\ IsFiniteSet(made) /\ doomed \in SUBSET made
  BY DEF LocalIInv, Typed, ArchiveInv
<1>4. stale \subseteq DOMAIN dirs /\ \A d \in stale : Cardinality({e \in DOMAIN dirs : e > d}) >= Retention
  BY <1>1
<1>5. ArchiveTyped'
  <2>1. doomed' \in SUBSET made'
    BY <1>2, <1>3, <1>4
  <2> QED
    BY <1>2, <1>3, <2>1 DEF ArchiveTyped
<1>6. ASSUME NEW d \in doomed' PROVE Cardinality({e \in made' : e > d}) >= Retention
  <2>1. CASE d \in doomed
    BY <1>2, <2>1 DEF LocalIInv, ArchiveInv
  <2>2. CASE d \in stale
    <3>1. d \in Int /\ DOMAIN dirs \in SUBSET Int
      BY <1>3, <1>4, <2>2
    <3>2. Cardinality({e \in made : e > d}) >= Retention
      BY <1>3, <1>4, <2>2, <3>1, DoomedStay
    <3> QED
      BY <1>2, <3>2
  <2> QED
    BY <1>2, <2>1, <2>2
<1>7. ArchiveInv'
  BY <1>2, <1>3, <1>6 DEF LocalIInv, ArchiveInv
<1>8. PICK d \in Int : d = run[p].dir
  BY DEF LocalIInv, Typed, Runs
<1>9. [run[p] EXCEPT !.pc = "remove", !.stale = stale] = [run[p] EXCEPT !.pc = "remove", !.dir = d, !.stale = stale]
  BY <1>8 DEF LocalIInv, Typed, Runs
<1>10. PICK st \in SUBSET Int, x \in Pcs \ {"append"} : st = stale /\ x = "remove" /\ st \subseteq doomed'
  BY <1>2, <1>3, <1>4 DEF Pcs
<1>11. run' = [run EXCEPT ![p] = [run[p] EXCEPT !.pc = x, !.dir = d, !.stale = st]]
  BY <1>2, <1>9, <1>10
<1>12. doomed \subseteq doomed' /\ Archiving(p, "prune")
  BY <1>2
<1> QED
  BY <1>5, <1>7, <1>10, <1>11, <1>12, ArchiveGoesOn

LEMMA RemoveEntryInv == ASSUME LocalIInv, NEW p \in Procs, RemoveEntry(p) PROVE LocalIInv'
<1>1. Archiving(p, "remove") /\ made' = made /\ doomed' = doomed
  BY DEF RemoveEntry
<1>2. PICK n \in run[p].stale :
     \/ /\ n \in DOMAIN dirs /\ dirs[n].parts > 0
        /\ dirs' = [dirs EXCEPT ![n].parts = @ - 1] /\ UNCHANGED run
     \/ /\ n \in DOMAIN dirs /\ dirs[n].manifest
        /\ dirs' = [dirs EXCEPT ![n].manifest = FALSE] /\ UNCHANGED run
     \/ /\ n \in DOMAIN dirs /\ dirs[n].parts = 0 /\ ~dirs[n].manifest
        /\ dirs' = [d \in DOMAIN dirs \ {n} |-> dirs[d]]
        /\ Set(p, [run[p] EXCEPT !.stale = @ \ {n}])
     \/ Set(p, Idle) /\ UNCHANGED dirs
  BY DEF RemoveEntry
<1>3. /\ run[p] \in Runs /\ run[p].stale \subseteq doomed' /\ run[p].stale \in SUBSET Int /\ run[p].dir \in Int
      /\ n \in doomed
  BY <1>1 DEF LocalIInv, Typed, RunsInv, RunInv, Runs
<1>4. dirs \in [DOMAIN dirs -> [parts : Nat, manifest : BOOLEAN]] /\ DOMAIN dirs \subseteq made
  BY DEF LocalIInv, Typed, ArchiveInv
<1>5. CASE n \in DOMAIN dirs /\ dirs[n].parts > 0 /\ dirs' = [dirs EXCEPT ![n].parts = @ - 1] /\ run' = run
  <2>1. PICK new : new = [dirs[n] EXCEPT !.parts = @ - 1]
    OBVIOUS
  <2>2. dirs[n] \in [parts : Nat, manifest : BOOLEAN]
    BY <1>4, <1>5
  <2>3. new \in [parts : Nat, manifest : BOOLEAN]
    BY <1>5, <2>1, <2>2
  <2>4. dirs' = [dirs EXCEPT ![n] = new]
    BY <1>5, <2>1
  <2>5. ArchiveTyped' /\ ArchiveInv'
    BY <1>1, <1>3, <1>5, <2>3, <2>4, EntriesChange
  <2> QED
    BY <1>1, <1>5, <2>5, ArchiveStep
<1>6. CASE n \in DOMAIN dirs /\ dirs' = [dirs EXCEPT ![n].manifest = FALSE] /\ run' = run
  <2>1. PICK new : new = [dirs[n] EXCEPT !.manifest = FALSE]
    OBVIOUS
  <2>2. dirs[n] \in [parts : Nat, manifest : BOOLEAN]
    BY <1>4, <1>6
  <2>3. new \in [parts : Nat, manifest : BOOLEAN]
    BY <2>1, <2>2
  <2>4. dirs' = [dirs EXCEPT ![n] = new]
    BY <1>6, <2>1
  <2>5. ArchiveTyped' /\ ArchiveInv'
    BY <1>1, <1>3, <1>6, <2>3, <2>4, EntriesChange
  <2> QED
    BY <1>1, <1>6, <2>5, ArchiveStep
<1>7. CASE /\ n \in DOMAIN dirs /\ dirs' = [d \in DOMAIN dirs \ {n} |-> dirs[d]]
           /\ run' = [run EXCEPT ![p] = [run[p] EXCEPT !.stale = @ \ {n}]] /\ run[p].pc = "remove"
  <2>1. DOMAIN dirs' = DOMAIN dirs \ {n} /\ \A d \in DOMAIN dirs' : dirs'[d] = dirs[d]
    BY <1>7
  <2>2. dirs' \in [DOMAIN dirs' -> [parts : Nat, manifest : BOOLEAN]]
    BY <1>4, <1>7
  <2>3. ArchiveTyped'
    BY <1>1, <2>2 DEF ArchiveTyped, LocalIInv, Typed
  <2>4. ArchiveInv'
    BY <1>1, <1>4, <2>1 DEF LocalIInv, ArchiveInv
  <2>5. PICK st \in SUBSET Int : st = run[p].stale \ {n}
    BY <1>3
  <2>6. PICK d \in Int : d = run[p].dir
    BY <1>3
  <2>7. [run[p] EXCEPT !.stale = @ \ {n}] = [run[p] EXCEPT !.pc = "remove", !.dir = d, !.stale = st]
    BY <1>3, <1>7, <2>5, <2>6 DEF Runs
  <2>8. PICK x \in Pcs \ {"append"} : x = "remove"
    BY DEF Pcs
  <2>9. run' = [run EXCEPT ![p] = [run[p] EXCEPT !.pc = x, !.dir = d, !.stale = st]]
    BY <1>7, <2>7, <2>8
  <2>10. st \subseteq doomed' /\ doomed \subseteq doomed'
    BY <1>1, <1>3, <2>5
  <2> QED
    BY <1>1, <2>3, <2>4, <2>9, <2>10, ArchiveGoesOn
<1>8. CASE run' = [run EXCEPT ![p] = Idle] /\ dirs' = dirs
  <2>1. ArchiveTyped' /\ ArchiveInv'
    BY <1>1, <1>8, ArchiveStays DEF ArchiveTyped
  <2> QED
    BY <1>1, <1>8, <2>1, ArchiveStep
<1> QED
  BY <1>1, <1>2, <1>5, <1>6, <1>7, <1>8 DEF Set, Archiving

LEMMA ArchivedInv == ASSUME LocalIInv, NEW p \in Procs, Archived(p) PROVE LocalIInv'
<1>1. PICK x \in Pcs \ {"append"} : x = IF cfg.triage THEN "save" ELSE "idle"
  BY DEF Pcs
<1>2. /\ Archiving(p, "remove") /\ dirs' = dirs /\ made' = made /\ doomed' = doomed
      /\ run' = [run EXCEPT ![p] = [run[p] EXCEPT !.pc = x, !.dir = 0]]
  BY <1>1 DEF Archived, Set
<1>3. ArchiveTyped' /\ ArchiveInv'
  BY <1>2, ArchiveStays DEF ArchiveTyped
<1>4. PICK st \in SUBSET Int : st = run[p].stale /\ st \subseteq doomed'
  BY <1>2 DEF LocalIInv, Typed, RunsInv, RunInv, Runs
<1>5. PICK d \in Int : d = 0
  OBVIOUS
<1>6. [run[p] EXCEPT !.pc = x, !.dir = 0] = [run[p] EXCEPT !.pc = x, !.dir = d, !.stale = st]
  BY <1>4, <1>5 DEF LocalIInv, Typed, Runs
<1>7. run' = [run EXCEPT ![p] = [run[p] EXCEPT !.pc = x, !.dir = d, !.stale = st]]
  BY <1>2, <1>6
<1>8. doomed \subseteq doomed' /\ Archiving(p, "remove")
  BY <1>2
<1> QED
  BY <1>3, <1>4, <1>7, <1>8, ArchiveGoesOn

-----------------------------------------------------------------------------
(* The two writes. *)

\* Another run when the state or the log is replaced: what it has read is no longer the
\* last revision.
LEMMA OthersAtWrite ==
    ASSUME LocalIInv, NEW s, RunInv(s), starts' = starts, crossed' \in BOOLEAN, crossed => crossed', doomed' = doomed,
           \/ rev' = rev + 1 /\ log' = log /\ logRev' = logRev
           \/ rev' = rev /\ ended' = ended /\ logRev' = logRev + 1
    PROVE  RunInv(s)'
<1>1. rev \in Nat /\ logRev \in Nat
  BY DEF LocalIInv, Typed
<1>2. s \in Runs /\ s.rev <= rev /\ s.logRev <= logRev
  BY DEF RunInv
<1>3. s.rev \in Nat /\ s.logRev \in Nat
  BY <1>2 DEF Runs
<1>4. CASE rev' = rev + 1 /\ log' = log /\ logRev' = logRev
  <2>1. s.rev <= rev' /\ s.rev # rev' /\ s.logRev <= logRev'
    BY <1>1, <1>2, <1>3, <1>4
  <2> QED
    BY <1>4, <2>1 DEF RunInv
<1>5. CASE rev' = rev /\ ended' = ended /\ logRev' = logRev + 1
  <2>1. s.logRev <= logRev' /\ s.logRev # logRev' /\ s.rev <= rev'
    BY <1>1, <1>2, <1>3, <1>5
  <2> QED
    BY <1>5, <2>1 DEF RunInv, Clear, IdsOf
<1> QED
  BY <1>4, <1>5

\* All runs when one of them has replaced a file.
LEMMA RunsAtWrite ==
    ASSUME LocalIInv, starts' = starts, crossed' \in BOOLEAN, crossed => crossed', doomed' = doomed,
           \/ rev' = rev + 1 /\ log' = log /\ logRev' = logRev
           \/ rev' = rev /\ ended' = ended /\ logRev' = logRev + 1,
           NEW p \in Procs, NEW r, RunInv(r)', run' = [run EXCEPT ![p] = r]
    PROVE  RunsInv' /\ run' \in [Procs -> Runs]
<1>1. run \in [Procs -> Runs]
  BY DEF LocalIInv, Typed
<1>2. r \in Runs
  BY DEF RunInv
<1>3. ASSUME NEW q \in Procs PROVE RunInv(run[q])'
  <2>1. PICK s : s = run'[q]
    OBVIOUS
  <2>2. RunInv(s)'
    <3>1. CASE q = p
      BY <1>1, <2>1, <3>1
    <3>2. CASE q # p
      <4>1. s = run[q] /\ RunInv(run[q])
        BY <1>1, <2>1, <3>2 DEF LocalIInv, RunsInv
      <4>2. RunInv(s)
        BY <4>1
      <4> QED
        BY <4>2, OthersAtWrite
    <3> QED
      BY <3>1, <3>2
  <2> QED
    BY <2>1, <2>2 DEF RunInv
<1> QED
  BY <1>1, <1>2, <1>3 DEF RunsInv

\* What a write leaves alone.
LEMMA WriteKeeps ==
    ASSUME LocalIInv, UNCHANGED <<cfg, now, pack, starts, trouble, dirs, made, doomed>>, crossed' \in BOOLEAN,
           file' \in States, rev' \in Nat, log' \in SUBSET Notes, logRev' \in Nat, ended' \in SUBSET Endeds,
           FileInv', run' \in [Procs -> Runs], RunsInv', LogInv'
    PROVE  LocalIInv'
<1>1. Typed'
  BY ArchiveStays DEF LocalIInv, Typed
<1> QED
  BY <1>1, ArchiveStays DEF LocalIInv

LEMMA SaveStateInv == ASSUME LocalIInv, NEW p \in Procs, SaveState(p) PROVE LocalIInv'
<1>1. PICK me : me = run[p]
  OBVIOUS
<1>2. /\ me.pc = "save" /\ UNCHANGED <<cfg, now, pack, starts, trouble, log, logRev, dirs, made, doomed>>
      /\ \/ Set(p, Idle) /\ UNCHANGED <<file, rev, ended, crossed>>
         \/ /\ file' = me.state /\ rev' = rev + 1
            /\ crossed' = (crossed \/ rev # me.rev)
            /\ ended' = ended \cup me.ends
            /\ Set(p, [Idle EXCEPT !.pc = "log", !.events = me.events])
  BY <1>1 DEF SaveState
<1>3. /\ run \in [Procs -> Runs] /\ me \in Runs /\ RunInv(me) /\ now \in Nat /\ rev \in Nat /\ logRev \in Nat
      /\ crossed \in BOOLEAN
  BY <1>1 DEF LocalIInv, Typed, RunsInv
<1>4. CASE Set(p, Idle) /\ UNCHANGED <<file, rev, ended, crossed>>
  <2>1. Quiet(FALSE)
    BY <1>2, <1>3, <1>4 DEF Quiet
  <2>2. PICK r : r = Idle
    OBVIOUS
  <2>3. doomed \subseteq doomed' /\ run[p].pc \notin {"log", "append"} /\ now' = now
    BY <1>1, <1>2
  <2>4. RunInv(r)'
    BY <2>1, <2>2, <2>3, IdleInv, RunStays
  <2>5. run' = [run EXCEPT ![p] = r]
    BY <1>4, <2>2 DEF Set
  <2>6. RunsInv' /\ run' \in [Procs -> Runs] /\ LogInv'
    BY <2>1, <2>3, <2>4, <2>5, RunGoesOn
  <2> QED
    BY <1>2, <2>1, <2>6, RunKeeps
<1>5. CASE /\ file' = me.state /\ rev' = rev + 1
           /\ crossed' = (crossed \/ rev # me.rev)
           /\ ended' = ended \cup me.ends
           /\ Set(p, [Idle EXCEPT !.pc = "log", !.events = me.events])
  <2>1. PICK r : r = [Idle EXCEPT !.pc = "log", !.events = me.events]
    OBVIOUS
  <2>2. r = [pc |-> "log", state |-> {}, rev |-> 0, events |-> me.events, ends |-> {}, hidden |-> {},
             base |-> NoBase, old |-> {}, logRev |-> 0, dir |-> 0, stale |-> {}]
    BY <2>1 DEF Idle
  <2>3. r \in Runs
    BY <1>3, <2>2 DEF Runs, Pcs
  <2>4. RunInv(r)'
    <3>1. IsFiniteSet({})
      BY FS_EmptySet
    <3> QED
      BY <1>2, <1>3, <1>5, <2>2, <2>3, <3>1 DEF RunInv, Ids, IdsOf, Clear
  <2>5. run' = [run EXCEPT ![p] = r]
    BY <1>5, <2>1 DEF Set
  <2>6. crossed' \in BOOLEAN /\ (crossed => crossed') /\ starts' = starts /\ doomed' = doomed
    BY <1>2, <1>3, <1>5
  <2>7. RunsInv' /\ run' \in [Procs -> Runs]
    BY <1>2, <1>5, <2>4, <2>5, <2>6, RunsAtWrite
  <2>8. /\ IsFiniteSet(me.state) /\ Ids(me.state) \cup IdsOf(me.ends) \subseteq 0 .. starts
        /\ Ids(me.state) \cap IdsOf(me.ends) = {}
        /\ ~crossed /\ me.rev = rev => Clear(Ids(me.state))
        /\ \A e \in me.ends : Told(e, me.events)
    BY <1>3 DEF RunInv
  <2>9. IdsOf(ended') = IdsOf(ended) \cup IdsOf(me.ends)
    BY <1>5 DEF IdsOf
  <2>10. FileInv'
    <3>1. Ids(file') \cup IdsOf(ended') \subseteq 0 .. starts'
      BY <1>2, <1>5, <2>8, <2>9 DEF LocalIInv, FileInv
    <3>2. ASSUME ~crossed' PROVE Ids(file') \cap IdsOf(ended') = {}
      BY <1>5, <2>8, <2>9, <3>2 DEF Clear
    <3> QED
      BY <3>1, <3>2 DEF FileInv, Clear, Ids, IdsOf
  <2>11. LogInv'
    <3> SUFFICES ASSUME ~crossed', NEW e \in ended', ~(now' > e.at + EventDays)
                 PROVE  Told(e, Heard)'
      BY DEF LogInv
    <3>1. Heard \subseteq Heard'
      <4>1. \A q \in Procs : run[q].pc \in {"log", "append"} => run'[q] = run[q]
        BY <1>1, <1>2, <1>3, <2>5
      <4> QED
        BY <1>2, <4>1 DEF Heard
    <3>2. me.events \subseteq Heard'
      <4>1. run'[p].pc = "log" /\ run'[p].events = me.events
        BY <1>3, <2>2, <2>5
      <4> QED
        BY <4>1 DEF Heard
    <3>3. CASE e \in ended
      <4>1. Told(e, Heard)
        BY <1>2, <1>5, <3>3 DEF LocalIInv, LogInv
      <4> QED
        BY <3>1, <4>1 DEF Told
    <3>4. CASE e \in me.ends
      BY <2>8, <3>2, <3>4 DEF Told
    <3> QED
      BY <1>5, <3>3, <3>4
  <2>12. file' \in States /\ rev' \in Nat /\ ended' \in SUBSET Endeds /\ log' \in SUBSET Notes /\ logRev' \in Nat
    BY <1>2, <1>3, <1>5, <2>8 DEF States, Runs, LocalIInv, Typed
  <2>13. UNCHANGED <<cfg, now, pack, starts, trouble, dirs, made, doomed>>
    BY <1>2
  <2> QED
    BY <2>6, <2>7, <2>10, <2>11, <2>12, <2>13, WriteKeeps
<1> QED
  BY <1>2, <1>4, <1>5

LEMMA ReadLogInv == ASSUME LocalIInv, NEW p \in Procs, ReadLog(p) PROVE LocalIInv'
<1>1. PICK c \in BOOLEAN :
        /\ Costs(c) /\ crossed' = (crossed \/ c)
        /\ Set(p, [run[p] EXCEPT !.pc = "append", !.old = IF c THEN {} ELSE log, !.logRev = logRev])
  BY DEF ReadLog
<1>2. /\ run[p].pc = "log" /\ UNCHANGED <<cfg, now, pack, starts, files, ended, made, doomed>>
  BY DEF ReadLog
<1>3. Quiet(c) /\ dirs' = dirs
  BY <1>1, <1>2 DEF Quiet, files
<1>4. PICK me : me = run[p]
  OBVIOUS
<1>5. /\ run \in [Procs -> Runs] /\ me \in Runs /\ RunInv(me) /\ now \in Nat /\ logRev \in Nat
      /\ log \in SUBSET Notes
  BY <1>4 DEF LocalIInv, Typed, RunsInv
<1>6. PICK old \in SUBSET Notes : old = (IF c THEN {} ELSE log)
  BY <1>5
<1>7. PICK r : r = [me EXCEPT !.pc = "append", !.old = old, !.logRev = logRev]
  OBVIOUS
<1>8. /\ r.pc = "append" /\ r.state = me.state /\ r.rev = me.rev /\ r.events = me.events /\ r.ends = me.ends
      /\ r.hidden = me.hidden /\ r.base = me.base /\ r.old = old /\ r.logRev = logRev /\ r.stale = me.stale
  BY <1>5, <1>7 DEF Runs
<1>9. r \in Runs
  BY <1>5, <1>7 DEF Runs, Pcs
<1>10. RunInv(me)'
  BY <1>2, <1>3, <1>5, RunStays
<1>11. RunInv(r)'
  <2>1. ~crossed' => r.old = log'
    BY <1>1, <1>3, <1>6, <1>8 DEF Quiet
  <2>2. r.logRev <= logRev'
    BY <1>3, <1>5, <1>8 DEF Quiet
  <2> QED
    BY <1>8, <1>9, <1>10, <2>1, <2>2 DEF RunInv
<1>12. run' = [run EXCEPT ![p] = r]
  BY <1>1, <1>4, <1>6, <1>7 DEF Set
<1>13. RunsInv' /\ run' \in [Procs -> Runs]
  BY <1>2, <1>3, <1>11, <1>12, OneRun
<1>14. LogInv'
  <2>1. \A q \in Procs : run[q].pc \in {"log", "append"} =>
           run'[q].pc \in {"log", "append"} /\ run'[q].events = run[q].events
    BY <1>4, <1>5, <1>8, <1>12
  <2>2. now' \in Nat /\ now' >= now
    BY <1>2, <1>5
  <2> QED
    BY <1>3, <2>1, <2>2, LogStays
<1>15. Typed'
  <2>1. trouble' \in Nat
    BY <1>1 DEF Costs, LocalIInv, Typed
  <2>2. dirs' = dirs /\ made' = made /\ doomed' = doomed
    BY <1>2, <1>3
  <2> QED
    BY <1>2, <1>3, <1>13, <2>1, <2>2, FilesStay, ArchiveStays DEF LocalIInv, Typed
<1> QED
  BY <1>2, <1>3, <1>13, <1>14, <1>15, FilesStay, ArchiveStays DEF LocalIInv

LEMMA WriteLogInv == ASSUME LocalIInv, NEW p \in Procs, WriteLog(p) PROVE LocalIInv'
<1>1. PICK me : me = run[p]
  OBVIOUS
<1>2. /\ me.pc = "append"
      /\ log' = {e \in me.old \cup me.events : e.at + EventDays >= now} /\ logRev' = logRev + 1
      /\ crossed' = (crossed \/ logRev # me.logRev)
      /\ run' = [run EXCEPT ![p] = Idle]
      /\ UNCHANGED <<cfg, now, pack, starts, trouble, file, rev, dirs, ended, made, doomed>>
  BY <1>1 DEF WriteLog, Set
<1>3. /\ run \in [Procs -> Runs] /\ me \in Runs /\ RunInv(me) /\ now \in Nat /\ logRev \in Nat
      /\ crossed \in BOOLEAN
  BY <1>1 DEF LocalIInv, Typed, RunsInv
<1>4. crossed' \in BOOLEAN /\ (crossed => crossed') /\ starts' = starts /\ doomed' = doomed
  BY <1>2, <1>3
<1>5. PICK r : r = Idle
  OBVIOUS
<1>6. RunInv(r)'
  <2>1. RunInv(r)
    BY <1>5, IdleInv
  <2> QED
    BY <1>2, <1>4, <2>1, OthersAtWrite
<1>7. RunsInv' /\ run' \in [Procs -> Runs]
  <2>1. run' = [run EXCEPT ![p] = r]
    BY <1>2, <1>5
  <2> QED
    BY <1>2, <1>4, <1>6, <2>1, RunsAtWrite
<1>8. FileInv'
  BY <1>2, <1>4 DEF LocalIInv, FileInv, Clear, Ids, IdsOf
<1>9. me.old \subseteq Notes /\ me.events \subseteq Notes
  BY <1>3 DEF Runs
<1>10. LogInv'
  <2> SUFFICES ASSUME ~crossed', NEW e \in ended', ~(now' > e.at + EventDays)
               PROVE  Told(e, Heard)'
    BY DEF LogInv
  <2>1. me.old = log
    BY <1>2, <1>3 DEF RunInv
  <2>2. e \in Endeds /\ e \in ended /\ EventDays \in Nat
    BY <1>2, TimesAssumption DEF LocalIInv, Typed
  <2>3. e.at + EventDays >= now
    BY <1>2, <1>3, <2>2 DEF Endeds
  <2>4. Told(e, Heard)
    BY <1>2, <2>2 DEF LocalIInv, LogInv
  <2>5. PICK l \in Heard : l.id = e.id /\ l.at = e.at /\ l.kind \in Endings
    BY <2>4 DEF Told
  <2>6. l \in Heard'
    <3>1. CASE l \in log \cup me.events
      <4>1. l \in log'
        BY <1>2, <2>1, <2>3, <2>5, <3>1
      <4> QED
        BY <4>1 DEF Heard
    <3>2. CASE l \notin log \cup me.events
      <4>1. PICK q \in Procs : run[q].pc \in {"log", "append"} /\ l \in run[q].events
        BY <2>5, <3>2 DEF Heard
      <4>2. q # p
        BY <1>1, <3>2, <4>1
      <4>3. run'[q] = run[q]
        BY <1>2, <1>3, <4>2
      <4> QED
        BY <4>1, <4>3 DEF Heard
    <3> QED
      BY <3>1, <3>2
  <2> QED
    BY <2>5, <2>6 DEF Told
<1>11. /\ file' \in States /\ rev' \in Nat /\ log' \in SUBSET Notes /\ logRev' \in Nat
       /\ ended' \in SUBSET Endeds
  BY <1>2, <1>3, <1>9 DEF LocalIInv, Typed
<1>12. UNCHANGED <<cfg, now, pack, starts, trouble, dirs, made, doomed>>
  BY <1>2
<1> QED
  BY <1>4, <1>7, <1>8, <1>10, <1>11, <1>12, WriteKeeps

-----------------------------------------------------------------------------
(* The environment, and every step. *)

LEMMA CrashInv == ASSUME LocalIInv, NEW p \in Procs, Crash(p) PROVE LocalIInv'
<1>1. PICK c \in BOOLEAN : c = (run[p].pc \in {"log", "append"})
  <2>1. (run[p].pc \in {"log", "append"}) \in BOOLEAN
    OBVIOUS
  <2> QED
    BY <2>1, Zenon
<1>2. /\ Costs(TRUE) /\ run' = [run EXCEPT ![p] = Idle] /\ crossed' = (crossed \/ c)
      /\ UNCHANGED <<cfg, now, pack, starts, files, ended, made, doomed>>
  BY <1>1 DEF Crash, Set
<1>3. Quiet(c) /\ dirs' = dirs /\ made' = made /\ doomed' = doomed
  BY <1>2 DEF Quiet, files
<1>4. run \in [Procs -> Runs] /\ now \in Nat
  BY DEF LocalIInv, Typed
<1>5. PICK r : r = Idle
  OBVIOUS
<1>6. RunInv(r)'
  BY <1>3, <1>5, IdleInv, RunStays
<1>7. RunsInv' /\ run' \in [Procs -> Runs]
  <2>1. run' = [run EXCEPT ![p] = r]
    BY <1>2, <1>5
  <2> QED
    BY <1>3, <1>6, <2>1, OneRun
<1>8. LogInv'
  <2>1. c \/ \A q \in Procs : run[q].pc \in {"log", "append"} =>
                run'[q].pc \in {"log", "append"} /\ run'[q].events = run[q].events
    BY <1>1, <1>2, <1>4
  <2>2. now' \in Nat /\ now' >= now
    BY <1>2, <1>4
  <2> QED
    BY <1>3, <2>1, <2>2, LogStays
<1>9. Typed'
  <2>1. trouble' \in Nat
    BY <1>2 DEF Costs, LocalIInv, Typed
  <2> QED
    BY <1>2, <1>3, <1>7, <2>1, FilesStay, ArchiveStays DEF LocalIInv, Typed
<1> QED
  BY <1>3, <1>7, <1>8, <1>9, FilesStay, ArchiveStays DEF LocalIInv

\* The clock goes on, the code changes, or nothing does.
LEMMA ElsewhereInv ==
    ASSUME LocalIInv, UNCHANGED <<cfg, starts, trouble, files, run, ended, crossed, made, doomed>>,
           now' \in {now, now + 1}, pack' \in [Findings -> Nat]
    PROVE  LocalIInv'
<1>1. Quiet(FALSE) /\ dirs' = dirs /\ made' = made /\ doomed' = doomed /\ run' = run
  BY DEF Quiet, files, LocalIInv, Typed
<1>2. now' \in Nat /\ now' >= now
  BY DEF LocalIInv, Typed
<1>3. RunsInv' /\ run' \in [Procs -> Runs]
  BY <1>1, NoRun
<1>4. LogInv'
  BY <1>1, <1>2, LogStays
<1>5. Typed'
  BY <1>1, <1>2, <1>3, FilesStay, ArchiveStays DEF LocalIInv, Typed
<1> QED
  BY <1>1, <1>3, <1>4, <1>5, FilesStay, ArchiveStays DEF LocalIInv

LEMMA LocalInitInv == LocalInit => LocalIInv
<1> SUFFICES ASSUME LocalInit PROVE LocalIInv
  OBVIOUS
<1>1. IsFiniteSet({})
  BY FS_EmptySet
<1>2. Idle \in Runs
  BY DEF Idle, Runs, Pcs
<1>3. Typed
  <2>1. dirs \in [DOMAIN dirs -> [parts : Nat, manifest : BOOLEAN]]
    BY DEF LocalInit
  <2>2. cfg \in [triage : BOOLEAN, archive : BOOLEAN]
    BY ConfigsAssumption DEF LocalInit
  <2> QED
    BY <1>1, <1>2, <2>1, <2>2 DEF LocalInit, Typed, States
<1>4. FileInv /\ LogInv
  BY DEF LocalInit, FileInv, LogInv, Clear, Ids, IdsOf
<1>5. ArchiveInv
  BY DEF LocalInit, ArchiveInv
<1>6. ASSUME NEW p \in Procs PROVE RunInv(run[p])
  <2>1. run[p] = Idle /\ rev = 0 /\ logRev = 0
    BY DEF LocalInit
  <2> QED
    BY <1>1, <1>2, <2>1 DEF Idle, RunInv, Ids, IdsOf, Clear
<1> QED
  BY <1>3, <1>4, <1>5, <1>6 DEF LocalIInv, RunsInv

LEMMA LocalStepInv == LocalIInv /\ [LocalNext]_localVars => LocalIInv'
<1> SUFFICES ASSUME LocalIInv, [LocalNext]_localVars PROVE LocalIInv'
  OBVIOUS
<1>1. CASE Tick
  BY <1>1, ElsewhereInv DEF Tick, LocalIInv, Typed
<1>2. ASSUME NEW f \in Findings, Edit(f) PROVE LocalIInv'
  <2>1. pack' \in [Findings -> Nat]
    BY <1>2 DEF Edit, LocalIInv, Typed
  <2> QED
    BY <1>2, <2>1, ElsewhereInv DEF Edit
<1>3. CASE UNCHANGED localVars
  BY <1>3, ElsewhereInv DEF localVars, LocalIInv, Typed
<1>4. ASSUME NEW p \in Procs, NEW f \in Findings, NEW base \in Bases \cup {NoBase}, NEW until \in Expiries,
             Suppress(p, f, base, until)
      PROVE  LocalIInv'
  BY <1>4, SuppressInv
<1>5. ASSUME NEW p \in Procs, NEW F \in SUBSET Findings, NEW base \in Bases, Decide(p, F, base) PROVE LocalIInv'
  BY <1>5, DecideInv
<1>6. ASSUME NEW p \in Procs, NEW F \in SUBSET Findings, Carry(p, F) PROVE LocalIInv'
  BY <1>6, CarryInv
<1>7. ASSUME NEW p \in Procs,
             \/ \E selector \in Findings \cup (1 .. MaxStarts) : Unsuppress(p, selector)
             \/ \E listing \in BOOLEAN : Prune(p, listing)
             \/ MakeDir(p) \/ WriteFile(p) \/ ListStale(p) \/ RemoveEntry(p) \/ Archived(p)
             \/ SaveState(p) \/ ReadLog(p) \/ WriteLog(p) \/ Crash(p)
      PROVE  LocalIInv'
  BY <1>7, UnsuppressInv, PruneInv, MakeDirInv, WriteFileInv, ListStaleInv, RemoveEntryInv, ArchivedInv,
     SaveStateInv, ReadLogInv, WriteLogInv, CrashInv
<1> QED
  BY <1>1, <1>2, <1>3, <1>4, <1>5, <1>6, <1>7 DEF LocalNext

LEMMA LocalInvariant == LocalSpec => []LocalIInv
BY LocalInitInv, LocalStepInv, PTL DEF LocalSpec

-----------------------------------------------------------------------------
(* The theorems. *)

\* Whatever the commands and the gate runs do, and however they overlap, the
\* files and what a run holds have their types (TriageState, TriageEvent).
THEOREM LocalTypeCorrect == LocalSpec => []Typed
<1>1. LocalIInv => Typed
  BY DEF LocalIInv
<1> QED
  BY <1>1, LocalInvariant, PTL

\* What a gate run passes over, a suppression of this finding, base and context
\* pack was in force for, and none that had ended before the run loaded the
\* state, unless a file was replaced unread (apply_suppressions,
\* remove_suppressions).
THEOREM HiddenIsAgreed == LocalSpec => []HiddenByAgreement
<1>1. LocalIInv => HiddenByAgreement
  <2> SUFFICES ASSUME LocalIInv, NEW p \in Procs, NEW h \in run[p].hidden
               PROVE  LET c == h[1] s == h[2] IN
                      /\ s.finding = c.finding /\ s.until > h[3]
                      /\ s.pack = 0 \/ c.pack = 0 \/ s.pack = c.pack
                      /\ s.base = NoBase \/ run[p].base = NoBase \/ s.base = run[p].base
                      /\ crossed \/ rev # run[p].rev \/ s.id \notin {e.id : e \in ended}
    BY DEF HiddenByAgreement
  <2>1. RunInv(run[p])
    BY DEF LocalIInv, RunsInv
  <2>2. Hides(h, h[3], run[p].base)
    BY <2>1 DEF RunInv
  <2>3. crossed \/ rev # run[p].rev \/ h[2].id \notin {e.id : e \in ended}
    BY <2>1 DEF RunInv, IdsOf
  <2> QED
    BY <2>2, <2>3 DEF Hides
<1> QED
  BY <1>1, LocalInvariant, PTL

\* Every suppression that left the file is in the log, or about to be, for as
\* long as events are kept, unless files were replaced unread or a run died
\* between the two writes (append_triage_events).
THEOREM EndsAreLogged == LocalSpec => []EveryEndIsLogged
<1>1. LocalIInv => EveryEndIsLogged
  BY DEF LocalIInv, LogInv, EveryEndIsLogged, Told, Heard, Endings
<1> QED
  BY <1>1, LocalInvariant, PTL

\* However many runs archive and prune at once, none chooses one of the newest
\* directories for removal, and one that was not chosen and has its manifest
\* has all its files (_prune_archives, archive_report_artifacts).
THEOREM ArchivesAreKept == LocalSpec => []ArchivesKept
<1>1. LocalIInv => ArchivesKept
  BY DEF LocalIInv, ArchiveInv, ArchivesKept
<1> QED
  BY <1>1, LocalInvariant, PTL

-----------------------------------------------------------------------------
(* One call of a provider. *)

-----------------------------------------------------------------------------
(* The inductive invariant. *)

\* What one call has done so far, in each phase.
Progress ==
    /\ phase = "new" => attempt = 0 /\ waited = 0
    /\ phase = "built" => attempt <= MaxRetries /\ waited <= attempt * RetryMax
    /\ phase \in {"sent", "failed"} =>
         attempt > 0 /\ attempt - 1 <= MaxRetries /\ waited <= (attempt - 1) * RetryMax
    /\ phase = "failed" => attempt <= MaxRetries
    /\ phase = "done" => attempt <= MaxRetries + 1 /\ waited <= MaxRetries * RetryMax

\* A provider of an API is built before anything is asked; an attempt that
\* failed keeps its answer and what was made of it.
Attempts ==
    /\ phase \in {"built", "sent", "failed"} => ~IsCli
    /\ phase \in {"new", "built", "sent"} => answer = None
    /\ phase = "failed" =>
         answer \in Answers(setup) /\ error = ErrorOf(answer) /\ error # None /\ error.retryable

IInv == TypeOK /\ Progress /\ Attempts /\ EveryFindingDecided /\ FaithfulStatus

-----------------------------------------------------------------------------
(* The tables. *)

Categories == Statuses \union {None}

\* What a failure of an API call is made of.
IsError(e) == /\ e.category \in Categories /\ e.retryable \in BOOLEAN
              /\ e.retryAfter \in Nat \union {None} /\ e.words = {}

LEMMA FailureIsError == ASSUME NEW k \in Categories PROVE IsError(Failure(k)) /\ Failure(k).category = k /\ ~Failure(k).retryable
BY DEF IsError, Failure, Error

LEMMA TransientIsError == ASSUME NEW k \in Categories PROVE IsError(Transient(k)) /\ Transient(k).category = k
BY DEF IsError, Transient, Error

\* The status of a failure is its category, or "provider".
LEMMA StatusOfError ==
    ASSUME NEW e, IsError(e)
    PROVE  StatusOf(e) = (IF e.category = None THEN "provider" ELSE e.category) /\ StatusOf(e) \in Statuses
BY NoneAssumption DEF IsError, StatusOf, Categories, Statuses

\* What the classification of an answer with an error says is in the answer.
Faithful(e, a) ==
    LET said == a.code \union a.message
    IN /\ IsError(e)
       /\ e.category = "quota" => said \intersect {"terminal", "quota"} # {}
       /\ e.category = "auth" => a.status \in {401, 403} \/ "auth" \in said
       /\ e.retryable => ~Incurable(a)

LEMMA ClassifiedFaithful ==
    ASSUME NEW s \in Setups, NEW a \in Answers(s), a.status # 0
    PROVE  Faithful(Classified(a), a)
<1> DEFINE said == a.code \union a.message
           As(category, retryable) == Error(category, retryable, a.retryAfter, {})
<1>1. a.status \in Nat /\ a.exact \in BOOLEAN /\ a.retryAfter \in Nat \union {None}
  BY AnswersAssumption
<1>2. \A k \in Categories, b \in BOOLEAN :
        IsError(As(k, b)) /\ As(k, b).category = k /\ As(k, b).retryable = b
  BY <1>1 DEF IsError, Error
<1>3. {"auth", "quota", "rate_limit", "timeout", "provider"} \subseteq Categories
  BY DEF Categories, Statuses
<1>4. Classified(a) =
       IF a.status >= 500
       THEN IF a.exact /\ "auth" \in said THEN As("auth", FALSE)
            ELSE IF a.exact /\ "terminal" \in said THEN As("quota", FALSE)
            ELSE IF "rate" \in a.code THEN As("rate_limit", TRUE)
            ELSE As(IF a.status \in {504, 524} THEN "timeout" ELSE "provider", TRUE)
       ELSE IF a.status = 401 THEN As("auth", FALSE)
       ELSE IF a.status = 403
       THEN IF "terminal" \in a.code THEN As("quota", FALSE)
            ELSE IF "rate" \in a.code THEN As("rate_limit", TRUE)
            ELSE As(IF "quota" \in a.code THEN "quota" ELSE "auth", FALSE)
       ELSE IF a.status = 429
       THEN IF "terminal" \in a.code THEN As("quota", FALSE) ELSE As("rate_limit", TRUE)
       ELSE IF "auth" \in said THEN As("auth", FALSE)
       ELSE IF said \intersect {"terminal", "quota"} # {} THEN As("quota", FALSE)
       ELSE IF "rate" \in said THEN As("rate_limit", TRUE)
       ELSE IF a.status = 408 THEN As("timeout", TRUE)
       ELSE IF a.status \in {409, 425} THEN As("provider", TRUE)
       ELSE As("provider", FALSE)
  BY DEF Classified
<1>5. Incurable(a) =>
        /\ a.status >= 500 => a.exact /\ "terminal" \in said
        /\ a.status < 500 => \/ a.status = 401 \/ "terminal" \in a.code
                             \/ a.status \notin {408, 409, 425, 429} /\ "rate" \notin said
  BY <1>1 DEF Incurable
<1>6. ASSUME NEW k \in Categories, NEW b \in BOOLEAN, Classified(a) = As(k, b),
             k = "quota" => said \intersect {"terminal", "quota"} # {},
             k = "auth" => a.status \in {401, 403} \/ "auth" \in said,
             b => ~Incurable(a)
      PROVE  Faithful(Classified(a), a)
  <2> HIDE DEF As
  <2> QED
    BY <1>2, <1>6 DEF Faithful
<1>7. /\ \A x : x \in said <=> x \in a.code \/ x \in a.message
      /\ said \intersect {"terminal", "quota"} # {} <=> "terminal" \in said \/ "quota" \in said
  OBVIOUS
<1> HIDE DEF As, said
<1>8. a.status >= 500 => Classified(a) =
            IF a.exact /\ "auth" \in said THEN As("auth", FALSE)
            ELSE IF a.exact /\ "terminal" \in said THEN As("quota", FALSE)
            ELSE IF "rate" \in a.code THEN As("rate_limit", TRUE)
            ELSE As(IF a.status \in {504, 524} THEN "timeout" ELSE "provider", TRUE)
  BY <1>1, <1>4, ZenonT(60)
<1>9. /\ a.status = 401 => ~(a.status >= 500)
      /\ a.status = 403 => ~(a.status >= 500) /\ a.status # 401
      /\ a.status = 429 => ~(a.status >= 500) /\ a.status # 401 /\ a.status # 403
      /\ a.status < 500 => ~(a.status >= 500)
  BY <1>1
<1>10. /\ a.status = 401 => Classified(a) = As("auth", FALSE)
       /\ a.status = 403 => Classified(a) =
            IF "terminal" \in a.code THEN As("quota", FALSE)
            ELSE IF "rate" \in a.code THEN As("rate_limit", TRUE)
            ELSE As(IF "quota" \in a.code THEN "quota" ELSE "auth", FALSE)
       /\ a.status = 429 => Classified(a) =
            IF "terminal" \in a.code THEN As("quota", FALSE) ELSE As("rate_limit", TRUE)
  BY <1>4, <1>9, ZenonT(40)
<1>11. a.status < 500 /\ a.status \notin {401, 403, 429} => Classified(a) =
            IF "auth" \in said THEN As("auth", FALSE)
            ELSE IF said \intersect {"terminal", "quota"} # {} THEN As("quota", FALSE)
            ELSE IF "rate" \in said THEN As("rate_limit", TRUE)
            ELSE IF a.status = 408 THEN As("timeout", TRUE)
            ELSE IF a.status \in {409, 425} THEN As("provider", TRUE)
            ELSE As("provider", FALSE)
  BY <1>4, <1>9, ZenonT(40)
<1>12. Faithful(Classified(a), a)
  <2>1. CASE a.status >= 500 /\ a.exact /\ "auth" \in said
    <3>1. Classified(a) = As("auth", FALSE)
      BY <1>8, <2>1
    <3>3. a.status \in {401, 403} \/ "auth" \in said
      BY <2>1
    <3> QED
      BY <1>3, <1>6, <3>1, <3>3
  <2>2. CASE a.status >= 500 /\ ~(a.exact /\ "auth" \in said) /\ a.exact /\ "terminal" \in said
    <3>1. Classified(a) = As("quota", FALSE)
      BY <1>8, <2>2
    <3>3. said \intersect {"terminal", "quota"} # {}
      BY <1>7, <2>2
    <3> QED
      BY <1>3, <1>6, <3>1, <3>3
  <2>3. CASE a.status >= 500 /\ ~(a.exact /\ "auth" \in said) /\ ~(a.exact /\ "terminal" \in said) /\ "rate" \in a.code
    <3>1. Classified(a) = As("rate_limit", TRUE)
      BY <1>8, <2>3
    <3>2. ~Incurable(a)
      BY <1>1, <1>5, <1>7, <2>3
    <3> QED
      BY <1>3, <1>6, <3>1, <3>2
  <2>4. CASE /\ a.status >= 500 /\ ~(a.exact /\ "auth" \in said) /\ ~(a.exact /\ "terminal" \in said)
              /\ "rate" \notin a.code /\ a.status \in {504, 524}
    <3>1. Classified(a) = As("timeout", TRUE)
      BY <1>8, <2>4
    <3>2. ~Incurable(a)
      BY <1>1, <1>5, <1>7, <2>4
    <3> QED
      BY <1>3, <1>6, <3>1, <3>2
  <2>5. CASE /\ a.status >= 500 /\ ~(a.exact /\ "auth" \in said) /\ ~(a.exact /\ "terminal" \in said)
              /\ "rate" \notin a.code /\ a.status \notin {504, 524}
    <3>1. Classified(a) = As("provider", TRUE)
      BY <1>8, <2>5
    <3>2. ~Incurable(a)
      BY <1>1, <1>5, <1>7, <2>5
    <3> QED
      BY <1>3, <1>6, <3>1, <3>2
  <2>6. CASE a.status = 401
    <3>1. Classified(a) = As("auth", FALSE)
      BY <1>10, <2>6
    <3>3. a.status \in {401, 403} \/ "auth" \in said
      BY <2>6
    <3> QED
      BY <1>3, <1>6, <3>1, <3>3
  <2>7. CASE a.status = 403 /\ "terminal" \in a.code
    <3>1. Classified(a) = As("quota", FALSE)
      BY <1>10, <2>7
    <3>3. said \intersect {"terminal", "quota"} # {}
      BY <1>7, <2>7
    <3> QED
      BY <1>3, <1>6, <3>1, <3>3
  <2>8. CASE a.status = 403 /\ "terminal" \notin a.code /\ "rate" \in a.code
    <3>1. Classified(a) = As("rate_limit", TRUE)
      BY <1>10, <2>8
    <3>2. ~Incurable(a)
      BY <1>1, <1>5, <1>7, <2>8
    <3> QED
      BY <1>3, <1>6, <3>1, <3>2
  <2>9. CASE a.status = 403 /\ "terminal" \notin a.code /\ "rate" \notin a.code /\ "quota" \in a.code
    <3>1. Classified(a) = As("quota", FALSE)
      BY <1>10, <2>9
    <3>3. said \intersect {"terminal", "quota"} # {}
      BY <1>7, <2>9
    <3> QED
      BY <1>3, <1>6, <3>1, <3>3
  <2>10. CASE a.status = 403 /\ "terminal" \notin a.code /\ "rate" \notin a.code /\ "quota" \notin a.code
    <3>1. Classified(a) = As("auth", FALSE)
      BY <1>10, <2>10
    <3>3. a.status \in {401, 403} \/ "auth" \in said
      BY <2>10
    <3> QED
      BY <1>3, <1>6, <3>1, <3>3
  <2>11. CASE a.status = 429 /\ "terminal" \in a.code
    <3>1. Classified(a) = As("quota", FALSE)
      BY <1>10, <2>11
    <3>3. said \intersect {"terminal", "quota"} # {}
      BY <1>7, <2>11
    <3> QED
      BY <1>3, <1>6, <3>1, <3>3
  <2>12. CASE a.status = 429 /\ "terminal" \notin a.code
    <3>1. Classified(a) = As("rate_limit", TRUE)
      BY <1>10, <2>12
    <3>2. ~Incurable(a)
      BY <1>1, <1>5, <1>7, <2>12
    <3> QED
      BY <1>3, <1>6, <3>1, <3>2
  <2>13. CASE a.status < 500 /\ a.status \notin {401, 403, 429} /\ "auth" \in said
    <3>1. Classified(a) = As("auth", FALSE)
      BY <1>7, <1>11, <2>13
    <3>3. a.status \in {401, 403} \/ "auth" \in said
      BY <2>13
    <3> QED
      BY <1>3, <1>6, <3>1, <3>3
  <2>14. CASE a.status < 500 /\ a.status \notin {401, 403, 429} /\ "auth" \notin said /\ said \intersect {"terminal", "quota"} # {}
    <3>1. Classified(a) = As("quota", FALSE)
      BY <1>7, <1>11, <2>14
    <3>3. said \intersect {"terminal", "quota"} # {}
      BY <1>7, <2>14
    <3> QED
      BY <1>3, <1>6, <3>1, <3>3
  <2>15. CASE /\ a.status < 500 /\ a.status \notin {401, 403, 429} /\ "auth" \notin said
              /\ said \intersect {"terminal", "quota"} = {} /\ "rate" \in said
    <3>1. Classified(a) = As("rate_limit", TRUE)
      BY <1>7, <1>11, <2>15
    <3>2. ~Incurable(a)
      BY <1>1, <1>5, <1>7, <2>15
    <3> QED
      BY <1>3, <1>6, <3>1, <3>2
  <2>16. CASE /\ a.status < 500 /\ a.status \notin {401, 403, 429} /\ "auth" \notin said
              /\ said \intersect {"terminal", "quota"} = {} /\ "rate" \notin said /\ a.status = 408
    <3>1. Classified(a) = As("timeout", TRUE)
      BY <1>7, <1>11, <2>16
    <3>2. ~Incurable(a)
      BY <1>1, <1>5, <1>7, <2>16
    <3> QED
      BY <1>3, <1>6, <3>1, <3>2
  <2>17. CASE /\ a.status < 500 /\ a.status \notin {401, 403, 429} /\ "auth" \notin said
              /\ said \intersect {"terminal", "quota"} = {} /\ "rate" \notin said /\ a.status \in {409, 425}
    <3>0. a.status # 408 /\ a.status \in {409, 425}
      BY <2>17
    <3>1. Classified(a) = As("provider", TRUE)
      BY <1>7, <1>11, <2>17, <3>0, ZenonT(40)
    <3>2. ~Incurable(a)
      BY <1>1, <1>5, <1>7, <2>17
    <3> QED
      BY <1>3, <1>6, <3>1, <3>2
  <2>18. CASE /\ a.status < 500 /\ a.status \notin {401, 403, 429} /\ "auth" \notin said
              /\ said \intersect {"terminal", "quota"} = {} /\ "rate" \notin said /\ a.status \notin {408, 409, 425}
    <3>1. Classified(a) = As("provider", FALSE)
      BY <1>7, <1>11, <2>18, ZenonT(60)
    <3> QED
      BY <1>3, <1>6, <3>1
  <2> QED
    BY <1>1, <2>1, <2>2, <2>3, <2>4, <2>5, <2>6, <2>7, <2>8, <2>9, <2>10, <2>11, <2>12, <2>13, <2>14, <2>15, <2>16, <2>17, <2>18
<1> QED
  BY <1>12

LEMMA AnswerFacts ==
    ASSUME NEW s \in Setups, NEW a \in Answers(s)
    PROVE  /\ a # None /\ a.status \in Nat
           /\ a.body # "error" => a.code = {} /\ a.message = {}
           /\ a.status = 0 => a.body # "error"
BY AnswersAssumption, NoneAssumption

LEMMA TransportFaithful ==
    ASSUME NEW s \in Setups, NEW a \in Answers(s), a.status = 0
    PROVE  Faithful(TransportError(a), a)
<1>1. /\ IsError(Transient("timeout")) /\ Transient("timeout").category = "timeout"
      /\ IsError(Transient("provider")) /\ Transient("provider").category = "provider"
      /\ IsError(Failure("malformed")) /\ Failure("malformed").category = "malformed"
      /\ ~Failure("malformed").retryable
  BY FailureIsError, TransientIsError DEF Categories, Statuses
<1>2. a.code = {} /\ a.status # 401
  BY AnswerFacts
<1>3. a.body \in {"late", "network"} => ~Incurable(a)
  BY <1>2 DEF Incurable
<1>4. CASE a.body = "late"
  <2>1. TransportError(a) = Transient("timeout")
    BY <1>4 DEF TransportError
  <2> QED
    BY <1>1, <1>3, <1>4, <2>1 DEF Faithful
<1>5. CASE a.body = "network"
  <2>1. TransportError(a) = Transient("provider")
    BY <1>5 DEF TransportError
  <2> QED
    BY <1>1, <1>3, <1>5, <2>1 DEF Faithful
<1>6. CASE a.body \notin {"late", "network"}
  <2>1. TransportError(a) = Failure("malformed")
    BY <1>6 DEF TransportError
  <2> QED
    BY <1>1, <2>1 DEF Faithful
<1> QED
  BY <1>4, <1>5, <1>6

LEMMA TextFaithful ==
    ASSUME NEW s \in Setups, NEW a \in Answers(s), Success(a), TextError(a) # None
    PROVE  Faithful(TextError(a), a)
<1>1. \A k \in {"refusal", "truncated", "malformed", None} :
        IsError(Failure(k)) /\ Failure(k).category = k /\ ~Failure(k).retryable
  BY FailureIsError DEF Categories, Statuses
<1>2. IsError(Transient("provider")) /\ Transient("provider").category = "provider"
  BY TransientIsError DEF Categories, Statuses
<1>3. a.body = "interrupted" => ~Incurable(a)
  <2>1. a.code = {} /\ a.status # 401 /\ a.status # 0
    BY AnswerFacts DEF Success
  <2> QED
    BY <2>1 DEF Incurable
<1>4. None \notin {"quota", "auth"}
  BY NoneAssumption DEF Statuses
<1>5. CASE a.body = "interrupted"
  <2>1. TextError(a) = Transient("provider")
    BY <1>5 DEF TextError
  <2> QED
    BY <1>2, <1>3, <1>5, <2>1 DEF Faithful
<1>6. CASE a.body # "interrupted"
  <2>1. PICK k \in {"refusal", "truncated", "malformed", None} : TextError(a) = Failure(k)
    BY <1>6 DEF TextError
  <2> QED
    BY <1>1, <1>4, <2>1 DEF Faithful
<1> QED
  BY <1>5, <1>6

\* Whatever an answer fails with says no more than the answer does.
LEMMA ErrorFaithful ==
    ASSUME NEW s \in Setups, NEW a \in Answers(s), ErrorOf(a) # None
    PROVE  Faithful(ErrorOf(a), a)
<1>1. CASE a.status = 0
  BY <1>1, TransportFaithful DEF ErrorOf, Success
<1>2. CASE Success(a)
  BY <1>2, TextFaithful DEF ErrorOf, Success
<1>3. CASE a.status # 0 /\ ~Success(a)
  BY <1>3, ClassifiedFaithful DEF ErrorOf, Success
<1> QED
  BY <1>1, <1>2, <1>3

LEMMA ConstructionFaithful ==
    ASSUME NEW s, ConstructionError(s) # None
    PROVE  /\ IsError(ConstructionError(s)) /\ ConstructionError(s).category # "quota"
           /\ ConstructionError(s).category = "auth" => Key(s.config, s.env) = "unset"
<1>1. \A k \in {"malformed", "auth", None} : IsError(Failure(k)) /\ Failure(k).category = k
  BY FailureIsError DEF Categories, Statuses
<1>2. None \notin {"quota", "auth"}
  BY NoneAssumption DEF Statuses
<1>3. \/ ConstructionError(s) = Failure(None) \/ ConstructionError(s) = Failure("malformed")
      \/ ConstructionError(s) = Failure("auth") /\ Key(s.config, s.env) = "unset"
  BY DEF ConstructionError
<1> QED
  BY <1>1, <1>2, <1>3

-----------------------------------------------------------------------------
(* Arithmetic. *)

LEMMA WaitGrows ==
    ASSUME NEW n \in Nat, NEW w \in Nat, NEW d \in 0 .. RetryMax, w <= n * RetryMax
    PROVE  w + d \in Nat /\ w + d <= (n + 1) * RetryMax
<1>1. RetryMax \in Nat
  BY DelayAssumption
<1>2. (n + 1) * RetryMax = n * RetryMax + RetryMax
  BY <1>1
<1>3. n * RetryMax \in Nat
  BY <1>1
<1> QED
  BY <1>1, <1>2, <1>3

LEMMA WaitBound ==
    ASSUME NEW n \in Nat, n <= MaxRetries, NEW w \in Nat, w <= n * RetryMax
    PROVE  w <= MaxRetries * RetryMax
<1>1. RetryMax \in Nat /\ MaxRetries \in Nat
  BY DelayAssumption, RetriesAssumption
<1>2. PICK k \in Nat : MaxRetries = n + k
  <2>1. MaxRetries - n \in Nat /\ MaxRetries = n + (MaxRetries - n)
    BY <1>1
  <2> QED
    BY <2>1
<1>3. (n + k) * RetryMax = n * RetryMax + k * RetryMax
  BY <1>1
<1>4. k * RetryMax \in Nat /\ n * RetryMax \in Nat
  BY <1>1
<1> QED
  BY <1>1, <1>2, <1>3, <1>4

\* No wait is longer than the maximum, for any doubling and any Retry-After.
LEMMA DelaysBounded ==
    ASSUME NEW e, e.retryAfter \in Nat \union {None}, attempt \in Nat, attempt > 0
    PROVE  Delays(e) \subseteq 0 .. RetryMax
<1>1. RetryMax \in Nat /\ Backoff \in Nat
  BY DelayAssumption
<1>2. \A x \in Int : Least(x, RetryMax) \in Int /\ Least(x, RetryMax) <= RetryMax
  BY <1>1 DEF Least
<1>3. CASE e.retryAfter # None
  <2>1. e.retryAfter \in Nat
    BY <1>3
  <2>2. Least(e.retryAfter, RetryMax) \in 0 .. RetryMax
    BY <1>1, <2>1 DEF Least
  <2> QED
    BY <1>3, <2>2 DEF Delays
<1>4. CASE e.retryAfter = None
  <2>1. \A n \in Nat : 2 ^ n \in Int
    OBVIOUS
  <2>2. attempt - 1 \in Nat
    OBVIOUS
  <2>3. 2 ^ (attempt - 1) \in Int
    BY <2>1, <2>2
  <2>4. Backoff * 2 ^ (attempt - 1) \in Int
    BY <1>1, <2>3
  <2>5. PICK m : m = Least(Backoff * 2 ^ (attempt - 1), RetryMax)
    OBVIOUS
  <2>6. m \in Int /\ m <= RetryMax
    BY <1>2, <2>4, <2>5
  <2>7. Delays(e) = 0 .. m
    BY <1>4, <2>5 DEF Delays
  <2> QED
    BY <1>1, <2>6, <2>7
<1> QED
  BY <1>3, <1>4

-----------------------------------------------------------------------------
(* Parsing. *)

\* A verification that is accepted pairs each finding with one decision.
LEMMA DecidedOnce ==
    ASSUME NEW text \in Bodies, NEW n \in Nat, call.kind = "verify", ParseError(text, n) = None
    PROVE  /\ DOMAIN Decided(text, n) = Indexes(n)
           /\ \A i \in Indexes(n) : Cardinality(Decided(text, n)[i]) = 1
<1>1. Failure(None) # None /\ Error(None, FALSE, None, text.echo) # None
  <2>1. \A w \in {{}} \union {x.echo : x \in Bodies} : Error(None, FALSE, None, w) # None
    BY NoneAssumption DEF Error
  <2> QED
    BY <2>1 DEF Failure
<1>2. IsInjective(text.decisions) /\ Indexes(n) \subseteq Range(text.decisions)
  BY <1>1 DEF ParseError
<1>3. ASSUME NEW i \in Indexes(n) PROVE Cardinality(Decided(text, n)[i]) = 1
  <2>1. PICK d \in DOMAIN text.decisions : text.decisions[d] = i
    BY <1>2, <1>3 DEF Range
  <2>2. Decided(text, n)[i] = {x \in DOMAIN text.decisions : text.decisions[x] = i}
    BY <1>3 DEF Decided
  <2>3. {x \in DOMAIN text.decisions : text.decisions[x] = i} = {d}
    BY <1>2, <2>1 DEF IsInjective
  <2> QED
    BY <2>2, <2>3, FS_Singleton
<1> QED
  BY <1>3 DEF Decided

\* What a parser raises is no failure of an API.
LEMMA ParseErrorStatus ==
    ASSUME NEW text, NEW n
    PROVE  ParseError(text, n) # None => StatusOf(ParseError(text, n)) \in Statuses
<1>1. \A w : StatusOf(Error(None, FALSE, None, w)) \in Statuses
  BY DEF StatusOf, Error, Statuses
<1>2. ParseError(text, n) # None => \E w : ParseError(text, n) = Error(None, FALSE, None, w)
  BY DEF ParseError, Failure
<1> QED
  BY <1>1, <1>2

-----------------------------------------------------------------------------
(* The initial states. *)

LEMMA InitInv == Init => IInv
<1> SUFFICES ASSUME Init PROVE IInv
  OBVIOUS
<1>1. status # "ok" /\ phase = "new" /\ attempt = 0 /\ waited = 0 /\ answer = None
  BY NoneAssumption DEF Init
<1> QED
  BY <1>1 DEF Init, IInv, TypeOK, Progress, Attempts, EveryFindingDecided, FaithfulStatus

-----------------------------------------------------------------------------
(* Where a call ends.  Raise and Finish are the only ways out of it but for  *)
(* the verification of nothing.                                              *)

Kept == setup' = setup /\ call' = call

LEMMA RaiseEnds ==
    ASSUME IInv, Kept, NEW e, Raise(e), StatusOf(e) \in Statuses
    PROVE  phase' = "done" /\ status' = StatusOf(e) /\ status' # "ok" /\ EveryFindingDecided'
<1>1. phase' = "done" /\ status' = StatusOf(e)
  BY DEF Raise
<1>2. status' # "ok"
  BY <1>1 DEF Statuses
<1> QED
  BY <1>1, <1>2 DEF EveryFindingDecided

LEMMA FinishEnds ==
    ASSUME IInv, Kept, NEW text \in Bodies, Finish(text), ParseError(text, call.size) = None
    PROVE  phase' = "done" /\ status' = "ok" /\ EveryFindingDecided'
<1>1. phase' = "done" /\ status' = "ok"
  BY DEF Finish
<1>2. call.size \in Nat /\ call' = call
  BY CallsAssumption DEF IInv, TypeOK, Kept
<1>3. SUFFICES ASSUME call.kind = "verify", call.size > 0
                PROVE  /\ DOMAIN result' = Indexes(call.size)
                       /\ \A i \in DOMAIN result' : Cardinality(result'[i]) = 1
  BY <1>1, <1>2 DEF EveryFindingDecided
<1>4. result' = Decided(text, call.size)
  BY <1>3 DEF Finish
<1>5. /\ DOMAIN Decided(text, call.size) = Indexes(call.size)
      /\ \A i \in Indexes(call.size) : Cardinality(Decided(text, call.size)[i]) = 1
  BY <1>2, <1>3, DecidedOnce
<1> QED
  BY <1>4, <1>5

\* A step that goes on leaves the properties of the end as they are.
LEMMA GoesOn ==
    ASSUME phase' # "done", status' = None
    PROVE  EveryFindingDecided' /\ FaithfulStatus'
BY NoneAssumption DEF EveryFindingDecided, FaithfulStatus, Statuses

-----------------------------------------------------------------------------
(* The steps. *)

LEMMA AskNothingInv == ASSUME IInv, AskNothing PROVE IInv'
<1>1. /\ phase \in {"new", "built"} /\ phase' = "done" /\ status' = "ok" /\ ~Asks
      /\ setup' = setup /\ call' = call /\ attempt' = attempt /\ waited' = waited
  BY DEF AskNothing
<1>2. TypeOK'
  BY <1>1 DEF IInv, TypeOK
<1>3. Progress'
  <2>1. attempt \in Nat /\ waited \in Nat /\ attempt <= MaxRetries /\ waited <= attempt * RetryMax
    BY <1>1, RetriesAssumption, DelayAssumption DEF IInv, TypeOK, Progress
  <2>2. waited <= MaxRetries * RetryMax /\ attempt <= MaxRetries + 1
    BY <2>1, WaitBound, RetriesAssumption
  <2> QED
    BY <1>1, <2>2 DEF Progress
<1>4. Attempts'
  BY <1>1 DEF Attempts
<1>5. EveryFindingDecided'
  BY <1>1 DEF EveryFindingDecided, Asks
<1>6. FaithfulStatus'
  BY <1>1 DEF FaithfulStatus
<1> QED
  BY <1>2, <1>3, <1>4, <1>5, <1>6 DEF IInv

LEMMA BuildInv == ASSUME IInv, Build PROVE IInv'
<1>1. /\ phase = "new" /\ ~IsCli /\ Kept /\ attempt' = attempt /\ waited' = waited /\ answer' = answer
  BY DEF Build, Kept
<1>2. attempt = 0 /\ waited = 0 /\ answer = None /\ status = None
  BY <1>1 DEF IInv, Progress, Attempts, TypeOK
<1>3. 0 * RetryMax = 0 /\ MaxRetries \in Nat /\ RetryMax \in Nat /\ MaxRetries * RetryMax \in Nat
  BY DelayAssumption, RetriesAssumption
<1>4. CASE ConstructionError(setup) = None
  <2>1. phase' = "built" /\ status' = status
    BY <1>4 DEF Build
  <2>2. TypeOK'
    BY <1>1, <1>2, <2>1 DEF IInv, TypeOK, Kept
  <2>3. Progress'
    BY <1>1, <1>2, <1>3, <2>1 DEF Progress
  <2>4. Attempts'
    BY <1>1, <1>2, <2>1 DEF Attempts, IsCli, Kept
  <2> QED
    BY <1>2, <2>1, <2>2, <2>3, <2>4, GoesOn DEF IInv
<1>5. CASE ConstructionError(setup) # None
  <2> DEFINE e == ConstructionError(setup)
  <2>1. Raise(e)
    BY <1>5 DEF Build
  <2>2. /\ IsError(e) /\ e.category # "quota"
        /\ e.category = "auth" => Key(setup.config, setup.env) = "unset"
    BY <1>5, ConstructionFaithful
  <2> HIDE DEF e
  <2>3. /\ StatusOf(e) \in Statuses /\ StatusOf(e) # "quota"
        /\ StatusOf(e) = "auth" => Key(setup.config, setup.env) = "unset"
    BY <2>2, StatusOfError
  <2>4. phase' = "done" /\ status' = StatusOf(e) /\ EveryFindingDecided'
    BY <1>1, <2>1, <2>3, RaiseEnds
  <2>5. TypeOK'
    BY <1>1, <2>3, <2>4 DEF IInv, TypeOK, Kept
  <2>6. Progress'
    BY <1>1, <1>2, <1>3, <2>4 DEF Progress
  <2>7. Attempts'
    BY <2>4 DEF Attempts
  <2>8. FaithfulStatus'
    BY <1>1, <1>2, <2>3, <2>4 DEF FaithfulStatus, Kept
  <2> QED
    BY <2>4, <2>5, <2>6, <2>7, <2>8 DEF IInv
<1> QED
  BY <1>4, <1>5

LEMMA SendInv == ASSUME IInv, Send PROVE IInv'
<1>1. /\ phase = "built" /\ phase' = "sent" /\ attempt' = attempt + 1 /\ waited' = waited
      /\ setup' = setup /\ call' = call /\ answer' = answer /\ status' = status
  BY DEF Send
<1>2. attempt \in Nat /\ waited \in Nat /\ status = None /\ attempt + 1 - 1 = attempt /\ attempt + 1 > 0
  BY <1>1 DEF IInv, TypeOK
<1>3. TypeOK'
  BY <1>1, <1>2 DEF IInv, TypeOK
<1>4. attempt <= MaxRetries /\ waited <= attempt * RetryMax
  BY <1>1 DEF IInv, Progress
<1>5. Progress'
  BY <1>1, <1>2, <1>4 DEF Progress
<1>6. Attempts'
  BY <1>1 DEF IInv, Attempts, IsCli
<1> QED
  BY <1>1, <1>2, <1>3, <1>5, <1>6, GoesOn DEF IInv

LEMMA SleepInv == ASSUME IInv, Sleep PROVE IInv'
<1>1. /\ phase = "failed" /\ phase' = "built" /\ attempt' = attempt /\ answer' = None
      /\ setup' = setup /\ call' = call /\ status' = status
  BY DEF Sleep
<1>2. PICK d \in Delays(error) : waited' = waited + d
  BY DEF Sleep
<1>3. /\ attempt \in Nat /\ waited \in Nat /\ status = None /\ attempt > 0 /\ attempt <= MaxRetries
      /\ waited <= (attempt - 1) * RetryMax
  BY <1>1 DEF IInv, TypeOK, Progress
<1>4. setup \in Setups /\ answer \in Answers(setup) /\ error = ErrorOf(answer) /\ error # None
  BY <1>1 DEF IInv, TypeOK, Attempts
<1>5. error.retryAfter \in Nat \union {None}
  BY <1>4, ErrorFaithful DEF Faithful, IsError
<1>6. d \in 0 .. RetryMax
  BY <1>2, <1>3, <1>5, DelaysBounded
<1>7. attempt - 1 \in Nat /\ attempt - 1 + 1 = attempt
  BY <1>3
<1>8. waited' \in Nat /\ waited' <= attempt * RetryMax
  BY <1>2, <1>3, <1>6, <1>7, WaitGrows
<1>9. TypeOK'
  BY <1>1, <1>3, <1>8 DEF IInv, TypeOK
<1>10. Progress'
  BY <1>1, <1>3, <1>8 DEF Progress
<1>11. Attempts'
  BY <1>1 DEF IInv, Attempts, IsCli
<1> QED
  BY <1>1, <1>3, <1>9, <1>10, <1>11, GoesOn DEF IInv

\* An attempt that is under way.
LEMMA UnderWay ==
    ASSUME IInv, phase = "sent"
    PROVE  /\ setup \in Setups /\ call \in Calls /\ call.size \in Nat /\ attempt \in Nat /\ waited \in Nat
           /\ attempt > 0 /\ attempt <= MaxRetries + 1 /\ waited <= (attempt - 1) * RetryMax
           /\ waited <= MaxRetries * RetryMax /\ ~IsCli /\ status = None
<1>1. /\ setup \in Setups /\ call \in Calls /\ attempt \in Nat /\ waited \in Nat /\ status = None
      /\ attempt > 0 /\ attempt - 1 <= MaxRetries /\ waited <= (attempt - 1) * RetryMax /\ ~IsCli
  BY DEF IInv, TypeOK, Progress, Attempts
<1>2. attempt - 1 \in Nat /\ attempt <= MaxRetries + 1
  BY <1>1, RetriesAssumption
<1>3. waited <= MaxRetries * RetryMax
  BY <1>1, <1>2, WaitBound
<1> QED
  BY <1>1, <1>2, <1>3, CallsAssumption

\* A call that ends with its last attempt.
LEMMA EndsAfterAttempt ==
    ASSUME IInv, phase = "sent", Kept, attempt' = attempt, waited' = waited, phase' = "done",
           status' \in Statuses \union {"ok"}
    PROVE  TypeOK' /\ Progress' /\ Attempts'
<1>1. TypeOK'
  BY UnderWay DEF TypeOK, Kept
<1>2. Progress'
  BY UnderWay DEF Progress
<1> QED
  BY <1>1, <1>2 DEF Attempts

LEMMA FailInv == ASSUME IInv, NEW a \in Answers(setup), Fail(a) PROVE IInv'
<1> DEFINE e == ErrorOf(a)
<1>1. /\ phase = "sent" /\ e # None /\ answer' = a /\ Kept /\ attempt' = attempt /\ waited' = waited
      /\ Settle(e)
  BY DEF Fail, Kept
<1>2. Faithful(e, a)
  BY <1>1, UnderWay, ErrorFaithful
<1>3. a # None /\ a.status \in Nat
  BY <1>1, UnderWay, AnswerFacts
<1>4. CASE ~e.retryable \/ attempt > MaxRetries
  <2>1. Raise(e)
    BY <1>1, <1>4 DEF Settle
  <2> HIDE DEF e
  <2>2. StatusOf(e) \in Statuses /\ StatusOf(e) = (IF e.category = None THEN "provider" ELSE e.category)
    BY <1>2, StatusOfError DEF Faithful
  <2>3. phase' = "done" /\ status' = StatusOf(e) /\ EveryFindingDecided'
    BY <1>1, <2>1, <2>2, RaiseEnds
  <2>4. TypeOK' /\ Progress' /\ Attempts'
    BY <1>1, <2>2, <2>3, EndsAfterAttempt
  <2>5. /\ status' = "quota" => (a.code \union a.message) \intersect {"terminal", "quota"} # {}
        /\ status' = "auth" => a.status \in {401, 403} \/ "auth" \in a.code \union a.message
    BY <1>2, <2>2, <2>3 DEF Faithful
  <2>6. FaithfulStatus'
    BY <1>1, <1>3, <2>5, UnderWay DEF FaithfulStatus
  <2> QED
    BY <2>3, <2>4, <2>6 DEF IInv
<1>5. CASE e.retryable /\ ~(attempt > MaxRetries)
  <2>1. phase' = "failed" /\ error' = e /\ status' = status
    BY <1>1, <1>5 DEF Settle
  <2>2. attempt \in Nat /\ attempt <= MaxRetries
    BY <1>1, <1>5, UnderWay, RetriesAssumption
  <2>3. TypeOK'
    BY <1>1, <2>1, UnderWay DEF TypeOK, Kept
  <2>4. Progress'
    <3>1. attempt > 0 /\ attempt - 1 <= MaxRetries /\ waited <= (attempt - 1) * RetryMax
      BY <1>1 DEF IInv, Progress
    <3> QED
      BY <1>1, <2>1, <2>2, <3>1 DEF Progress
  <2>5. answer' \in Answers(setup') /\ error' = ErrorOf(a) /\ error'.retryable /\ error' # None
    BY <1>1, <1>5, <2>1 DEF Kept
  <2>6. ~IsCli'
    BY <1>1, UnderWay DEF IsCli, Kept
  <2>7. answer' = a
    BY <1>1
  <2>8. ErrorOf(a)' = ErrorOf(answer')
    BY <2>7 DEF ErrorOf
  <2>9. Attempts'
    BY <2>1, <2>5, <2>6, <2>7, <2>8 DEF Attempts
  <2> QED
    BY <1>1, <2>1, <2>3, <2>4, <2>9, UnderWay, GoesOn DEF IInv
<1> QED
  BY <1>4, <1>5

LEMMA AnswerInv == ASSUME IInv, NEW a \in Answers(setup), NEW text \in Bodies, Answer(a, text) PROVE IInv'
<1>1. phase = "sent" /\ answer' = a /\ Kept /\ attempt' = attempt /\ waited' = waited
  BY DEF Answer, Kept
<1>2. phase' = "done" /\ status' \in {"malformed", "ok"} /\ EveryFindingDecided'
  <2>1. CASE ParseError(text, call.size) # None
    <3>1. Raise(Failure("malformed"))
      BY <2>1 DEF Answer
    <3>2. IsError(Failure("malformed")) /\ Failure("malformed").category = "malformed"
      BY FailureIsError DEF Categories, Statuses
    <3>3. StatusOf(Failure("malformed")) = "malformed"
      BY <3>2, StatusOfError, NoneAssumption DEF Statuses
    <3> QED
      BY <1>1, <3>1, <3>3, RaiseEnds DEF Statuses
  <2>2. CASE ParseError(text, call.size) = None
    <3>1. Finish(text)
      BY <2>2 DEF Answer
    <3> QED
      BY <1>1, <2>2, <3>1, FinishEnds
  <2> QED
    BY <2>1, <2>2
<1>3. TypeOK' /\ Progress' /\ Attempts'
  BY <1>1, <1>2, EndsAfterAttempt DEF Statuses
<1>4. FaithfulStatus'
  BY <1>2 DEF FaithfulStatus
<1> QED
  BY <1>2, <1>3, <1>4 DEF IInv

\* A program is run once, and what it ends with is the end of the call.
LEMMA RunEnds ==
    ASSUME IInv, phase = "new", IsCli, Kept, NEW text \in Bodies,
           waited' = waited, answer' = answer, attempt' \in {attempt, attempt + 1},
           \/ \E e : Raise(e) /\ StatusOf(e) \in Statuses
           \/ Finish(text) /\ ParseError(text, call.size) = None
    PROVE  IInv'
<1>1. phase' = "done" /\ status' \in Statuses \union {"ok"} /\ EveryFindingDecided'
  <2>1. CASE \E e : Raise(e) /\ StatusOf(e) \in Statuses
    BY <2>1, RaiseEnds
  <2>2. CASE Finish(text) /\ ParseError(text, call.size) = None
    BY <2>2, FinishEnds
  <2> QED
    BY <2>1, <2>2
<1>2. attempt = 0 /\ waited = 0 /\ attempt' \in {0, 1}
  BY DEF IInv, Progress
<1>3. MaxRetries \in Nat /\ MaxRetries * RetryMax \in Nat
  BY RetriesAssumption, DelayAssumption
<1>4. TypeOK'
  BY <1>1, <1>2 DEF IInv, TypeOK, Kept
<1>5. Progress'
  BY <1>1, <1>2, <1>3 DEF Progress
<1>6. Attempts'
  BY <1>1 DEF Attempts
<1>7. FaithfulStatus'
  BY DEF FaithfulStatus, IsCli, Kept
<1> QED
  BY <1>1, <1>4, <1>5, <1>6, <1>7 DEF IInv

LEMMA RunIsOver ==
    ASSUME NEW text \in Bodies, Run(text)
    PROVE  /\ attempt' = attempt + 1
           /\ \/ \E e : Raise(e) /\ StatusOf(e) \in Statuses
              \/ Finish(text) /\ ParseError(text, call.size) = None
<1>1. \A e \in CliErrors : StatusOf(e) \in Statuses
  BY DEF CliErrors, StatusOf, Statuses
<1>2. CASE \E e \in CliErrors : Raise(e)
  BY <1>1, <1>2 DEF Run
<1>3. CASE ParseError(text, call.size) # None /\ Raise(ParseError(text, call.size))
  BY <1>3, ParseErrorStatus DEF Run
<1>4. CASE ParseError(text, call.size) = None /\ Finish(text)
  BY <1>4 DEF Run
<1> QED
  BY <1>2, <1>3, <1>4 DEF Run

LEMMA RunCodexInv == ASSUME IInv, NEW text \in Bodies, RunCodex(text) PROVE IInv'
<1>1. phase = "new" /\ IsCli /\ Kept /\ waited' = waited /\ answer' = answer
  BY DEF RunCodex, IsCli, Clis, Kept
<1>2. CASE setup.config.effort = "max"
  <2>1. Raise(Failure(None)) /\ attempt' = attempt
    BY <1>2 DEF RunCodex
  <2>2. StatusOf(Failure(None)) \in Statuses
    BY FailureIsError, StatusOfError DEF Categories
  <2> QED
    BY <1>1, <2>1, <2>2, RunEnds
<1>3. CASE setup.config.effort # "max"
  <2>1. Run(text)
    BY <1>3 DEF RunCodex
  <2> QED
    BY <1>1, <2>1, RunIsOver, RunEnds
<1> QED
  BY <1>2, <1>3

LEMMA RunClaudeInv == ASSUME IInv, NEW text \in Bodies, RunClaude(text) PROVE IInv'
<1>1. phase = "new" /\ IsCli /\ Kept /\ waited' = waited /\ answer' = answer /\ Run(text)
  BY DEF RunClaude, IsCli, Clis, Kept
<1> QED
  BY <1>1, RunIsOver, RunEnds

LEMMA StutterInv == ASSUME IInv, UNCHANGED vars PROVE IInv'
<1>1. TypeOK'
  BY DEF IInv, TypeOK, vars
<1>2. Progress'
  BY DEF IInv, Progress, vars
<1>3. Attempts'
  BY DEF IInv, Attempts, IsCli, ErrorOf, vars
<1>4. EveryFindingDecided'
  BY DEF IInv, EveryFindingDecided, vars
<1>5. FaithfulStatus'
  BY DEF IInv, FaithfulStatus, IsCli, vars
<1> QED
  BY <1>1, <1>2, <1>3, <1>4, <1>5 DEF IInv

LEMMA StepInv == IInv /\ [Next]_vars => IInv'
<1> SUFFICES ASSUME IInv, [Next]_vars PROVE IInv'
  OBVIOUS
<1>1. CASE AskNothing
  BY <1>1, AskNothingInv
<1>2. CASE Build
  BY <1>2, BuildInv
<1>3. CASE Send
  BY <1>3, SendInv
<1>4. CASE Sleep
  BY <1>4, SleepInv
<1>5. CASE \E a \in Answers(setup) : Fail(a)
  BY <1>5, FailInv
<1>6. CASE \E a \in Answers(setup), text \in Bodies : Answer(a, text)
  BY <1>6, AnswerInv
<1>7. CASE \E text \in Bodies : RunCodex(text) \/ RunClaude(text)
  BY <1>7, RunCodexInv, RunClaudeInv
<1>8. CASE UNCHANGED vars
  BY <1>8, StutterInv
<1> QED
  BY <1>1, <1>2, <1>3, <1>4, <1>5, <1>6, <1>7, <1>8 DEF Next

LEMMA Invariant == Spec => []IInv
<1> QED
  BY InitInv, StepInv, PTL DEF Spec

-----------------------------------------------------------------------------
(* Theorems. *)

\* Every state a call can be in is one of its phases, and it has a status of
\* the report when it is over and no sooner (classify_llm_provider_error).
THEOREM TypeCorrect == Spec => []TypeOK
<1>1. IInv => TypeOK
  BY DEF IInv
<1> QED
  BY <1>1, Invariant, PTL

\* A verification that is returned pairs each finding with one decision, for
\* any number of findings and any text (parse_verification_batch_response).
THEOREM FindingsAreDecided == Spec => []EveryFindingDecided
<1>1. IInv => EveryFindingDecided
  BY DEF IInv
<1> QED
  BY <1>1, Invariant, PTL

\* A call is recorded as out of quota or not authenticated only on the word
\* of the provider, or without a key (APILLMProvider._http_error).
THEOREM StatusIsFaithful == Spec => []FaithfulStatus
<1>1. IInv => FaithfulStatus
  BY DEF IInv
<1> QED
  BY <1>1, Invariant, PTL

\* However many attempts are configured and whatever the answers name, a call
\* asks and waits within its bounds and repeats only what a repetition can
\* cure (_request_with_retries, _retry_delay).
THEOREM RetriesAreBounded == Spec => []RetriesOnlyTransient
<1>1. IInv => RetriesOnlyTransient
  <2> SUFFICES ASSUME IInv PROVE RetriesOnlyTransient
    OBVIOUS
  <2>1. attempt \in Nat /\ waited \in Nat /\ phase \in {"new", "built", "sent", "failed", "done"}
    BY DEF IInv, TypeOK
  <2>2. RetryMax \in Nat /\ MaxRetries \in Nat /\ MaxRetries * RetryMax \in Nat
    BY DelayAssumption, RetriesAssumption
  <2>3. CASE phase = "new"
    BY <2>2, <2>3 DEF IInv, Progress, RetriesOnlyTransient
  <2>4. CASE phase = "built"
    <3>1. attempt <= MaxRetries /\ waited <= attempt * RetryMax
      BY <2>4 DEF IInv, Progress
    <3>2. waited <= MaxRetries * RetryMax
      BY <2>1, <3>1, WaitBound
    <3> QED
      BY <2>1, <2>2, <2>4, <3>1, <3>2 DEF RetriesOnlyTransient
  <2>5. CASE phase = "sent"
    BY <2>5, UnderWay DEF RetriesOnlyTransient
  <2>6. CASE phase = "failed"
    <3>1. /\ attempt > 0 /\ attempt <= MaxRetries /\ waited <= (attempt - 1) * RetryMax
          /\ attempt - 1 <= MaxRetries
      BY <2>6 DEF IInv, Progress
    <3>2. attempt - 1 \in Nat
      BY <2>1, <3>1
    <3>3. waited <= MaxRetries * RetryMax
      BY <2>1, <3>1, <3>2, WaitBound
    <3>4. /\ setup \in Setups /\ answer \in Answers(setup) /\ error = ErrorOf(answer)
          /\ error # None /\ error.retryable
      BY <2>6 DEF IInv, TypeOK, Attempts
    <3>5. Faithful(ErrorOf(answer), answer)
      BY <3>4, ErrorFaithful
    <3>6. ~Incurable(answer)
      BY <3>4, <3>5 DEF Faithful
    <3> QED
      BY <2>1, <2>2, <3>1, <3>3, <3>6 DEF RetriesOnlyTransient
  <2>7. CASE phase = "done"
    BY <2>7 DEF IInv, Progress, RetriesOnlyTransient
  <2> QED
    BY <2>1, <2>3, <2>4, <2>5, <2>6, <2>7
<1> QED
  BY <1>1, Invariant, PTL
=============================================================================
