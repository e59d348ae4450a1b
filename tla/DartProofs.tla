----------------------------- MODULE DartProofs -----------------------------
(* Theorems about the Dart side: the analysis of a review and the cache of its *)
(* results, for any number of runs that share the cache, files, edits, limits, *)
(* packages and contents of the options files; then the calls of the client of *)
(* the language server, for every number of callers, calls and frames and      *)
(* every capacity of its queues.                                               *)
EXTENDS DartAnalysis, DartLspClient, TLAPS

---------------------------------------------------------------------------------------
(* The inductive invariant.                                                         *)

Fingerprinting == {"inventory", "include", "packages", "hash"}
Asking == {"load", "read", "anchors", "launch", "sync", "analyze"}
Working == Fingerprinting \cup Asking \cup {"reconcile", "write"}
Pcs == Working \cup {"idle", "done", "raised"}

\* The shape of a run. What a fingerprint, a result and the work left are is said below.
Shape(x) ==
  x \in [pc : Pcs, late : BOOLEAN, cached : BOOLEAN, refresh : BOOLEAN,
         changed : {x.changed}, todo : {x.todo}, covered : {x.covered}, followed : {x.followed},
         checked : {x.checked}, hashed : {x.hashed}, key : {x.key}, bytes : {x.bytes},
         sources : {x.sources}, anchors : {x.anchors}, files : {x.files}, failed : {x.failed},
         unsure : {x.unsure}, doubt : BOOLEAN, up : BOOLEAN, tries : {x.tries}, used : {x.used},
         disturbed : {x.disturbed}, hit : BOOLEAN, result : {x.result}]

Apart(S, T) == S \cap T = {}

\* Every changed file is waiting, read, analyzed or failed, and only one of them.
Divided(x) ==
  /\ x.changed \subseteq OwnInputs
  /\ x.pc \in Fingerprinting \cup {"load"} =>
       DOMAIN x.sources = {} /\ x.failed = {} /\ (x.pc = "load" => x.todo = x.changed)
  /\ x.pc \in Fingerprinting \cup {"load", "read", "anchors", "launch", "sync"} => x.files = {}
  /\ x.pc \in Fingerprinting \cup {"load", "read"} => DOMAIN x.anchors = {}
  /\ x.pc = "read" =>
       /\ x.todo \cup DOMAIN x.sources \cup x.failed = x.changed
       /\ Apart(x.todo, DOMAIN x.sources \cup x.failed) /\ Apart(DOMAIN x.sources, x.failed)
  /\ x.pc = "anchors" => \A a \in x.todo : a[2] \in OwnInputs
  /\ x.pc \in {"anchors", "launch", "sync"} =>
       DOMAIN x.sources \cup x.failed = x.changed /\ Apart(DOMAIN x.sources, x.failed)
  /\ DOMAIN x.sources \cup DOMAIN x.anchors \subseteq OwnInputs
  /\ x.pc = "sync" => x.todo = DOMAIN x.sources
  /\ x.pc = "analyze" =>
       /\ x.todo \cup x.files \cup x.failed = x.changed
       /\ Apart(x.todo, x.files \cup x.failed) /\ Apart(x.files, x.failed)
  /\ x.pc = "reconcile" => x.files \cup x.failed = x.changed /\ Apart(x.files, x.failed)

\* A server that is gone, and whatever else was lost, shows in the result.
Recorded(x) ==
  /\ x.pc = "reconcile" => x.up \/ x.doubt
  /\ x.pc \in {"write", "done"} =>
       /\ x.result.changed = x.changed
       /\ x.result.files \cup x.result.failed = x.changed /\ Apart(x.result.files, x.result.failed)
       /\ ~x.result.partial => x.result.failed = {} /\ (x.hit \/ (x.up /\ ~x.doubt /\ x.unsure = {}))
  /\ x.pc = "write" =>
       x.result \in [files : {x.result.files}, failed : {x.result.failed}, partial : {x.result.partial},
                     changed : {x.result.changed}, used : {x.result.used}, disturbed : {x.result.disturbed}]

\* What a fingerprint knows of the contents d: of the options it has followed where they
\* lead, of the configurations it has checked that they name no package outside, and of the
\* files it has hashed their contents; unless they were edited since. T is left to be read.
IncludesKnown(x, d, T) ==
  /\ x.followed \cup T \subseteq x.covered
  /\ OwnInputs \cap OptionsFiles \subseteq x.followed \cup T
  /\ \A g \in x.followed \ x.disturbed : Include(d, g) \in x.followed \cup T \cup {"none"}

PackagesKnown(x, d, T) ==
  /\ T \subseteq x.covered /\ x.checked \subseteq x.covered
  /\ OwnInputs \cap Configs \subseteq x.checked \cup T
  /\ \A g \in x.checked \ x.disturbed : ~Escapes(g, d[g])

ContentsKnown(x, d, T) ==
  /\ T \subseteq x.covered
  /\ x.covered \cup CommandFiles = DOMAIN x.hashed \cup T
  /\ \A f \in DOMAIN x.hashed \ x.disturbed : x.hashed[f] = d[f]

Covers(x) == OwnInputs \subseteq x.covered /\ x.covered \subseteq Range(Files)

\* A run that holds a key, and has read the sources and anchors of a session
AsRead(c, x, d) == \A f \in DOMAIN c \ x.disturbed : c[f] = d[f]
Complete(x, d) ==
  /\ Covers(x) /\ IncludesKnown(x, d, {}) /\ PackagesKnown(x, d, {}) /\ ContentsKnown(x, d, {})
  /\ x.key.content = x.hashed
  /\ AsRead(x.sources, x, d) /\ AsRead(x.anchors, x, d)

Fingerprint(x, d) ==
  /\ x.pc = "inventory" => x.followed = {} /\ x.checked = {}
  /\ x.pc = "include" => Covers(x) /\ IncludesKnown(x, d, x.todo) /\ x.checked = {}
  /\ x.pc = "packages" => Covers(x) /\ IncludesKnown(x, d, {}) /\ PackagesKnown(x, d, x.todo)
  /\ x.pc = "hash" =>
       /\ Covers(x) /\ IncludesKnown(x, d, {}) /\ PackagesKnown(x, d, {}) /\ ContentsKnown(x, d, x.todo)
  /\ x.pc \in {"inventory", "include", "packages"} => DOMAIN x.hashed = {}
  /\ x.pc \in Asking /\ x.key # NoKey => Complete(x, d)

\* What the server has used rests on the key.
Using(x) ==
  x.pc \in Working /\ x.key # NoKey =>
    RestsOn(x.used, x.disturbed, x.key.content) /\ (x.pc = "write" => x.result.used = x.used)

Undisturbed(x, d) == Fingerprint(x, d) /\ Using(x)

\* A result is kept under the change it was made for, and rests on what the key covers.
Sound(key, result) ==
  /\ ~result.partial /\ result.changed = key.changed /\ result.files = key.changed /\ result.failed = {}
  /\ RestsOn(result.used, result.disturbed, key.content)

Keyed(x) ==
  /\ x.pc \in Fingerprinting => x.key = NoKey /\ x.used = {}
  /\ x.pc \in Working /\ (x.key # NoKey \/ x.pc = "load") => x.key.changed = x.changed
  /\ x.hit => x.pc = "done" /\ Sound(x.key, x.result) /\ x.result.changed = x.changed

RunInv(x, d) == Shape(x) /\ Divided(x) /\ Recorded(x) /\ Keyed(x) /\ Undisturbed(x, d)

IInv ==
  /\ run = [r \in Runs |-> run[r]] /\ disk \in [Range(Files) -> Versions]
  /\ \A r \in Runs : RunInv(run[r], disk)
  /\ cache # NoEntry => Sound(cache.key, cache.result)

---------------------------------------------------------------------------------------
(* What a step of one run keeps.                                                    *)

LEMMA RunStep ==
    ASSUME IInv, NEW r \in Runs, NEW x, RunInv(x, disk), run' = [run EXCEPT ![r] = x],
           disk' = disk, lim' = lim, cache' = cache \/ Sound(cache'.key, cache'.result)
    PROVE  IInv'
<1>1. ASSUME NEW q \in Runs PROVE RunInv(run'[q], disk')
  <2>1. CASE q = r
    <3>1. run'[q] = x
      BY <2>1 DEF IInv
    <3> QED
      BY <3>1
  <2>2. CASE q # r
    <3>1. run'[q] = run[q] /\ RunInv(run[q], disk)
      BY <2>2 DEF IInv
    <3> QED
      BY <3>1
  <2> QED
    BY <2>1, <2>2
<1>2. run' = [q \in Runs |-> run'[q]]
  BY DEF IInv
<1> QED
  BY <1>1, <1>2 DEF IInv

LEMMA GoInv ==
    ASSUME IInv, NEW r \in Runs, NEW x, RunInv(x, disk), Go(r, x)
    PROVE  IInv'
BY RunStep DEF Go

\* A run that has just begun, or has ended without a result.
LEMMA IdleInv ==
    ASSUME NEW d, NEW pc \in {"idle", "inventory", "raised"},
           NEW cached \in BOOLEAN, NEW refresh \in BOOLEAN, NEW changed \in SUBSET OwnInputs
    PROVE  RunInv([Idle EXCEPT !.pc = pc, !.cached = cached, !.refresh = refresh, !.changed = changed], d)
<1>0. PICK x : x = [Idle EXCEPT !.pc = pc, !.cached = cached, !.refresh = refresh, !.changed = changed]
  OBVIOUS
<1>1. x = [pc |-> pc, late |-> FALSE, cached |-> cached, refresh |-> refresh,
           changed |-> changed, todo |-> {}, covered |-> {}, followed |-> {}, checked |-> {},
           hashed |-> Nothing, key |-> NoKey, bytes |-> 0,
           sources |-> Nothing, anchors |-> Nothing, files |-> {}, failed |-> {}, unsure |-> {},
           doubt |-> FALSE, up |-> TRUE, tries |-> 0, used |-> {}, disturbed |-> {},
           hit |-> FALSE, result |-> NoEntry]
  BY <1>0 DEF Idle
<1>2. DOMAIN Nothing = {}
  BY DEF Nothing
<1>3. Shape(x)
  BY <1>1 DEF Shape, Pcs, Working, Fingerprinting, Asking
<1>4. Divided(x) /\ Recorded(x) /\ Keyed(x)
  BY <1>1, <1>2 DEF Divided, Recorded, Keyed, Fingerprinting
<1>5. Undisturbed(x, d)
  BY <1>1, <1>2 DEF Undisturbed, Fingerprint, Using, Asking
<1> QED
  BY <1>0, <1>3, <1>4, <1>5 DEF RunInv

LEMMA RaisedInv == ASSUME NEW d PROVE RunInv([Idle EXCEPT !.pc = "raised"], d)
<1>1. [Idle EXCEPT !.pc = "raised"] =
        [Idle EXCEPT !.pc = "raised", !.cached = FALSE, !.refresh = FALSE, !.changed = {}]
  <2>1. PICK x : x = [Idle EXCEPT !.pc = "raised"]
    OBVIOUS
  <2>2. PICK y : y = [Idle EXCEPT !.pc = "raised", !.cached = FALSE, !.refresh = FALSE, !.changed = {}]
    OBVIOUS
  <2>3. x = [pc |-> "raised", late |-> FALSE, cached |-> FALSE, refresh |-> FALSE,
             changed |-> {}, todo |-> {}, covered |-> {}, followed |-> {}, checked |-> {},
             hashed |-> Nothing, key |-> NoKey, bytes |-> 0,
             sources |-> Nothing, anchors |-> Nothing, files |-> {}, failed |-> {}, unsure |-> {},
             doubt |-> FALSE, up |-> TRUE, tries |-> 0, used |-> {}, disturbed |-> {},
             hit |-> FALSE, result |-> NoEntry]
    BY <2>1 DEF Idle
  <2>4. y = [pc |-> "raised", late |-> FALSE, cached |-> FALSE, refresh |-> FALSE,
             changed |-> {}, todo |-> {}, covered |-> {}, followed |-> {}, checked |-> {},
             hashed |-> Nothing, key |-> NoKey, bytes |-> 0,
             sources |-> Nothing, anchors |-> Nothing, files |-> {}, failed |-> {}, unsure |-> {},
             doubt |-> FALSE, up |-> TRUE, tries |-> 0, used |-> {}, disturbed |-> {},
             hit |-> FALSE, result |-> NoEntry]
    BY <2>2 DEF Idle
  <2> QED
    BY <2>1, <2>2, <2>3, <2>4
<1>2. RunInv([Idle EXCEPT !.pc = "raised", !.cached = FALSE, !.refresh = FALSE, !.changed = {}], d)
  BY IdleInv
<1> QED
  BY <1>1, <1>2

\* A run whose result says that nothing could be analyzed.
LEMMA WithoutInv ==
    ASSUME NEW d, NEW me, RunInv(me, d), NEW failed, failed = me.changed
    PROVE  RunInv(Without(failed, me), d)
<1> DEFINE result == [files |-> {}, failed |-> failed, partial |-> TRUE, changed |-> me.changed,
                      used |-> {}, disturbed |-> {}]
<1>1. PICK x : x = Without(failed, me)
  OBVIOUS
<1>2. x = [pc |-> "done", late |-> FALSE, cached |-> FALSE, refresh |-> FALSE,
           changed |-> me.changed, todo |-> {}, covered |-> {}, followed |-> {}, checked |-> {},
           hashed |-> Nothing, key |-> NoKey, bytes |-> 0,
           sources |-> Nothing, anchors |-> Nothing, files |-> {}, failed |-> {}, unsure |-> {},
           doubt |-> FALSE, up |-> TRUE, tries |-> 0, used |-> {}, disturbed |-> {},
           hit |-> FALSE, result |-> result]
  BY <1>1 DEF Without, Idle
<1>3. DOMAIN Nothing = {} /\ me.changed \subseteq OwnInputs
  BY DEF Nothing, RunInv, Divided, Fingerprinting
<1>4. /\ result.files = {} /\ result.failed = me.changed /\ result.partial = TRUE
      /\ result.changed = me.changed
  OBVIOUS
<1> HIDE DEF result
<1>5. Shape(x)
  BY <1>2 DEF Shape, Pcs, Working, Fingerprinting, Asking
<1>6. Divided(x) /\ Recorded(x) /\ Keyed(x)
  BY <1>2, <1>3, <1>4 DEF Divided, Recorded, Keyed, Apart, Fingerprinting
<1>7. Undisturbed(x, d)
  BY <1>2 DEF Undisturbed, Fingerprint, Using, Working, Asking, Fingerprinting
<1> QED
  BY <1>1, <1>5, <1>6, <1>7 DEF RunInv

\* A run that goes on without another read of the files.
Continues(x, me) ==
  /\ x.changed = me.changed /\ x.key = me.key /\ x.disturbed = me.disturbed /\ x.hit = me.hit
  /\ x.covered = me.covered /\ x.followed = me.followed /\ x.checked = me.checked /\ x.hashed = me.hashed
  /\ x.sources = me.sources

\* Its fingerprint stays what it is.
LEMMA CompleteStays ==
    ASSUME NEW d, NEW me, NEW x, Complete(me, d), Continues(x, me), x.anchors = me.anchors
    PROVE  Complete(x, d)
BY DEF Complete, Continues, Covers, IncludesKnown, PackagesKnown, ContentsKnown, AsRead

LEMMA SessionGoesOn ==
    ASSUME NEW d, NEW me, NEW x, Undisturbed(me, d), Continues(x, me), x.anchors = me.anchors,
           me.pc \in Asking \cup {"reconcile"}, x.pc \in Asking \cup {"reconcile"},
           x.pc \in Asking => me.pc \in Asking,
           x.used = me.used \/ (x.key # NoKey => RestsOn(x.used, x.disturbed, x.key.content))
    PROVE  Undisturbed(x, d)
<1>1. ASSUME x.pc \in Asking, x.key # NoKey PROVE Complete(x, d)
  BY <1>1, CompleteStays DEF Undisturbed, Fingerprint, Continues
<1>2. Fingerprint(x, d)
  BY <1>1 DEF Fingerprint, Asking
<1>3. Using(x)
  BY DEF Undisturbed, Using, Continues, Working, Asking, Fingerprinting
<1> QED
  BY <1>2, <1>3 DEF Undisturbed

LEMMA ExpireInv ==
    ASSUME NEW d, NEW me, RunInv(me, d)
    PROVE  RunInv([me EXCEPT !.late = TRUE], d)
<1>1. PICK x : x = [me EXCEPT !.late = TRUE]
  OBVIOUS
<1>2. Shape(me)
  BY DEF RunInv
<1>3. /\ Continues(x, me) /\ x.anchors = me.anchors /\ x.pc = me.pc /\ x.todo = me.todo
      /\ x.files = me.files /\ x.failed = me.failed /\ x.unsure = me.unsure /\ x.doubt = me.doubt
      /\ x.up = me.up /\ x.used = me.used /\ x.result = me.result
  BY <1>1, <1>2 DEF Shape, Continues
<1>4. Shape(x)
  BY <1>1, <1>2 DEF Shape
<1>5. Divided(x) /\ Recorded(x) /\ Keyed(x)
  BY <1>3 DEF RunInv, Divided, Recorded, Keyed, Continues, Fingerprinting
<1>6. Fingerprint(x, d)
  BY <1>3, CompleteStays DEF RunInv, Undisturbed, Fingerprint, Continues, Covers, IncludesKnown, PackagesKnown,
     ContentsKnown
<1>7. Using(x)
  BY <1>3 DEF RunInv, Undisturbed, Using, Continues
<1> QED
  BY <1>1, <1>4, <1>5, <1>6, <1>7 DEF RunInv, Undisturbed

---------------------------------------------------------------------------------------
(* The key, the cache and the files that are read.                                  *)

\* Without a key nothing is said of the contents of the files.
LEMMA UnkeyedInv ==
    ASSUME NEW d, NEW me, RunInv(me, d), me.pc \in Fingerprinting
    PROVE  RunInv(Unkeyed(me), d)
<1>1. PICK x : x = Unkeyed(me)
  OBVIOUS
<1>2. Shape(me)
  BY DEF RunInv
<1>3. /\ x.pc = "read" /\ x.todo = me.changed /\ x.changed = me.changed /\ x.key = me.key /\ x.hit = me.hit
      /\ x.sources = me.sources /\ x.anchors = me.anchors /\ x.files = me.files /\ x.failed = me.failed
  BY <1>1, <1>2 DEF Unkeyed, Shape
<1>4. Shape(x)
  BY <1>1, <1>2, <1>3, ZenonT(60) DEF Unkeyed, Shape, Pcs, Working, Asking, Fingerprinting
<1>5. me.key = NoKey /\ ~me.hit
  BY DEF RunInv, Keyed, Fingerprinting
<1>6. Divided(x) /\ Recorded(x) /\ Keyed(x)
  BY <1>3, <1>5 DEF RunInv, Divided, Recorded, Keyed, Fingerprinting, Apart
<1>7. Undisturbed(x, d)
  BY <1>3, <1>5 DEF Undisturbed, Fingerprint, Using
<1> QED
  BY <1>1, <1>4, <1>6, <1>7 DEF RunInv

\* A step of the fingerprint that reads a file, or goes on to the next part.
LEMMA FingerprintGoesOn ==
    ASSUME IInv, NEW r \in Runs, NEW me, me = run[r], me.pc \in Fingerprinting,
           NEW x, Go(r, x), Shape(x), x.pc \in Fingerprinting \cup {"load"}, Fingerprint(x, disk),
           x.changed = me.changed, x.hit = me.hit, x.used = me.used, x.sources = me.sources,
           x.anchors = me.anchors, x.files = me.files, x.failed = me.failed,
           x.pc = "load" => x.todo = x.changed /\ x.key.changed = x.changed,
           x.pc # "load" => x.key = me.key
    PROVE  IInv'
<1>1. RunInv(me, disk)
  BY DEF IInv
<1>2. Divided(x)
  BY <1>1 DEF RunInv, Divided, Fingerprinting
<1>3. ~me.hit /\ me.used = {}
  BY <1>1 DEF RunInv, Keyed, Fingerprinting
<1>4. Recorded(x) /\ Keyed(x)
  BY <1>1, <1>3 DEF RunInv, Recorded, Keyed, Fingerprinting
<1>5. Using(x)
  BY <1>3 DEF Using, RestsOn, Fingerprinting
<1> QED
  BY <1>2, <1>4, <1>5, GoInv DEF RunInv, Undisturbed

LEMMA WalkInputsInv == ASSUME IInv, NEW r \in Runs, WalkInputs(r) PROVE IInv'
<1>1. PICK me : me = run[r]
  OBVIOUS
<1>2. PICK x : x = [me EXCEPT !.pc = "include", !.todo = OwnInputs \cap OptionsFiles, !.covered = OwnInputs]
  OBVIOUS
<1>3. me.pc = "inventory" /\ RunInv(me, disk) /\ Shape(me) /\ (Go(r, Unkeyed(me)) \/ Go(r, x))
  BY <1>1, <1>2 DEF WalkInputs, IInv, RunInv
<1>4. /\ x.pc = "include" /\ x.todo = OwnInputs \cap OptionsFiles /\ x.covered = OwnInputs
      /\ x.followed = me.followed /\ x.checked = me.checked /\ x.hashed = me.hashed
      /\ x.changed = me.changed /\ x.hit = me.hit /\ x.used = me.used /\ x.sources = me.sources
      /\ x.anchors = me.anchors /\ x.files = me.files /\ x.failed = me.failed /\ x.key = me.key
  BY <1>2, <1>3 DEF Shape
<1>5. Shape(x)
  BY <1>2, <1>3, <1>4 DEF Shape, Pcs, Working, Fingerprinting, Asking
<1>6. Fingerprint(x, disk)
  <2>1. me.followed = {} /\ me.checked = {} /\ DOMAIN me.hashed = {}
    BY <1>3 DEF RunInv, Undisturbed, Fingerprint
  <2> QED
    BY <1>4, <2>1, FilesAssumption DEF Fingerprint, Covers, IncludesKnown, Asking
<1>7. ASSUME Go(r, x) PROVE IInv'
  BY <1>1, <1>3, <1>4, <1>5, <1>6, <1>7, FingerprintGoesOn DEF Fingerprinting
<1>8. ASSUME Go(r, Unkeyed(me)) PROVE IInv'
  BY <1>3, <1>8, UnkeyedInv, GoInv DEF Fingerprinting
<1> QED
  BY <1>3, <1>7, <1>8

LEMMA FollowIncludeInv == ASSUME IInv, NEW r \in Runs, FollowInclude(r) PROVE IInv'
<1>1. PICK me : me = run[r]
  OBVIOUS
<1>2. PICK f \in me.todo :
        LET next == {Include(disk, f)} \ {"none"} IN
        \/ Go(r, Unkeyed(me))
        \/ /\ "bad" \notin next
           /\ Go(r, [me EXCEPT !.followed = @ \cup {f}, !.covered = @ \cup next,
                               !.todo = (@ \cup next) \ (me.followed \cup {f})])
  BY <1>1 DEF FollowInclude, Turn
<1>3. PICK next : next = {Include(disk, f)} \ {"none"}
  OBVIOUS
<1>4. PICK x : x = [me EXCEPT !.followed = @ \cup {f}, !.covered = @ \cup next,
                              !.todo = (@ \cup next) \ (me.followed \cup {f})]
  OBVIOUS
<1>5. me.pc = "include" /\ RunInv(me, disk) /\ Shape(me)
  BY <1>1 DEF FollowInclude, IInv, RunInv
<1>6. Go(r, Unkeyed(me)) \/ ("bad" \notin next /\ Go(r, x))
  BY <1>2, <1>3, <1>4
<1>7. /\ x.pc = "include" /\ x.todo = (me.todo \cup next) \ (me.followed \cup {f})
      /\ x.covered = me.covered \cup next /\ x.followed = me.followed \cup {f}
      /\ x.checked = me.checked /\ x.hashed = me.hashed /\ x.disturbed = me.disturbed
      /\ x.changed = me.changed /\ x.hit = me.hit /\ x.used = me.used /\ x.sources = me.sources
      /\ x.anchors = me.anchors /\ x.files = me.files /\ x.failed = me.failed /\ x.key = me.key
  BY <1>4, <1>5 DEF Shape
<1>8. Shape(x)
  BY <1>4, <1>5, <1>7, ZenonT(60) DEF Shape
<1>9. ASSUME "bad" \notin next PROVE Fingerprint(x, disk)
  <2>1. Covers(me) /\ IncludesKnown(me, disk, me.todo) /\ me.checked = {} /\ DOMAIN me.hashed = {}
    BY <1>5 DEF RunInv, Undisturbed, Fingerprint
  <2>2. next \subseteq Range(Files)
    <3>1. f \in Range(Files)
      BY <1>2, <2>1 DEF Covers, IncludesKnown
    <3>2. disk[f] \in Versions
      BY <3>1 DEF IInv
    <3> QED
      BY <1>3, <1>9, <3>1, <3>2, FilesAssumption DEF Include
  <2>3. Covers(x)
    BY <1>7, <2>1, <2>2 DEF Covers
  <2>4. IncludesKnown(x, disk, x.todo)
    <3>1. x.followed \cup x.todo \subseteq x.covered /\ OwnInputs \cap OptionsFiles \subseteq x.followed \cup x.todo
      BY <1>2, <1>7, <2>1 DEF IncludesKnown
    <3>2. ASSUME NEW g \in x.followed \ x.disturbed
          PROVE  Include(disk, g) \in x.followed \cup x.todo \cup {"none"}
      <4>1. CASE g = f
        BY <1>3, <1>7, <4>1
      <4>2. CASE g # f
        <5>1. Include(disk, g) \in me.followed \cup me.todo \cup {"none"}
          BY <1>7, <2>1, <4>2 DEF IncludesKnown
        <5> QED
          BY <1>7, <5>1
      <4> QED
        BY <4>1, <4>2
    <3> QED
      BY <3>1, <3>2 DEF IncludesKnown
  <2> QED
    BY <1>7, <2>1, <2>3, <2>4 DEF Fingerprint, Asking
<1>10. ASSUME "bad" \notin next, Go(r, x) PROVE IInv'
  BY <1>1, <1>5, <1>7, <1>8, <1>9, <1>10, FingerprintGoesOn DEF Fingerprinting
<1>11. ASSUME Go(r, Unkeyed(me)) PROVE IInv'
  BY <1>5, <1>11, UnkeyedInv, GoInv DEF Fingerprinting
<1> QED
  BY <1>6, <1>10, <1>11

LEMMA IncludesFollowedInv == ASSUME IInv, NEW r \in Runs, IncludesFollowed(r) PROVE IInv'
<1>1. PICK me : me = run[r]
  OBVIOUS
<1>2. PICK x : x = [me EXCEPT !.pc = "packages", !.todo = me.covered \cap Configs]
  OBVIOUS
<1>3. /\ me.pc = "include" /\ me.todo = {} /\ RunInv(me, disk) /\ Shape(me)
      /\ Go(r, Unkeyed(me)) \/ Go(r, x)
  BY <1>1, <1>2 DEF IncludesFollowed, IInv, RunInv
<1>4. /\ x.pc = "packages" /\ x.todo = me.covered \cap Configs /\ x.covered = me.covered
      /\ x.followed = me.followed /\ x.checked = me.checked /\ x.hashed = me.hashed
      /\ x.disturbed = me.disturbed
      /\ x.changed = me.changed /\ x.hit = me.hit /\ x.used = me.used /\ x.sources = me.sources
      /\ x.anchors = me.anchors /\ x.files = me.files /\ x.failed = me.failed /\ x.key = me.key
  BY <1>2, <1>3 DEF Shape
<1>5. Shape(x)
  BY <1>2, <1>3, <1>4 DEF Shape, Pcs, Working, Fingerprinting, Asking
<1>6. Fingerprint(x, disk)
  <2>1. Covers(me) /\ IncludesKnown(me, disk, {}) /\ me.checked = {} /\ DOMAIN me.hashed = {}
    BY <1>3 DEF RunInv, Undisturbed, Fingerprint
  <2> QED
    BY <1>4, <2>1 DEF Fingerprint, Covers, IncludesKnown, PackagesKnown, Asking
<1>7. ASSUME Go(r, x) PROVE IInv'
  BY <1>1, <1>3, <1>4, <1>5, <1>6, <1>7, FingerprintGoesOn DEF Fingerprinting
<1>8. ASSUME Go(r, Unkeyed(me)) PROVE IInv'
  BY <1>3, <1>8, UnkeyedInv, GoInv DEF Fingerprinting
<1> QED
  BY <1>3, <1>7, <1>8

LEMMA CheckPackagesInv == ASSUME IInv, NEW r \in Runs, CheckPackages(r) PROVE IInv'
<1>1. PICK me : me = run[r]
  OBVIOUS
<1>2. PICK f \in me.todo :
        \/ Go(r, Unkeyed(me))
        \/ ~Escapes(f, disk[f]) /\ Go(r, [me EXCEPT !.checked = @ \cup {f}, !.todo = @ \ {f}])
  BY <1>1 DEF CheckPackages, Turn
<1>3. PICK x : x = [me EXCEPT !.checked = @ \cup {f}, !.todo = @ \ {f}]
  OBVIOUS
<1>4. me.pc = "packages" /\ RunInv(me, disk) /\ Shape(me)
  BY <1>1 DEF CheckPackages, IInv, RunInv
<1>5. /\ x.pc = "packages" /\ x.todo = me.todo \ {f} /\ x.checked = me.checked \cup {f}
      /\ x.covered = me.covered /\ x.followed = me.followed /\ x.hashed = me.hashed
      /\ x.disturbed = me.disturbed
      /\ x.changed = me.changed /\ x.hit = me.hit /\ x.used = me.used /\ x.sources = me.sources
      /\ x.anchors = me.anchors /\ x.files = me.files /\ x.failed = me.failed /\ x.key = me.key
  BY <1>3, <1>4 DEF Shape
<1>6. Shape(x)
  BY <1>3, <1>4, <1>5, ZenonT(60) DEF Shape
<1>7. ASSUME ~Escapes(f, disk[f]) PROVE Fingerprint(x, disk)
  <2>1. /\ Covers(me) /\ IncludesKnown(me, disk, {}) /\ PackagesKnown(me, disk, me.todo)
        /\ DOMAIN me.hashed = {}
    BY <1>4 DEF RunInv, Undisturbed, Fingerprint
  <2>2. PackagesKnown(x, disk, x.todo)
    BY <1>2, <1>5, <1>7, <2>1 DEF PackagesKnown
  <2> QED
    BY <1>5, <2>1, <2>2 DEF Fingerprint, Covers, IncludesKnown, Asking
<1>8. ASSUME ~Escapes(f, disk[f]), Go(r, x) PROVE IInv'
  BY <1>1, <1>4, <1>5, <1>6, <1>7, <1>8, FingerprintGoesOn DEF Fingerprinting
<1>9. ASSUME Go(r, Unkeyed(me)) PROVE IInv'
  BY <1>4, <1>9, UnkeyedInv, GoInv DEF Fingerprinting
<1> QED
  BY <1>2, <1>3, <1>8, <1>9

LEMMA HashCommandInv == ASSUME IInv, NEW r \in Runs, HashCommand(r) PROVE IInv'
<1>1. PICK me : me = run[r]
  OBVIOUS
<1>2. PICK x : x = [me EXCEPT !.pc = "hash", !.hashed = With(@, Sdk), !.todo = me.covered]
  OBVIOUS
<1>3. /\ me.pc = "packages" /\ me.todo = {} /\ RunInv(me, disk) /\ Shape(me)
      /\ Go(r, Unkeyed(me)) \/ Go(r, x)
  BY <1>1, <1>2 DEF HashCommand, IInv, RunInv
<1>4. /\ x.pc = "hash" /\ x.todo = me.covered /\ x.hashed = With(me.hashed, Sdk)
      /\ x.covered = me.covered /\ x.followed = me.followed /\ x.checked = me.checked
      /\ x.disturbed = me.disturbed
      /\ x.changed = me.changed /\ x.hit = me.hit /\ x.used = me.used /\ x.sources = me.sources
      /\ x.anchors = me.anchors /\ x.files = me.files /\ x.failed = me.failed /\ x.key = me.key
  BY <1>2, <1>3 DEF Shape
<1>5. Shape(x)
  BY <1>2, <1>3, <1>4, ZenonT(60) DEF Shape, Pcs, Working, Fingerprinting, Asking
<1>6. Fingerprint(x, disk)
  <2>1. /\ Covers(me) /\ IncludesKnown(me, disk, {}) /\ PackagesKnown(me, disk, {})
        /\ DOMAIN me.hashed = {}
    BY <1>3 DEF RunInv, Undisturbed, Fingerprint
  <2>2. DOMAIN x.hashed = {Sdk} /\ x.hashed[Sdk] = disk[Sdk]
    BY <1>4, <2>1 DEF With
  <2>3. ContentsKnown(x, disk, x.todo)
    BY <1>4, <2>2 DEF ContentsKnown, CommandFiles
  <2> QED
    BY <1>4, <2>1, <2>3 DEF Fingerprint, Covers, IncludesKnown, PackagesKnown, Asking
<1>7. ASSUME Go(r, x) PROVE IInv'
  BY <1>1, <1>3, <1>4, <1>5, <1>6, <1>7, FingerprintGoesOn DEF Fingerprinting
<1>8. ASSUME Go(r, Unkeyed(me)) PROVE IInv'
  BY <1>3, <1>8, UnkeyedInv, GoInv DEF Fingerprinting
<1> QED
  BY <1>3, <1>7, <1>8

LEMMA HashInputInv == ASSUME IInv, NEW r \in Runs, HashInput(r) PROVE IInv'
<1>1. PICK me : me = run[r]
  OBVIOUS
<1>2. PICK f \in me.todo :
        Go(r, Unkeyed(me)) \/ Go(r, [me EXCEPT !.hashed = With(@, f), !.todo = @ \ {f}])
  BY <1>1 DEF HashInput, Turn
<1>3. PICK x : x = [me EXCEPT !.hashed = With(@, f), !.todo = @ \ {f}]
  OBVIOUS
<1>4. me.pc = "hash" /\ RunInv(me, disk) /\ Shape(me)
  BY <1>1 DEF HashInput, IInv, RunInv
<1>5. /\ x.pc = "hash" /\ x.todo = me.todo \ {f} /\ x.hashed = With(me.hashed, f)
      /\ x.covered = me.covered /\ x.followed = me.followed /\ x.checked = me.checked
      /\ x.disturbed = me.disturbed
      /\ x.changed = me.changed /\ x.hit = me.hit /\ x.used = me.used /\ x.sources = me.sources
      /\ x.anchors = me.anchors /\ x.files = me.files /\ x.failed = me.failed /\ x.key = me.key
  BY <1>3, <1>4 DEF Shape
<1>6. Shape(x)
  BY <1>3, <1>4, <1>5, ZenonT(60) DEF Shape
<1>7. Fingerprint(x, disk)
  <2>1. /\ Covers(me) /\ IncludesKnown(me, disk, {}) /\ PackagesKnown(me, disk, {})
        /\ ContentsKnown(me, disk, me.todo)
    BY <1>4 DEF RunInv, Undisturbed, Fingerprint
  <2>2. /\ DOMAIN x.hashed = DOMAIN me.hashed \cup {f}
        /\ x.hashed[f] = disk[f] /\ \A g \in DOMAIN me.hashed \ {f} : x.hashed[g] = me.hashed[g]
    BY <1>5 DEF With
  <2>3. ContentsKnown(x, disk, x.todo)
    <3>1. \A g \in DOMAIN x.hashed \ x.disturbed : x.hashed[g] = disk[g]
      BY <1>5, <2>1, <2>2 DEF ContentsKnown
    <3> QED
      BY <1>2, <1>5, <2>1, <2>2, <3>1 DEF ContentsKnown
  <2> QED
    BY <1>5, <2>1, <2>3 DEF Fingerprint, Covers, IncludesKnown, PackagesKnown, Asking
<1>8. ASSUME Go(r, x) PROVE IInv'
  BY <1>1, <1>4, <1>5, <1>6, <1>7, <1>8, FingerprintGoesOn DEF Fingerprinting
<1>9. ASSUME Go(r, Unkeyed(me)) PROVE IInv'
  BY <1>4, <1>9, UnkeyedInv, GoInv DEF Fingerprinting
<1> QED
  BY <1>2, <1>3, <1>8, <1>9

\* The key of a run says of every file what was hashed.
LEMMA TakeKeyInv == ASSUME IInv, NEW r \in Runs, TakeKey(r) PROVE IInv'
<1>1. PICK me : me = run[r]
  OBVIOUS
<1>2. PICK key : key = [content |-> me.hashed, changed |-> me.changed]
  OBVIOUS
<1>3. PICK x : x = [me EXCEPT !.pc = "load", !.todo = me.changed, !.key = key]
  OBVIOUS
<1>4. /\ me.pc = "hash" /\ me.todo = {} /\ RunInv(me, disk) /\ Shape(me)
      /\ Go(r, Unkeyed(me)) \/ Go(r, x)
  BY <1>1, <1>2, <1>3 DEF TakeKey, IInv, RunInv
<1>5. key.content = me.hashed /\ key.changed = me.changed
  BY <1>2
<1>6. /\ x.pc = "load" /\ x.todo = me.changed /\ x.key = key /\ x.hashed = me.hashed
      /\ x.covered = me.covered /\ x.followed = me.followed /\ x.checked = me.checked
      /\ x.disturbed = me.disturbed
      /\ x.changed = me.changed /\ x.hit = me.hit /\ x.used = me.used /\ x.sources = me.sources
      /\ x.anchors = me.anchors /\ x.files = me.files /\ x.failed = me.failed
  BY <1>3, <1>4 DEF Shape
<1>7. Shape(x)
  BY <1>3, <1>4, <1>6, ZenonT(60) DEF Shape, Pcs, Working, Asking, Fingerprinting
<1>8. Fingerprint(x, disk)
  <2>1. /\ Covers(me) /\ IncludesKnown(me, disk, {}) /\ PackagesKnown(me, disk, {})
        /\ ContentsKnown(me, disk, {})
    BY <1>4 DEF RunInv, Undisturbed, Fingerprint
  <2>2. DOMAIN me.sources = {} /\ DOMAIN me.anchors = {}
    BY <1>4 DEF RunInv, Divided, Fingerprinting
  <2>3. Complete(x, disk)
    BY <1>5, <1>6, <2>1, <2>2 DEF Complete, Covers, IncludesKnown, PackagesKnown, ContentsKnown, AsRead
  <2> QED
    BY <1>6, <2>3 DEF Fingerprint
<1>9. ASSUME Go(r, x) PROVE IInv'
  BY <1>1, <1>4, <1>5, <1>6, <1>7, <1>8, <1>9, FingerprintGoesOn DEF Fingerprinting
<1>10. ASSUME Go(r, Unkeyed(me)) PROVE IInv'
  BY <1>4, <1>10, UnkeyedInv, GoInv DEF Fingerprinting
<1> QED
  BY <1>4, <1>9, <1>10

LEMMA LoadCacheInv == ASSUME IInv, NEW r \in Runs, LoadCache(r) PROVE IInv'
<1>1. PICK me : me = run[r]
  OBVIOUS
<1>2. PICK unreadable \in BOOLEAN :
        Go(r, IF ~me.late /\ ~me.refresh /\ ~unreadable /\ cache # NoEntry /\ cache.key = me.key
              THEN [Idle EXCEPT !.pc = "done", !.changed = me.changed, !.key = me.key,
                                !.hit = TRUE, !.result = cache.result]
              ELSE [me EXCEPT !.pc = "read", !.cached = FALSE, !.refresh = FALSE])
  BY <1>1 DEF LoadCache
<1>3. me.pc = "load" /\ RunInv(me, disk) /\ Shape(me)
  BY <1>1 DEF LoadCache, IInv, RunInv
<1>4. PICK x : x = [Idle EXCEPT !.pc = "done", !.changed = me.changed, !.key = me.key,
                                !.hit = TRUE, !.result = cache.result]
  OBVIOUS
<1>5. ASSUME cache # NoEntry, cache.key = me.key PROVE RunInv(x, disk)
  <2>1. x = [pc |-> "done", late |-> FALSE, cached |-> FALSE, refresh |-> FALSE,
             changed |-> me.changed, todo |-> {}, covered |-> {}, followed |-> {}, checked |-> {},
             hashed |-> Nothing, key |-> me.key, bytes |-> 0,
             sources |-> Nothing, anchors |-> Nothing, files |-> {}, failed |-> {}, unsure |-> {},
             doubt |-> FALSE, up |-> TRUE, tries |-> 0, used |-> {}, disturbed |-> {},
             hit |-> TRUE, result |-> cache.result]
    BY <1>4 DEF Idle
  <2>2. Shape(x)
    BY <2>1 DEF Shape, Pcs, Working, Fingerprinting, Asking
  <2>3. Sound(x.key, x.result) /\ x.key.changed = x.changed
    <3>1. Sound(me.key, cache.result) /\ me.key.changed = me.changed
      BY <1>3, <1>5 DEF IInv, RunInv, Keyed, Working, Asking, Fingerprinting
    <3> QED
      BY <2>1, <3>1
  <2>4. Divided(x)
    <3>1. DOMAIN Nothing = {} /\ me.changed \subseteq OwnInputs
      BY <1>3 DEF Nothing, RunInv, Divided, Fingerprinting
    <3> QED
      BY <2>1, <3>1 DEF Divided, Fingerprinting
  <2>5. Recorded(x) /\ Keyed(x)
    BY <2>1, <2>3 DEF Recorded, Keyed, Sound, Working, Fingerprinting, Asking, Apart
  <2>6. Undisturbed(x, disk)
    BY <2>1 DEF Undisturbed, Fingerprint, Using, Working, Fingerprinting, Asking
  <2> QED
    BY <2>2, <2>4, <2>5, <2>6 DEF RunInv
<1>6. PICK y : y = [me EXCEPT !.pc = "read", !.cached = FALSE, !.refresh = FALSE]
  OBVIOUS
<1>7. RunInv(y, disk)
  <2>1. /\ y.pc = "read" /\ y.todo = me.todo /\ Continues(y, me) /\ y.anchors = me.anchors
        /\ y.files = me.files /\ y.failed = me.failed /\ y.used = me.used
    BY <1>3, <1>6 DEF Shape, Continues
  <2>2. Shape(y)
    BY <1>3, <1>6, ZenonT(60) DEF Shape, Pcs, Working, Fingerprinting, Asking
  <2>3. Divided(y) /\ Recorded(y) /\ Keyed(y)
    BY <1>3, <2>1 DEF RunInv, Divided, Recorded, Keyed, Continues, Apart, Working, Pcs, Fingerprinting, Asking
  <2>4. Undisturbed(y, disk)
    BY <1>3, <2>1, SessionGoesOn DEF RunInv, Continues, Asking
  <2> QED
    BY <2>2, <2>3, <2>4 DEF RunInv
<1> QED
  BY <1>2, <1>4, <1>5, <1>6, <1>7, GoInv

LEMMA ReadChangedInv == ASSUME IInv, NEW r \in Runs, ReadChanged(r) PROVE IInv'
<1>1. PICK me : me = run[r]
  OBVIOUS
<1>2. PICK f \in Turn(me.todo) :
        \/ Go(r, [me EXCEPT !.todo = {}, !.failed = @ \cup (me.changed \ DOMAIN me.sources)])
        \/ Go(r, [me EXCEPT !.todo = @ \ {f}, !.sources = With(@, f), !.bytes = @ + Size(f, disk[f])])
        \/ Go(r, [me EXCEPT !.todo = @ \ {f}, !.failed = @ \cup {f}])
  BY <1>1 DEF ReadChanged
<1>3. me.pc = "read" /\ RunInv(me, disk) /\ Shape(me)
  BY <1>1 DEF ReadChanged, IInv, RunInv
<1>4. f \in me.todo
  BY DEF Turn
<1>5. PICK x : x = [me EXCEPT !.todo = {}, !.failed = @ \cup (me.changed \ DOMAIN me.sources)]
  OBVIOUS
<1>6. RunInv(x, disk)
  <2>1. /\ x.pc = "read" /\ x.todo = {} /\ Continues(x, me) /\ x.anchors = me.anchors /\ x.used = me.used
        /\ x.files = me.files /\ x.failed = me.failed \cup (me.changed \ DOMAIN me.sources)
    BY <1>3, <1>5 DEF Shape, Continues
  <2>2. Shape(x)
    BY <1>3, <1>5 DEF Shape, Pcs, Working, Fingerprinting, Asking
  <2>3. Divided(x) /\ Recorded(x) /\ Keyed(x)
    BY <1>3, <2>1 DEF RunInv, Divided, Recorded, Keyed, Continues, Apart, Fingerprinting
  <2>4. Undisturbed(x, disk)
    BY <1>3, <2>1, SessionGoesOn DEF RunInv, Continues, Asking
  <2> QED
    BY <2>2, <2>3, <2>4 DEF RunInv
<1>7. PICK y : y = [me EXCEPT !.todo = @ \ {f}, !.sources = With(@, f), !.bytes = @ + Size(f, disk[f])]
  OBVIOUS
<1>8. RunInv(y, disk)
  <2>1. /\ y.pc = "read" /\ y.todo = me.todo \ {f} /\ y.anchors = me.anchors /\ y.used = me.used
        /\ y.covered = me.covered /\ y.followed = me.followed /\ y.checked = me.checked /\ y.hashed = me.hashed
        /\ y.files = me.files /\ y.failed = me.failed /\ y.changed = me.changed /\ y.key = me.key
        /\ y.disturbed = me.disturbed /\ y.hit = me.hit /\ y.sources = With(me.sources, f)
    BY <1>3, <1>7 DEF Shape
  <2>2. Shape(y)
    BY <1>3, <1>7 DEF Shape, Pcs, Working, Fingerprinting, Asking
  <2>3. /\ DOMAIN y.sources = DOMAIN me.sources \cup {f}
        /\ y.sources[f] = disk[f] /\ \A g \in DOMAIN me.sources \ {f} : y.sources[g] = me.sources[g]
    BY <2>1 DEF With
  <2>4. Divided(y)
    BY <1>3, <1>4, <2>1, <2>3 DEF RunInv, Divided, Apart, Fingerprinting
  <2>5. Recorded(y) /\ Keyed(y)
    BY <1>3, <2>1 DEF RunInv, Recorded, Keyed, Fingerprinting
  <2>6. Undisturbed(y, disk)
    <3>1. ASSUME y.key # NoKey PROVE Complete(y, disk)
      <4>1. Complete(me, disk)
        BY <1>3, <2>1, <3>1 DEF RunInv, Undisturbed, Fingerprint, Asking
      <4>2. AsRead(y.sources, y, disk)
        BY <2>1, <2>3, <4>1 DEF Complete, AsRead
      <4> QED
        BY <2>1, <4>1, <4>2 DEF Complete, Covers, IncludesKnown, PackagesKnown, ContentsKnown, AsRead
    <3>2. Fingerprint(y, disk)
      BY <2>1, <3>1 DEF Fingerprint
    <3>3. Using(y)
      BY <1>3, <2>1 DEF RunInv, Undisturbed, Using, Working, Asking, Fingerprinting
    <3> QED
      BY <3>2, <3>3 DEF Undisturbed
  <2> QED
    BY <2>2, <2>4, <2>5, <2>6 DEF RunInv
<1>9. PICK z : z = [me EXCEPT !.todo = @ \ {f}, !.failed = @ \cup {f}]
  OBVIOUS
<1>10. RunInv(z, disk)
  <2>1. /\ z.pc = "read" /\ z.todo = me.todo \ {f} /\ Continues(z, me) /\ z.anchors = me.anchors
        /\ z.used = me.used /\ z.files = me.files /\ z.failed = me.failed \cup {f}
    BY <1>3, <1>9 DEF Shape, Continues
  <2>2. Shape(z)
    BY <1>3, <1>9 DEF Shape, Pcs, Working, Fingerprinting, Asking
  <2>3. Divided(z) /\ Recorded(z) /\ Keyed(z)
    BY <1>3, <1>4, <2>1 DEF RunInv, Divided, Recorded, Keyed, Continues, Apart, Fingerprinting
  <2>4. Undisturbed(z, disk)
    BY <1>3, <2>1, SessionGoesOn DEF RunInv, Continues, Asking
  <2> QED
    BY <2>2, <2>3, <2>4 DEF RunInv
<1> QED
  BY <1>2, <1>5, <1>6, <1>7, <1>8, <1>9, <1>10, GoInv

LEMMA NothingReadInv == ASSUME IInv, NEW r \in Runs, NothingRead(r) PROVE IInv'
<1>1. PICK me : me = run[r]
  OBVIOUS
<1>2. me.pc = "read" /\ me.todo = {} /\ DOMAIN me.sources = {} /\ Go(r, Without(me.failed, me))
  BY <1>1 DEF NothingRead
<1>3. RunInv(me, disk)
  BY <1>1 DEF IInv
<1>4. PICK failed : failed = me.failed
  OBVIOUS
<1>5. failed = me.changed
  BY <1>2, <1>3, <1>4 DEF RunInv, Divided, Fingerprinting
<1>6. RunInv(Without(failed, me), disk)
  BY <1>3, <1>5, WithoutInv
<1> QED
  BY <1>2, <1>4, <1>6, GoInv

\* An anchor is one of the listed libraries, and so an input of the fingerprint.
LEMMA AnchorsAreInputs ==
    ASSUME NEW small \in SUBSET Listed, NEW changed, NEW limit, NEW a \in Anchors(small, changed, limit)
    PROVE  a[2] \in OwnInputs
<1>1. PICK p, f : f \in AnchorOf(p, small, changed) /\ a[2] = f
  BY DEF Anchors
<1> DEFINE libs == {g \in small \ changed : g \in DOMAIN Library /\ IsPrefix(Pkg[p].dir \o <<"lib">>, Dir[g])}
           best == {g \in libs : \A h \in libs :
                      \/ Library[g] < Library[h]
                      \/ Library[g] = Library[h] /\ Len(Dir[g]) <= Len(Dir[h])}
<1>2. f \in IF best = {} THEN {} ELSE {CHOOSE g \in best : TRUE}
  BY <1>1 DEF AnchorOf
<1>3. best \subseteq Listed \cap DOMAIN Library
  OBVIOUS
<1> HIDE DEF best
<1>4. f \in best
  BY <1>2
<1> QED
  BY <1>1, <1>3, <1>4, LibraryAssumption DEF OwnInputs

LEMMA FindAnchorsInv == ASSUME IInv, NEW r \in Runs, FindAnchors(r) PROVE IInv'
<1>1. PICK me : me = run[r]
  OBVIOUS
<1>2. PICK small \in SUBSET Listed : small = {f \in Listed : Size(f, disk[f]) <= lim.anchorFile}
  OBVIOUS
<1>3. PICK todo : todo = IF me.late THEN {} ELSE Anchors(small, DOMAIN me.sources, lim.anchors)
  OBVIOUS
<1>4. me.pc = "read" /\ me.todo = {} /\ Go(r, [me EXCEPT !.pc = "anchors", !.bytes = 0, !.todo = todo])
  BY <1>1, <1>2, <1>3 DEF FindAnchors
<1>5. RunInv(me, disk) /\ Shape(me)
  BY <1>1 DEF IInv, RunInv
<1>6. \A a \in todo : a[2] \in OwnInputs
  BY <1>3, AnchorsAreInputs
<1>7. PICK x : x = [me EXCEPT !.pc = "anchors", !.bytes = 0, !.todo = todo]
  OBVIOUS
<1>8. /\ x.pc = "anchors" /\ x.todo = todo /\ Continues(x, me) /\ x.anchors = me.anchors
      /\ x.used = me.used /\ x.files = me.files /\ x.failed = me.failed
  BY <1>5, <1>7 DEF Shape, Continues
<1>9. Shape(x)
  BY <1>5, <1>7, <1>8 DEF Shape, Pcs, Working, Fingerprinting, Asking
<1>10. Divided(x) /\ Recorded(x) /\ Keyed(x)
  BY <1>4, <1>5, <1>6, <1>8 DEF RunInv, Divided, Recorded, Keyed, Continues, Apart, Working, Pcs, Fingerprinting, Asking
<1>11. Undisturbed(x, disk)
  BY <1>4, <1>5, <1>8, SessionGoesOn DEF RunInv, Continues, Asking
<1>12. RunInv(x, disk)
  BY <1>9, <1>10, <1>11 DEF RunInv
<1> QED
  BY <1>4, <1>7, <1>12, GoInv

LEMMA ReadAnchorInv == ASSUME IInv, NEW r \in Runs, ReadAnchor(r) PROVE IInv'
<1>1. PICK me : me = run[r]
  OBVIOUS
<1>2. PICK a \in me.todo :
        \/ Go(r, [me EXCEPT !.todo = @ \ {a}])
        \/ Go(r, [me EXCEPT !.todo = @ \ {a}, !.anchors = With(@, a[2]), !.bytes = @ + Size(a[2], disk[a[2]])])
  BY <1>1 DEF ReadAnchor
<1> DEFINE f == a[2]
<1>3. me.pc = "anchors" /\ RunInv(me, disk) /\ Shape(me)
  BY <1>1 DEF ReadAnchor, IInv, RunInv
<1>4. f \in OwnInputs
  BY <1>2, <1>3 DEF RunInv, Divided, Fingerprinting
<1>5. PICK x : x = [me EXCEPT !.todo = @ \ {a}]
  OBVIOUS
<1>6. RunInv(x, disk)
  <2>1. /\ x.pc = "anchors" /\ x.todo = me.todo \ {a} /\ Continues(x, me) /\ x.anchors = me.anchors
        /\ x.used = me.used /\ x.files = me.files /\ x.failed = me.failed
    BY <1>3, <1>5 DEF Shape, Continues
  <2>2. Shape(x)
    BY <1>3, <1>5, <2>1 DEF Shape
  <2>3. Divided(x) /\ Recorded(x) /\ Keyed(x)
    BY <1>3, <2>1 DEF RunInv, Divided, Recorded, Keyed, Continues, Fingerprinting
  <2>4. Undisturbed(x, disk)
    BY <1>3, <2>1, SessionGoesOn DEF RunInv, Continues, Asking
  <2> QED
    BY <2>2, <2>3, <2>4 DEF RunInv
<1>7. PICK y : y = [me EXCEPT !.todo = @ \ {a}, !.anchors = With(@, f), !.bytes = @ + Size(f, disk[f])]
  OBVIOUS
<1>8. RunInv(y, disk)
  <2>1. /\ y.pc = "anchors" /\ y.todo = me.todo \ {a} /\ Continues(y, me) /\ y.anchors = With(me.anchors, f)
        /\ y.used = me.used /\ y.files = me.files /\ y.failed = me.failed
    BY <1>3, <1>7 DEF Shape, Continues
  <2>2. Shape(y)
    BY <1>3, <1>7, <2>1 DEF Shape
  <2>3. /\ DOMAIN y.anchors = DOMAIN me.anchors \cup {f}
        /\ y.anchors[f] = disk[f] /\ \A g \in DOMAIN me.anchors \ {f} : y.anchors[g] = me.anchors[g]
    BY <2>1 DEF With
  <2>4. Divided(y) /\ Recorded(y) /\ Keyed(y)
    BY <1>3, <1>4, <2>1, <2>3 DEF RunInv, Divided, Recorded, Keyed, Continues, Fingerprinting
  <2>5. Undisturbed(y, disk)
    <3>1. ASSUME y.key # NoKey PROVE Complete(y, disk)
      <4>1. Complete(me, disk)
        BY <1>3, <2>1, <3>1 DEF RunInv, Undisturbed, Fingerprint, Asking, Continues
      <4>2. AsRead(y.anchors, y, disk)
        BY <2>1, <2>3, <4>1 DEF Complete, AsRead, Continues
      <4> QED
        BY <2>1, <4>1, <4>2 DEF Complete, Covers, IncludesKnown, PackagesKnown, ContentsKnown, AsRead, Continues
    <3>2. Fingerprint(y, disk)
      BY <2>1, <3>1 DEF Fingerprint
    <3>3. Using(y)
      BY <1>3, <2>1 DEF RunInv, Undisturbed, Using, Working, Asking, Continues, Fingerprinting
    <3> QED
      BY <3>2, <3>3 DEF Undisturbed
  <2> QED
    BY <2>2, <2>4, <2>5 DEF RunInv
<1> QED
  BY <1>2, <1>5, <1>6, <1>7, <1>8, GoInv

LEMMA PrepareInv == ASSUME IInv, NEW r \in Runs, Prepare(r) PROVE IInv'
<1>1. PICK me : me = run[r]
  OBVIOUS
<1>2. PICK unclear \in BOOLEAN :
        Go(r, IF me.late THEN Without(me.changed, me) ELSE [me EXCEPT !.pc = "launch", !.doubt = unclear])
  BY <1>1 DEF Prepare
<1>3. me.pc = "anchors" /\ RunInv(me, disk) /\ Shape(me)
  BY <1>1 DEF Prepare, IInv, RunInv
<1>4. RunInv(Without(me.changed, me), disk)
  BY <1>3, WithoutInv
<1>5. PICK x : x = [me EXCEPT !.pc = "launch", !.doubt = unclear]
  OBVIOUS
<1>6. /\ x.pc = "launch" /\ Continues(x, me) /\ x.anchors = me.anchors
      /\ x.used = me.used /\ x.files = me.files /\ x.failed = me.failed
  BY <1>3, <1>5 DEF Shape, Continues
<1>7. Shape(x)
  BY <1>3, <1>5, <1>6 DEF Shape, Pcs, Working, Fingerprinting, Asking
<1>8. Divided(x) /\ Recorded(x) /\ Keyed(x)
  BY <1>3, <1>6 DEF RunInv, Divided, Recorded, Keyed, Continues, Working, Pcs, Fingerprinting, Asking
<1>9. Undisturbed(x, disk)
  BY <1>3, <1>6, SessionGoesOn DEF RunInv, Continues, Asking
<1>10. RunInv(x, disk)
  BY <1>7, <1>8, <1>9 DEF RunInv
<1> QED
  BY <1>2, <1>4, <1>5, <1>10, GoInv

---------------------------------------------------------------------------------------
(* The session.                                                                     *)

LEMMA LaunchInv == ASSUME IInv, NEW r \in Runs, Launch(r) PROVE IInv'
<1>1. PICK me : me = run[r]
  OBVIOUS
<1>2. \/ Go(r, [Idle EXCEPT !.pc = "raised"])
      \/ Go(r, [me EXCEPT !.pc = "sync", !.todo = DOMAIN me.sources])
  BY <1>1 DEF Launch
<1>3. me.pc = "launch" /\ RunInv(me, disk) /\ Shape(me)
  BY <1>1 DEF Launch, IInv, RunInv
<1>4. RunInv([Idle EXCEPT !.pc = "raised"], disk)
  BY RaisedInv
<1>5. PICK x : x = [me EXCEPT !.pc = "sync", !.todo = DOMAIN me.sources]
  OBVIOUS
<1>6. /\ x.pc = "sync" /\ x.todo = DOMAIN me.sources /\ Continues(x, me) /\ x.anchors = me.anchors
      /\ x.used = me.used /\ x.files = me.files /\ x.failed = me.failed
  BY <1>3, <1>5 DEF Shape, Continues
<1>7. Shape(x)
  BY <1>3, <1>5, <1>6 DEF Shape, Pcs, Working, Fingerprinting, Asking
<1>8. Divided(x) /\ Recorded(x) /\ Keyed(x)
  BY <1>3, <1>6 DEF RunInv, Divided, Recorded, Keyed, Continues, Working, Pcs, Fingerprinting, Asking
<1>9. Undisturbed(x, disk)
  BY <1>3, <1>6, SessionGoesOn DEF RunInv, Continues, Asking
<1>10. RunInv(x, disk)
  BY <1>7, <1>8, <1>9 DEF RunInv
<1> QED
  BY <1>2, <1>4, <1>5, <1>10, GoInv

\* What the server finds by itself through the options of the moment has been followed by
\* the fingerprint, unless an options file was edited since or lies in an ignored directory.
LEMMA ReachedIsFollowed ==
    ASSUME NEW x, NEW d, IncludesKnown(x, d, {}), Leading \cap (x.disturbed \cup Ignored) = {}
    PROVE  Reached(d) \subseteq x.followed
<1> DEFINE T == x.followed \cap Options
<1>1. T \in SUBSET Options
  OBVIOUS
<1>2. InWorkspace \cap OptionsFiles \subseteq T
  BY DEF InWorkspace, OwnInputs, IncludesKnown, Leading, Options
<1>3. ASSUME NEW g \in T, Include(d, g) \in Options PROVE Include(d, g) \in T
  <2>1. g \notin x.disturbed /\ Include(d, g) # "none"
    BY <1>3, FilesAssumption DEF Leading, Options
  <2> QED
    BY <1>3, <2>1 DEF IncludesKnown
<1> HIDE DEF T
<1>4. Reached(d) \subseteq T
  BY <1>1, <1>2, <1>3 DEF Reached
<1> QED
  BY <1>4 DEF T

\* So is everything else the server reads by itself covered by the key.
LEMMA CoversWhatIsRead ==
    ASSUME NEW x, Complete(x, disk), Leading \cap (x.disturbed \cup Ignored) = {},
           NEW f \in ServerReads(disk) \ Ignored
    PROVE  f \in DOMAIN x.key.content
<1> SUFFICES ASSUME f \notin DOMAIN x.key.content PROVE FALSE
  OBVIOUS
<1>1. DOMAIN x.key.content = x.covered \cup CommandFiles /\ OwnInputs \subseteq x.covered
  BY DEF Complete, ContentsKnown, Covers
<1>2. f \notin OwnInputs /\ f \notin CommandFiles /\ f \notin InWorkspace
  BY <1>1 DEF OwnInputs, InWorkspace
<1>3. f \notin Reached(disk)
  BY <1>1, ReachedIsFollowed DEF Complete, IncludesKnown
<1>4. ASSUME NEW g \in InWorkspace \cap Configs, Escapes(g, disk[g]) PROVE FALSE
  <2>1. g \in OwnInputs \cap Configs /\ g \notin x.disturbed
    BY DEF InWorkspace, OwnInputs, Leading
  <2> QED
    BY <1>4, <2>1 DEF Complete, PackagesKnown
<1> QED
  BY <1>2, <1>3, <1>4 DEF ServerReads

\* What the server sees of the files rests on the key, whatever was edited since they were
\* hashed, as long as the edits are known.
LEMMA SeenRests ==
    ASSUME NEW me, Complete(me, disk), DOMAIN me.sources \cup DOMAIN me.anchors \subseteq OwnInputs,
           RestsOn(me.used, me.disturbed, me.key.content)
    PROVE  RestsOn(Seen(me), me.disturbed, me.key.content)
<1>1. PICK c : c = me.key.content
  OBVIOUS
<1>2. /\ DOMAIN c = me.covered \cup CommandFiles /\ OwnInputs \subseteq me.covered
      /\ \A f \in DOMAIN c \ me.disturbed : c[f] = disk[f]
  BY <1>1 DEF Complete, ContentsKnown, Covers
<1> DEFINE Rests(f, v) ==
      \/ f \in DOMAIN c /\ v = c[f]
      \/ f \in me.disturbed
      \/ f \notin DOMAIN c /\ (f \in Ignored \/ Leading \cap (me.disturbed \cup Ignored) # {})
<1>3. ASSUME NEW f \in DOMAIN Opened(me) PROVE Rests(f, Opened(me)[f])
  <2>1. f \in DOMAIN me.sources \cup DOMAIN me.anchors
    BY DEF Opened
  <2>2. f \in DOMAIN c
    BY <1>2, <2>1
  <2>3. ASSUME f \notin me.disturbed PROVE Opened(me)[f] = disk[f]
    BY <2>1, <2>3 DEF Opened, Complete, AsRead
  <2> QED
    BY <1>2, <2>2, <2>3
<1>4. ASSUME NEW f \in ServerReads(disk) PROVE Rests(f, disk[f])
  <2>1. CASE f \in DOMAIN c
    BY <1>2, <2>1
  <2>2. CASE f \notin DOMAIN c
    BY <1>1, <2>2, CoversWhatIsRead
  <2> QED
    BY <2>1, <2>2
<1>5. ASSUME NEW u \in Seen(me) PROVE Rests(u[1], u[2])
  <2>1. CASE u \in me.used
    BY <1>1, <2>1 DEF RestsOn
  <2>2. CASE u \in Graph(Opened(me))
    <3>1. PICK f \in DOMAIN Opened(me) : u = <<f, Opened(me)[f]>>
      BY <2>2 DEF Graph
    <3> QED
      BY <1>3, <3>1
  <2>3. CASE u \in Disk(ServerReads(disk) \ DOMAIN Opened(me))
    <3>1. PICK f \in ServerReads(disk) : u = <<f, disk[f]>>
      BY <2>3 DEF Disk
    <3> QED
      BY <1>4, <3>1
  <2> QED
    BY <2>1, <2>2, <2>3 DEF Seen
<1> QED
  BY <1>1, <1>5 DEF RestsOn

\* The same of a run at work.
LEMMA SeenKept ==
    ASSUME NEW me, RunInv(me, disk), me.pc \in {"sync", "analyze"}
    PROVE  me.key # NoKey => RestsOn(Seen(me), me.disturbed, me.key.content)
<1> SUFFICES ASSUME me.key # NoKey PROVE RestsOn(Seen(me), me.disturbed, me.key.content)
  OBVIOUS
<1>1. Complete(me, disk) /\ RestsOn(me.used, me.disturbed, me.key.content)
  BY DEF RunInv, Undisturbed, Fingerprint, Using, Working, Asking, Fingerprinting
<1>2. DOMAIN me.sources \cup DOMAIN me.anchors \subseteq OwnInputs
  BY DEF RunInv, Divided, Fingerprinting
<1> QED
  BY <1>1, <1>2, SeenRests

LEMMA SynchronizeInv == ASSUME IInv, NEW r \in Runs, Synchronize(r) PROVE IInv'
<1>1. PICK me : me = run[r]
  OBVIOUS
<1>2. PICK doubt \in BOOLEAN :
        \/ Go(r, [Idle EXCEPT !.pc = "raised"])
        \/ Go(r, [me EXCEPT !.pc = "analyze", !.doubt = doubt, !.used = Seen(me)])
  <2>1. me.doubt \in BOOLEAN
    BY <1>1 DEF IInv, RunInv, Shape
  <2> QED
    BY <1>1, <2>1 DEF Synchronize
<1>3. me.pc = "sync" /\ RunInv(me, disk) /\ Shape(me)
  BY <1>1 DEF Synchronize, IInv, RunInv
<1>4. RunInv([Idle EXCEPT !.pc = "raised"], disk)
  BY RaisedInv
<1>5. PICK x : x = [me EXCEPT !.pc = "analyze", !.doubt = doubt, !.used = Seen(me)]
  OBVIOUS
<1>6. /\ x.pc = "analyze" /\ x.todo = me.todo /\ Continues(x, me) /\ x.anchors = me.anchors
      /\ x.used = Seen(me) /\ x.files = me.files /\ x.failed = me.failed
  BY <1>3, <1>5 DEF Shape, Continues
<1>7. Shape(x)
  BY <1>3, <1>5, <1>6, ZenonT(60) DEF Shape, Pcs, Working, Fingerprinting, Asking
<1>8. Divided(x) /\ Recorded(x) /\ Keyed(x)
  BY <1>3, <1>6 DEF RunInv, Divided, Recorded, Keyed, Continues, Working, Pcs, Apart, Fingerprinting, Asking
<1>9. Undisturbed(x, disk)
  <2>1. x.key # NoKey => RestsOn(x.used, x.disturbed, x.key.content)
    BY <1>3, <1>6, SeenKept DEF Continues
  <2> QED
    BY <1>3, <1>6, <2>1, SessionGoesOn DEF RunInv, Asking
<1>10. RunInv(x, disk)
  BY <1>7, <1>8, <1>9 DEF RunInv
<1> QED
  BY <1>2, <1>4, <1>5, <1>10, GoInv

\* A step of the analysis that decides a file, or several, or none.
LEMMA AnalysisGoesOn ==
    ASSUME IInv, NEW r \in Runs, NEW me, me = run[r], me.pc = "analyze",
           NEW x, Go(r, x), Shape(x), x.pc = "analyze", Continues(x, me), x.anchors = me.anchors,
           x.used = me.used \/ x.used = Seen(me),
           x.todo \cup x.files \cup x.failed = x.changed,
           Apart(x.todo, x.files \cup x.failed), Apart(x.files, x.failed)
    PROVE  IInv'
<1>1. RunInv(me, disk)
  BY DEF IInv
<1>2. Divided(x)
  BY <1>1 DEF RunInv, Divided, Continues, Fingerprinting
<1>3. Recorded(x) /\ Keyed(x)
  BY <1>1 DEF RunInv, Recorded, Keyed, Continues, Working, Pcs, Fingerprinting, Asking
<1>4. Undisturbed(x, disk)
  <2>1. x.used = me.used \/ (x.key # NoKey => RestsOn(x.used, x.disturbed, x.key.content))
    BY <1>1, SeenKept DEF Continues
  <2> QED
    BY <1>1, <2>1, SessionGoesOn DEF RunInv, Asking
<1> QED
  BY <1>2, <1>3, <1>4, GoInv DEF RunInv

LEMMA AnalyzeTooLateInv == ASSUME IInv, NEW r \in Runs, AnalyzeTooLate(r) PROVE IInv'
<1>1. PICK me : me = run[r]
  OBVIOUS
<1>2. PICK x : x = [me EXCEPT !.todo = {}, !.failed = @ \cup (me.changed \ me.files)]
  OBVIOUS
<1>3. me.pc = "analyze" /\ Go(r, x) /\ RunInv(me, disk) /\ Shape(me)
  BY <1>1, <1>2 DEF AnalyzeTooLate, Analyzing, IInv, RunInv
<1>4. /\ x.pc = "analyze" /\ x.todo = {} /\ Continues(x, me) /\ x.anchors = me.anchors
      /\ x.used = me.used /\ x.files = me.files /\ x.failed = me.failed \cup (me.changed \ me.files)
  BY <1>2, <1>3 DEF Shape, Continues
<1>5. Shape(x)
  BY <1>2, <1>3, <1>4 DEF Shape
<1>6. /\ x.todo \cup x.files \cup x.failed = x.changed
      /\ Apart(x.todo, x.files \cup x.failed) /\ Apart(x.files, x.failed)
  BY <1>3, <1>4 DEF RunInv, Divided, Apart, Continues, Fingerprinting
<1> QED
  BY <1>1, <1>3, <1>4, <1>5, <1>6, AnalysisGoesOn

LEMMA AnalyzeFileInv == ASSUME IInv, NEW r \in Runs, AnalyzeFile(r) PROVE IInv'
<1>1. PICK me : me = run[r]
  OBVIOUS
<1>2. PICK f \in Turn(me.todo), slow \in BOOLEAN, limited \in BOOLEAN :
        Go(r, [me EXCEPT !.todo = @ \ {f}, !.tries = 0, !.files = @ \cup {f},
                         !.unsure = Enriched(me, f, slow, limited), !.used = Seen(me)])
  BY <1>1 DEF AnalyzeFile
<1>3. PICK x : x = [me EXCEPT !.todo = @ \ {f}, !.tries = 0, !.files = @ \cup {f},
                              !.unsure = Enriched(me, f, slow, limited), !.used = Seen(me)]
  OBVIOUS
<1>4. me.pc = "analyze" /\ Go(r, x) /\ RunInv(me, disk) /\ Shape(me) /\ f \in me.todo
  BY <1>1, <1>2, <1>3 DEF AnalyzeFile, Analyzing, IInv, RunInv, Turn
<1>5. /\ x.pc = "analyze" /\ x.todo = me.todo \ {f} /\ Continues(x, me) /\ x.anchors = me.anchors
      /\ x.used = Seen(me) /\ x.files = me.files \cup {f} /\ x.failed = me.failed
  BY <1>3, <1>4 DEF Shape, Continues
<1>6. Shape(x)
  BY <1>3, <1>4, <1>5 DEF Shape
<1>7. /\ x.todo \cup x.files \cup x.failed = x.changed
      /\ Apart(x.todo, x.files \cup x.failed) /\ Apart(x.files, x.failed)
  BY <1>4, <1>5 DEF RunInv, Divided, Apart, Continues, Fingerprinting
<1> QED
  BY <1>1, <1>4, <1>5, <1>6, <1>7, AnalysisGoesOn

\* The file whose turn it is fails.
LEMMA FileFails ==
    ASSUME IInv, NEW r \in Runs, NEW me, me = run[r], me.pc = "analyze", NEW f \in me.todo, NEW up \in BOOLEAN,
           NEW x, x = [me EXCEPT !.todo = @ \ {f}, !.tries = 0, !.failed = @ \cup {f}, !.up = up], Go(r, x)
    PROVE  IInv'
<1>1. RunInv(me, disk) /\ Shape(me)
  BY DEF IInv, RunInv
<1>2. /\ x.pc = "analyze" /\ x.todo = me.todo \ {f} /\ Continues(x, me) /\ x.anchors = me.anchors
      /\ x.used = me.used /\ x.files = me.files /\ x.failed = me.failed \cup {f}
  BY <1>1 DEF Shape, Continues
<1>3. Shape(x)
  BY <1>1, <1>2, ZenonT(60) DEF Shape
<1>4. /\ x.todo \cup x.files \cup x.failed = x.changed
      /\ Apart(x.todo, x.files \cup x.failed) /\ Apart(x.files, x.failed)
  BY <1>1, <1>2 DEF RunInv, Divided, Apart, Continues, Fingerprinting
<1> QED
  BY <1>2, <1>3, <1>4, AnalysisGoesOn

LEMMA ActivationRaceInv == ASSUME IInv, NEW r \in Runs, ActivationRace(r) PROVE IInv'
<1>1. PICK me : me = run[r]
  OBVIOUS
<1>2. PICK f \in Turn(me.todo) :
        Go(r, IF me.tries < Delays THEN [me EXCEPT !.tries = @ + 1]
              ELSE [me EXCEPT !.tries = 0, !.todo = @ \ {f}, !.failed = @ \cup {f}])
  BY <1>1 DEF ActivationRace
<1>3. me.pc = "analyze" /\ RunInv(me, disk) /\ Shape(me) /\ f \in me.todo
  BY <1>1, <1>2 DEF ActivationRace, Analyzing, IInv, RunInv, Turn
<1>4. PICK x : x = [me EXCEPT !.tries = @ + 1]
  OBVIOUS
<1>5. ASSUME Go(r, x) PROVE IInv'
  <2>1. /\ x.pc = "analyze" /\ x.todo = me.todo /\ Continues(x, me) /\ x.anchors = me.anchors
        /\ x.used = me.used /\ x.files = me.files /\ x.failed = me.failed
    BY <1>3, <1>4 DEF Shape, Continues
  <2>2. Shape(x)
    BY <1>3, <1>4, <2>1 DEF Shape
  <2>3. /\ x.todo \cup x.files \cup x.failed = x.changed
        /\ Apart(x.todo, x.files \cup x.failed) /\ Apart(x.files, x.failed)
    BY <1>3, <2>1 DEF RunInv, Divided, Apart, Continues, Fingerprinting
  <2> QED
    BY <1>1, <1>3, <1>5, <2>1, <2>2, <2>3, AnalysisGoesOn
<1>6. PICK up \in BOOLEAN : up = me.up
  BY <1>3 DEF Shape
<1>7. PICK y : y = [me EXCEPT !.todo = @ \ {f}, !.tries = 0, !.failed = @ \cup {f}, !.up = up]
  OBVIOUS
<1>8. y = [me EXCEPT !.tries = 0, !.todo = @ \ {f}, !.failed = @ \cup {f}]
  BY <1>3, <1>6, <1>7 DEF Shape
<1>9. ASSUME Go(r, y) PROVE IInv'
  <2>1. f \in me.todo /\ up \in BOOLEAN
    BY <1>3, <1>6
  <2> QED
    BY <1>1, <1>3, <1>7, <1>9, <2>1, FileFails
<1>10. CASE me.tries < Delays
  BY <1>2, <1>4, <1>5, <1>10
<1>11. CASE ~(me.tries < Delays)
  BY <1>2, <1>8, <1>9, <1>11
<1> QED
  BY <1>10, <1>11

LEMMA AnalyzeFailsInv == ASSUME IInv, NEW r \in Runs, AnalyzeFails(r) PROVE IInv'
<1>1. PICK me : me = run[r]
  OBVIOUS
<1>2. me.pc = "analyze" /\ Shape(me)
  BY <1>1 DEF AnalyzeFails, Analyzing, IInv, RunInv
<1>3. me.up \in BOOLEAN
  BY <1>2 DEF Shape
<1>4. PICK f \in me.todo, up \in BOOLEAN :
        Go(r, [me EXCEPT !.todo = @ \ {f}, !.tries = 0, !.failed = @ \cup {f}, !.up = up])
  BY <1>1, <1>3 DEF AnalyzeFails, Turn
<1> QED
  BY <1>1, <1>2, <1>4, FileFails

LEMMA FinalizeInv == ASSUME IInv, NEW r \in Runs, Finalize(r) PROVE IInv'
<1>1. PICK me : me = run[r]
  OBVIOUS
<1>2. me.pc = "analyze" /\ me.todo = {} /\ RunInv(me, disk) /\ Shape(me)
  BY <1>1 DEF Finalize, IInv, RunInv
<1>3. PICK doubt \in BOOLEAN :
        /\ Go(r, [me EXCEPT !.pc = "reconcile", !.doubt = doubt, !.todo = me.files])
        /\ me.up \/ doubt
  <2>1. me.doubt \in BOOLEAN /\ me.late \in BOOLEAN /\ me.up \in BOOLEAN
    BY <1>2 DEF Shape
  <2>2. PICK refused \in BOOLEAN :
          Go(r, [me EXCEPT !.pc = "reconcile", !.doubt = @ \/ refused \/ me.late \/ ~me.up, !.todo = me.files])
    BY <1>1 DEF Finalize
  <2>3. PICK doubt \in BOOLEAN : doubt = (me.doubt \/ refused \/ me.late \/ ~me.up)
    BY <2>1
  <2>4. [me EXCEPT !.pc = "reconcile", !.doubt = @ \/ refused \/ me.late \/ ~me.up, !.todo = me.files] =
          [me EXCEPT !.pc = "reconcile", !.doubt = doubt, !.todo = me.files]
    BY <1>2, <2>3 DEF Shape
  <2> QED
    BY <2>1, <2>2, <2>3, <2>4
<1>4. PICK x : x = [me EXCEPT !.pc = "reconcile", !.doubt = doubt, !.todo = me.files]
  OBVIOUS
<1>5. /\ x.pc = "reconcile" /\ Continues(x, me) /\ x.anchors = me.anchors /\ x.up = me.up /\ x.doubt = doubt
      /\ x.used = me.used /\ x.files = me.files /\ x.failed = me.failed
  BY <1>2, <1>4 DEF Shape, Continues
<1>6. Shape(x)
  BY <1>2, <1>4, <1>5, ZenonT(60) DEF Shape, Pcs, Working, Fingerprinting, Asking
<1>7. Divided(x) /\ Keyed(x)
  BY <1>2, <1>5 DEF RunInv, Divided, Keyed, Continues, Working, Pcs, Apart, Fingerprinting, Asking
<1>8. Recorded(x)
  BY <1>3, <1>5 DEF Recorded
<1>9. Undisturbed(x, disk)
  BY <1>2, <1>5, SessionGoesOn DEF RunInv, Continues, Asking
<1>10. RunInv(x, disk)
  BY <1>6, <1>7, <1>8, <1>9 DEF RunInv
<1> QED
  BY <1>3, <1>4, <1>10, GoInv

LEMMA ReconcileInv == ASSUME IInv, NEW r \in Runs, Reconcile(r) PROVE IInv'
<1>1. PICK me : me = run[r]
  OBVIOUS
<1>2. me.pc = "reconcile" /\ RunInv(me, disk) /\ Shape(me)
  BY <1>1 DEF Reconcile, IInv, RunInv
<1>3. PICK todo, unsure : Go(r, [me EXCEPT !.todo = todo, !.unsure = unsure])
  BY <1>1 DEF Reconcile
<1>4. PICK x : x = [me EXCEPT !.todo = todo, !.unsure = unsure]
  OBVIOUS
<1>5. /\ x.pc = "reconcile" /\ Continues(x, me) /\ x.anchors = me.anchors /\ x.up = me.up /\ x.doubt = me.doubt
      /\ x.used = me.used /\ x.files = me.files /\ x.failed = me.failed
  BY <1>2, <1>4 DEF Shape, Continues
<1>6. Shape(x)
  BY <1>2, <1>4, <1>5 DEF Shape
<1>7. Divided(x) /\ Recorded(x) /\ Keyed(x)
  BY <1>2, <1>5 DEF RunInv, Divided, Recorded, Keyed, Continues, Fingerprinting
<1>8. Undisturbed(x, disk)
  BY <1>2, <1>5, SessionGoesOn DEF RunInv, Continues, Asking
<1>9. RunInv(x, disk)
  BY <1>6, <1>7, <1>8 DEF RunInv
<1> QED
  BY <1>3, <1>4, <1>9, GoInv

LEMMA ConcludeInv == ASSUME IInv, NEW r \in Runs, Conclude(r) PROVE IInv'
<1>1. PICK me : me = run[r]
  OBVIOUS
<1>2. me.pc = "reconcile" /\ RunInv(me, disk) /\ Shape(me)
  BY <1>1 DEF Conclude, IInv, RunInv
<1>3. PICK lost \in BOOLEAN :
        Go(r, [me EXCEPT !.pc = "write", !.doubt = @ \/ lost,
                !.result = [files |-> me.files, failed |-> me.failed, changed |-> me.changed,
                            partial |-> Partial(me, me.doubt \/ lost), used |-> me.used, disturbed |-> {}]])
  BY <1>1 DEF Conclude
<1>4. PICK result : result = [files |-> me.files, failed |-> me.failed, changed |-> me.changed,
                              partial |-> Partial(me, me.doubt \/ lost), used |-> me.used, disturbed |-> {}]
  OBVIOUS
<1>5. PICK x : x = [me EXCEPT !.pc = "write", !.doubt = @ \/ lost, !.result = result]
  OBVIOUS
<1>6. /\ x.pc = "write" /\ Continues(x, me) /\ x.anchors = me.anchors /\ x.up = me.up
      /\ x.doubt = (me.doubt \/ lost) /\ x.unsure = me.unsure /\ x.result = result /\ x.used = me.used
  BY <1>2, <1>5 DEF Shape, Continues
<1>7. Shape(x)
  BY <1>2, <1>5, <1>6, ZenonT(60) DEF Shape, Pcs, Working, Fingerprinting, Asking
<1>8. Divided(x) /\ Keyed(x)
  BY <1>2, <1>6 DEF RunInv, Divided, Keyed, Continues, Working, Pcs, Fingerprinting, Asking
<1>9. Recorded(x)
  <2>1. /\ result.files = me.files /\ result.failed = me.failed /\ result.changed = me.changed
        /\ result.partial = Partial(me, me.doubt \/ lost)
    BY <1>4
  <2>2. me.up \in BOOLEAN /\ me.doubt \in BOOLEAN
    BY <1>2 DEF Shape
  <2>3. ~result.partial => result.failed = {} /\ x.up /\ ~x.doubt /\ x.unsure = {}
    BY <1>2, <1>6, <2>1, <2>2 DEF Partial, RunInv, Recorded
  <2>4. result \in [files : {result.files}, failed : {result.failed}, partial : {result.partial},
                    changed : {result.changed}, used : {result.used}, disturbed : {result.disturbed}]
    BY <1>4
  <2>5. result.files \cup result.failed = x.changed /\ Apart(result.files, result.failed) /\ result.changed = x.changed
    BY <1>2, <1>6, <2>1 DEF RunInv, Divided, Continues, Fingerprinting
  <2> QED
    BY <1>6, <2>3, <2>4, <2>5 DEF Recorded
<1>10. Undisturbed(x, disk)
  <2>1. result.used = me.used
    BY <1>4
  <2> QED
    BY <1>2, <1>6, <2>1 DEF RunInv, Undisturbed, Fingerprint, Using, Continues, Working, Asking, Fingerprinting
<1>11. RunInv(x, disk)
  BY <1>7, <1>8, <1>9, <1>10 DEF RunInv
<1> QED
  BY <1>3, <1>4, <1>5, <1>11, GoInv

\* What is stored rests on what its key covers, unless a file was edited in between.
LEMMA WriteCacheInv == ASSUME IInv, NEW r \in Runs, WriteCache(r) PROVE IInv'
<1>1. PICK me : me = run[r]
  OBVIOUS
<1>2. me.pc = "write" /\ RunInv(me, disk) /\ Shape(me)
  BY <1>1 DEF WriteCache, IInv, RunInv
<1>3. PICK x : x = [Idle EXCEPT !.pc = "done", !.changed = me.changed, !.result = [me.result EXCEPT !.used = {}],
                                !.doubt = me.doubt, !.unsure = me.unsure, !.up = me.up]
  OBVIOUS
<1>4. /\ run' = [run EXCEPT ![r] = x] /\ disk' = disk /\ lim' = lim
  BY <1>1, <1>3 DEF WriteCache
<1>5. PICK result : result = [me.result EXCEPT !.used = {}]
  OBVIOUS
<1>6. x = [pc |-> "done", late |-> FALSE, cached |-> FALSE, refresh |-> FALSE,
           changed |-> me.changed, todo |-> {}, covered |-> {}, followed |-> {}, checked |-> {},
           hashed |-> Nothing, key |-> NoKey, bytes |-> 0,
           sources |-> Nothing, anchors |-> Nothing, files |-> {}, failed |-> {}, unsure |-> me.unsure,
           doubt |-> me.doubt, up |-> me.up, tries |-> 0, used |-> {}, disturbed |-> {},
           hit |-> FALSE, result |-> result]
  BY <1>3, <1>5 DEF Idle
<1>7. /\ me.result \in [files : {me.result.files}, failed : {me.result.failed}, partial : {me.result.partial},
                         changed : {me.result.changed}, used : {me.result.used}, disturbed : {me.result.disturbed}]
      /\ me.result.changed = me.changed
      /\ me.result.files \cup me.result.failed = me.changed /\ Apart(me.result.files, me.result.failed)
      /\ ~me.result.partial => me.result.failed = {} /\ (me.hit \/ (me.up /\ ~me.doubt /\ me.unsure = {}))
      /\ ~me.hit
  <2>1. ~me.hit
    BY <1>2 DEF RunInv, Keyed, Fingerprinting
  <2> QED
    BY <1>2, <2>1 DEF RunInv, Recorded
<1>8. /\ result.files = me.result.files /\ result.failed = me.result.failed
      /\ result.changed = me.changed /\ result.partial = me.result.partial
  BY <1>5, <1>7
<1>9. Shape(x)
  <2>1. me.doubt \in BOOLEAN /\ me.up \in BOOLEAN
    BY <1>2 DEF Shape
  <2> QED
    BY <1>6, <2>1 DEF Shape, Pcs, Working, Fingerprinting, Asking
<1>10. Divided(x)
  <2>1. DOMAIN Nothing = {} /\ me.changed \subseteq OwnInputs
    BY <1>2 DEF Nothing, RunInv, Divided, Fingerprinting
  <2> QED
    BY <1>6, <2>1 DEF Divided, Fingerprinting
<1>11. Recorded(x)
  BY <1>6, <1>7, <1>8 DEF Recorded
<1>12. Keyed(x) /\ Undisturbed(x, disk)
  BY <1>6 DEF Keyed, Undisturbed, Fingerprint, Using, Working, Fingerprinting, Asking
<1>13. RunInv(x, disk)
  BY <1>9, <1>10, <1>11, <1>12 DEF RunInv
<1>14. cache' = cache \/ Sound(cache'.key, cache'.result)
  <2>1. PICK kept : kept = [me.result EXCEPT !.disturbed = me.disturbed]
    OBVIOUS
  <2>2. PICK entry : entry = [key |-> me.key, result |-> kept]
    OBVIOUS
  <2>3. cache' = cache \/ (cache' = entry /\ ~me.result.partial /\ me.key # NoKey)
    BY <1>1, <2>1, <2>2 DEF WriteCache
  <2>4. /\ kept.files = me.result.files /\ kept.failed = me.result.failed /\ kept.changed = me.changed
        /\ kept.partial = me.result.partial /\ kept.used = me.result.used /\ kept.disturbed = me.disturbed
    BY <1>7, <2>1
  <2>5. ASSUME ~me.result.partial, me.key # NoKey PROVE Sound(me.key, kept)
    <3>1. me.key.changed = me.changed
      BY <1>2, <2>5 DEF RunInv, Keyed, Working, Pcs, Fingerprinting, Asking
    <3>2. kept.failed = {} /\ kept.files = me.changed
      BY <1>7, <2>4, <2>5
    <3>3. RestsOn(me.result.used, me.disturbed, me.key.content)
      BY <1>2, <2>5 DEF RunInv, Undisturbed, Using, Working, Fingerprinting, Asking
    <3> QED
      BY <2>4, <2>5, <3>1, <3>2, <3>3 DEF Sound
  <2>6. entry.key = me.key /\ entry.result = kept
    BY <2>2
  <2> QED
    BY <2>3, <2>5, <2>6
<1> QED
  BY <1>4, <1>13, <1>14, RunStep

---------------------------------------------------------------------------------------
(* What happens around the runs.                                                    *)

\* An edit of a file the fingerprint has read is known, of another one it does not matter.
LEMMA FingerprintSurvives ==
    ASSUME IInv, NEW f \in Editable, Edit(f), NEW x, RunInv(x, disk), NEW y, NEW T,
           y.covered = x.covered, y.followed = x.followed, y.checked = x.checked, y.hashed = x.hashed,
           y.disturbed = x.disturbed \cup ({f} \cap Fingerprinted(x)), Covers(x)
    PROVE  /\ IncludesKnown(x, disk, T) => IncludesKnown(y, disk', T)
           /\ PackagesKnown(x, disk, T) => PackagesKnown(y, disk', T)
           /\ ContentsKnown(x, disk, T) => ContentsKnown(y, disk', T)
<1>1. \A g \in Range(Files) \ {f} : disk'[g] = disk[g]
  BY DEF Edit, IInv
<1>2. x.covered \cup CommandFiles \subseteq Range(Files)
  BY FilesAssumption DEF Covers, CommandFiles
<1>3. ASSUME IncludesKnown(x, disk, T) PROVE IncludesKnown(y, disk', T)
  BY <1>1, <1>2, <1>3 DEF IncludesKnown, Include, Fingerprinted
<1>4. ASSUME PackagesKnown(x, disk, T) PROVE PackagesKnown(y, disk', T)
  BY <1>1, <1>2, <1>4 DEF PackagesKnown, Fingerprinted
<1>5. ASSUME ContentsKnown(x, disk, T) PROVE ContentsKnown(y, disk', T)
  <2>1. DOMAIN x.hashed \subseteq Range(Files)
    BY <1>2, <1>5 DEF ContentsKnown
  <2> QED
    BY <1>1, <1>5, <2>1 DEF ContentsKnown, Fingerprinted
<1> QED
  BY <1>3, <1>4, <1>5

LEMMA CompleteSurvives ==
    ASSUME IInv, NEW f \in Editable, Edit(f), NEW x, RunInv(x, disk), NEW y, Complete(x, disk),
           y.covered = x.covered, y.followed = x.followed, y.checked = x.checked, y.hashed = x.hashed,
           y.disturbed = x.disturbed \cup ({f} \cap Fingerprinted(x)), y.key = x.key,
           y.sources = x.sources, y.anchors = x.anchors
    PROVE  Complete(y, disk')
<1>1. /\ IncludesKnown(y, disk', {}) /\ PackagesKnown(y, disk', {}) /\ ContentsKnown(y, disk', {})
      /\ Covers(y)
  BY FingerprintSurvives DEF Complete, Covers
<1>2. DOMAIN x.sources \cup DOMAIN x.anchors \subseteq DOMAIN x.hashed \cap Range(Files)
  BY DEF RunInv, Divided, Complete, Covers, ContentsKnown, Fingerprinting
<1>3. \A g \in Range(Files) \ {f} : disk'[g] = disk[g]
  BY DEF Edit, IInv
<1>4. AsRead(y.sources, y, disk') /\ AsRead(y.anchors, y, disk')
  BY <1>2, <1>3 DEF Complete, AsRead, Fingerprinted
<1> QED
  BY <1>1, <1>4 DEF Complete

\* More files that may differ excuse more.
LEMMA RestsOnMore ==
    ASSUME NEW used, NEW less, NEW more, less \subseteq more, NEW c, RestsOn(used, less, c)
    PROVE  RestsOn(used, more, c)
BY DEF RestsOn

LEMMA EditInv == ASSUME IInv, NEW f \in Editable, Edit(f) PROVE IInv'
<1>1. ASSUME NEW r \in Runs PROVE RunInv(run'[r], disk')
  <2>1. PICK me : me = run[r]
    OBVIOUS
  <2>2. RunInv(me, disk) /\ Shape(me)
    BY <2>1 DEF IInv, RunInv
  <2>3. PICK x : x = run'[r]
    OBVIOUS
  <2>4. /\ x.pc = me.pc /\ x.changed = me.changed /\ x.key = me.key /\ x.hit = me.hit /\ x.todo = me.todo
        /\ x.covered = me.covered /\ x.followed = me.followed /\ x.checked = me.checked /\ x.hashed = me.hashed
        /\ x.sources = me.sources /\ x.anchors = me.anchors /\ x.files = me.files /\ x.failed = me.failed
        /\ x.unsure = me.unsure /\ x.doubt = me.doubt /\ x.up = me.up /\ x.used = me.used
        /\ x.result = me.result /\ Shape(x) /\ me.disturbed \subseteq x.disturbed
        /\ me.pc \in Fingerprinting \cup Asking => x.disturbed = me.disturbed \cup ({f} \cap Fingerprinted(me))
    <3>1. PICK y : y = [me EXCEPT !.disturbed = @ \cup {f}]
      OBVIOUS
    <3>2. /\ y.pc = me.pc /\ y.changed = me.changed /\ y.key = me.key /\ y.hit = me.hit /\ y.todo = me.todo
          /\ y.covered = me.covered /\ y.followed = me.followed /\ y.checked = me.checked /\ y.hashed = me.hashed
          /\ y.sources = me.sources /\ y.anchors = me.anchors /\ y.files = me.files /\ y.failed = me.failed
          /\ y.unsure = me.unsure /\ y.doubt = me.doubt /\ y.up = me.up /\ y.used = me.used
          /\ y.result = me.result /\ y.disturbed = me.disturbed \cup {f}
      BY <2>2, <3>1 DEF Shape
    <3>3. Shape(y)
      BY <2>2, <3>1, <3>2, ZenonT(60) DEF Shape
    <3>4. CASE Active(r) /\ me.pc \notin {"reconcile", "write"} /\ f \in Fingerprinted(me)
      <4>1. x = y
        BY <2>1, <2>3, <3>1, <3>4 DEF Edit
      <4> QED
        BY <3>2, <3>3, <3>4, <4>1
    <3>5. CASE ~(Active(r) /\ me.pc \notin {"reconcile", "write"} /\ f \in Fingerprinted(me))
      <4>1. x = me
        BY <2>1, <2>3, <3>5 DEF Edit
      <4>2. me.pc \in Fingerprinting \cup Asking => f \notin Fingerprinted(me)
        BY <2>1, <3>5 DEF Active, Fingerprinting, Asking
      <4> QED
        BY <2>2, <4>1, <4>2
    <3> QED
      BY <3>4, <3>5
  <2>5. Divided(x) /\ Recorded(x) /\ Keyed(x)
    BY <2>2, <2>4 DEF RunInv, Divided, Recorded, Keyed, Fingerprinting
  <2>6. Fingerprint(x, disk')
    <3>1. Fingerprint(me, disk)
      BY <2>2 DEF RunInv, Undisturbed
    <3>2. CASE me.pc = "inventory"
      BY <2>4, <3>1, <3>2 DEF Fingerprint, Asking
    <3>3. CASE me.pc = "include"
      BY <2>2, <2>4, <3>1, <3>3, FingerprintSurvives DEF Fingerprint, Fingerprinting, Covers, Asking
    <3>4. CASE me.pc = "packages"
      BY <2>2, <2>4, <3>1, <3>4, FingerprintSurvives DEF Fingerprint, Fingerprinting, Covers, Asking
    <3>5. CASE me.pc = "hash"
      BY <2>2, <2>4, <3>1, <3>5, FingerprintSurvives DEF Fingerprint, Fingerprinting, Covers, Asking
    <3>6. CASE me.pc \in Asking
      <4>1. ASSUME me.key # NoKey PROVE Complete(x, disk')
        BY <2>2, <2>4, <3>1, <3>6, <4>1, CompleteSurvives DEF Fingerprint
      <4> QED
        BY <2>4, <3>6, <4>1 DEF Fingerprint, Asking
    <3>7. CASE me.pc \notin Fingerprinting \cup Asking
      BY <2>4, <3>7 DEF Fingerprint, Fingerprinting
    <3> QED
      BY <3>2, <3>3, <3>4, <3>5, <3>6, <3>7 DEF Fingerprinting
  <2>7. Using(x)
    BY <2>2, <2>4, RestsOnMore DEF RunInv, Undisturbed, Using
  <2> QED
    BY <2>3, <2>4, <2>5, <2>6, <2>7 DEF RunInv, Undisturbed
<1>2. run' = [r \in Runs |-> run'[r]] /\ cache' = cache /\ disk' \in [Range(Files) -> Versions]
  BY DEF Edit, IInv
<1> QED
  BY <1>1, <1>2 DEF IInv

LEMMA StartDartInv == ASSUME IInv, NEW r \in Runs, StartDart(r) PROVE IInv'
<1>1. PICK cached \in BOOLEAN, refresh \in BOOLEAN, changed \in Changes :
        \/ run' = [run EXCEPT ![r] = [Idle EXCEPT !.pc = "raised"]]
        \/ run' = [run EXCEPT ![r] = [Idle EXCEPT !.pc = "inventory", !.cached = cached, !.refresh = refresh,
                                                 !.changed = changed]]
  BY DEF StartDart
<1>2. disk' = disk /\ cache' = cache /\ lim' = lim
  BY DEF StartDart
<1>3. RunInv([Idle EXCEPT !.pc = "raised"], disk)
  BY RaisedInv
<1>4. PICK pc \in {"idle", "inventory", "raised"} : pc = "inventory"
  OBVIOUS
<1>5. changed \in SUBSET OwnInputs
  BY ChangesAssumption
<1>6. RunInv([Idle EXCEPT !.pc = pc, !.cached = cached, !.refresh = refresh, !.changed = changed], disk)
  BY <1>5, IdleInv
<1> QED
  BY <1>1, <1>2, <1>3, <1>4, <1>6, RunStep

LEMMA InitInv == ASSUME DartInit PROVE IInv
<1>1. PICK pc \in {"idle", "inventory", "raised"} : pc = "idle"
  OBVIOUS
<1>2. PICK x : x = [Idle EXCEPT !.pc = pc, !.cached = FALSE, !.refresh = FALSE, !.changed = {}]
  OBVIOUS
<1>3. x = Idle
  BY <1>1, <1>2 DEF Idle
<1>4. RunInv(x, disk)
  BY <1>2, IdleInv
<1> QED
  BY <1>3, <1>4, FilesAssumption DEF DartInit, IInv

LEMMA StepInv == ASSUME IInv, [DartNext]_dartVars PROVE IInv'
<1>1. ASSUME NEW f \in Editable, Edit(f) PROVE IInv'
  BY <1>1, EditInv
<1>2. ASSUME NEW r \in Runs, StartDart(r) PROVE IInv'
  BY <1>2, StartDartInv
<1>3. ASSUME NEW r \in Runs, OutOfTime(r) PROVE IInv'
  <2>1. PICK x : x = [run[r] EXCEPT !.late = TRUE]
    OBVIOUS
  <2>2. RunInv(x, disk)
    BY <2>1, ExpireInv DEF IInv
  <2> QED
    BY <1>3, <2>1, <2>2, GoInv DEF OutOfTime
<1>4. ASSUME NEW r \in Runs, Work(r) PROVE IInv'
  BY <1>4, WalkInputsInv, FollowIncludeInv, IncludesFollowedInv, CheckPackagesInv, HashCommandInv, HashInputInv,
     TakeKeyInv, LoadCacheInv, ReadChangedInv, NothingReadInv, FindAnchorsInv, ReadAnchorInv, PrepareInv,
     LaunchInv, SynchronizeInv, AnalyzeTooLateInv, AnalyzeFileInv, ActivationRaceInv, AnalyzeFailsInv,
     FinalizeInv, ReconcileInv, ConcludeInv, WriteCacheInv DEF Work
<1>5. CASE UNCHANGED dartVars
  BY <1>5 DEF dartVars, IInv
<1> QED
  BY <1>1, <1>2, <1>3, <1>4, <1>5 DEF DartNext

LEMMA Invariant == DartSpec => []IInv
<1>1. DartInit => IInv
  BY InitInv
<1>2. IInv /\ [DartNext]_dartVars => IInv'
  BY StepInv
<1> QED
  BY <1>1, <1>2, PTL DEF DartSpec

---------------------------------------------------------------------------------------
(* The theorems.                                                                    *)

\* A result served from the cache was made for the same change and is complete, and whatever
\* the server read for it, found by itself through the options and package configurations of
\* the moment included, is what the serving run has hashed, but for a file edited between its
\* hashing and the end of the session, a file in an ignored directory, and what such a file
\* led to (_analysis_fingerprint, load_dart_analysis_cache, write_dart_analysis_cache, cache.py).
THEOREM ServedResultsRest == DartSpec => []ServedRestsOnItsInputs
<1>1. IInv => ServedRestsOnItsInputs
  <2> SUFFICES ASSUME IInv, NEW r \in Runs, run[r].hit
               PROVE  /\ ~run[r].result.partial
                      /\ run[r].result.changed = run[r].changed
                      /\ run[r].result.files = run[r].changed
                      /\ RestsOn(run[r].result.used, run[r].result.disturbed, run[r].key.content)
    BY DEF ServedRestsOnItsInputs
  <2>1. Sound(run[r].key, run[r].result) /\ run[r].result.changed = run[r].changed
    BY DEF IInv, RunInv, Keyed, Fingerprinting
  <2> QED
    BY <2>1 DEF Sound
<1> QED
  BY <1>1, Invariant, PTL

\* A result tells of every changed file whether it was analyzed, never both, and one that
\* is not partial rests on a session in which the server stayed up and nothing was lost,
\* whenever the deadline passes and the server dies (run_dart_analyzer, runner.py).
THEOREM FilesAreAccounted == DartSpec => []EveryFileAccounted
<1>1. IInv => EveryFileAccounted
  <2> SUFFICES ASSUME IInv, NEW r \in Runs, run[r].pc = "done"
               PROVE  /\ run[r].result.files \cup run[r].result.failed = run[r].changed
                      /\ run[r].result.files \cap run[r].result.failed = {}
                      /\ ~run[r].result.partial =>
                           run[r].hit \/ (run[r].up /\ ~run[r].doubt /\ run[r].unsure = {})
    BY DEF EveryFileAccounted
  <2>1. Recorded(run[r])
    BY DEF IInv, RunInv
  <2> QED
    BY <2>1 DEF Recorded, Apart
<1> QED
  BY <1>1, Invariant, PTL

\* A key covers whatever the server can come to read by itself at that moment, except in
\* ignored directories: the options that others include, however the includes were edited
\* while they were followed, are in it, and no configuration names a package outside. Only
\* when an options file or configuration was edited after it was read, or lies in an ignored
\* directory, may there be more (_analysis_options_include_paths,
\* _has_external_path_dependency, cache.py).
THEOREM KeysCoverTheServer ==
  DartSpec => [](\A r \in Runs :
    /\ run[r].pc \in {"load", "read", "anchors", "launch", "sync", "analyze"} /\ run[r].key # NoKey
    /\ Leading \cap (run[r].disturbed \cup Ignored) = {}
    => ServerReads(disk) \ Ignored \subseteq DOMAIN run[r].key.content)
<1>1. IInv => \A r \in Runs :
        /\ run[r].pc \in {"load", "read", "anchors", "launch", "sync", "analyze"} /\ run[r].key # NoKey
        /\ Leading \cap (run[r].disturbed \cup Ignored) = {}
        => ServerReads(disk) \ Ignored \subseteq DOMAIN run[r].key.content
  <2> SUFFICES ASSUME IInv, NEW r \in Runs, run[r].pc \in Asking, run[r].key # NoKey,
                      Leading \cap (run[r].disturbed \cup Ignored) = {},
                      NEW f \in ServerReads(disk) \ Ignored
               PROVE  f \in DOMAIN run[r].key.content
    BY DEF Asking
  <2>1. Complete(run[r], disk)
    BY DEF IInv, RunInv, Undisturbed, Fingerprint
  <2> QED
    BY <2>1, CoversWhatIsRead
<1> QED
  BY <1>1, Invariant, PTL

-----------------------------------------------------------------------------
(* The calls of the client. *)

-----------------------------------------------------------------------------
(* Type correctness.  It needs to know which threads are within a call: a *)
(* thread that times out raises only after it has failed the client, and  *)
(* an owner that closes the client does the same outside of any call.     *)

InCall(s) ==
    \/ at[s] \in SendSteps \cup {"register", "answer"}
    \/ at[s] = "wake" /\ failure = "timeout"
    \/ at[s] = "kill" /\ ~(s = Owner /\ leaving = "closing")

\* A thread within a call has begun it, and its call has no outcome yet.
CallsOpen == \A s \in Senders : InCall(s) => Cur(s) \in Ops /\ call[Cur(s)] = "open"

\* A thread that tells of a failure is the one that met it.
WakersFailed ==
    /\ \A s \in Senders : at[s] = "wake" => failure # None
    /\ \A s \in Users : at[s] = "wake" => failure \in {"timeout", "closed"}
    /\ \A s \in Senders : at[s] = "wake" /\ failure = "closed" => s = Owner /\ leaving = "closing"

\* The owner is within a call only while it shuts the server down.
OwnerLeaves ==
    /\ leaving \in {"no", "finish", "abort", "gone"} => at[Owner] = "idle"
    /\ leaving = "closing" => at[Owner] = "kill" \/ (at[Owner] = "wake" /\ failure = "closed")

\* From taking a frame until it has completed it, the writer holds it.
WriterHolds == at[Writer] \notin {"get", "returned"} => hand \in Job

TypeInv == TypeOK /\ CallsOpen /\ WakersFailed /\ OwnerLeaves /\ WriterHolds

-----------------------------------------------------------------------------
(* A failure reaches all: from the locked region of _set_failure until the *)
(* failing thread has told the others, whoever waits is among its victims  *)
(* or in the table of pending requests, and nobody joins them later.       *)

OneWaker ==
    /\ \A t \in Threads : at[t] = "wake" => failure # None
    /\ \A t, u \in Threads : at[t] = "wake" /\ at[u] = "wake" => t = u

WaitersKnown ==
    \A s \in Senders : at[s] \in {"enqueue", "written"} /\ failure = None => Cur(s) \in waiters

Waking == \E t \in Threads : at[t] = "wake"

VictimsToWake ==
    \A s \in Senders : at[s] = "written" /\ failure # None /\ done[s] = None
                          => Waking /\ Cur(s) \in victims

RequestsPending ==
    \A s \in Senders : /\ at[s] \in {"register", "answer"} => kind[s] = "request"
                       /\ at[s] \in SendSteps \cup {"answer"} /\ kind[s] = "request" /\ box[s] = None
                             => Cur(s) \in pending

FailInv ==
    /\ failure # None => writes = <<>>
    /\ OneWaker /\ WaitersKnown /\ VictimsToWake /\ RequestsPending
    /\ Spread => pending = {}

-----------------------------------------------------------------------------
(* The contract: what a thread finds as the outcome of its call is the     *)
(* outcome of this call and of no earlier one.                             *)

\* Between two calls a user thread has no outcome of a call left, and the calls
\* it has not begun are unused.
NothingLeft(s) ==
    /\ ~InCall(s) => /\ done[s] = None /\ box[s] = None
                     /\ Cur(s) \in Ops => call[Cur(s)] # "open"
    /\ at[s] = "register" => box[s] = None
    /\ \A i \in 1..Limit(s) : i > n[s] => call[<<s, i>>] = "unused"

\* A pending request is the current call of its thread and has no response yet.
PendingCall(o) ==
    /\ o[1] \in Users /\ o = Cur(o[1]) /\ kind[o[1]] = "request"
    /\ InCall(o[1]) /\ at[o[1]] # "register" /\ box[o[1]] = None

TrueOutcome(s) ==
    /\ box[s] = "answer" => Cur(s) \in served
    /\ done[s] = "ok" /\ kind[s] # "request" => Cur(s) \in served

CallInv == /\ \A s \in Users : NothingLeft(s) /\ TrueOutcome(s)
           /\ \A o \in pending : PendingCall(o)

\* Frames on their way are of calls that have begun, and of the kind of their call.
Begun == {o \in Ops : call[o] # "unused"}
TrueJob == {j \in Job : /\ j.op \in Begun
                        /\ \A s \in Users : j.op = Cur(s) /\ j.kind # "cancel" => j.kind = kind[s]}
TrueMessage == {m \in Message : m.type = "answer" => m.op \in served}

FrameInv ==
    /\ writes \in Seq(TrueJob) /\ hand \in TrueJob \cup {None} /\ stdin \in Seq(TrueJob)
    /\ inbound \in Seq(TrueMessage) /\ known \subseteq Begun
    /\ at[Writer] = "wrote" /\ hand.kind \notin {"request", "cancel"} => hand.op \in served

-----------------------------------------------------------------------------
(* Constants, and what the operators that the actions share change.        *)

LEMMA Names ==
    /\ Owner \in Users /\ Owner \in Senders /\ Owner \in Threads /\ Owner \notin Callers
    /\ Dispatcher \in Senders /\ Dispatcher \in Threads /\ Dispatcher \notin Users
    /\ Writer \in Threads /\ Writer \notin Senders /\ Writer \notin Users
    /\ Users \subseteq Senders /\ Senders \subseteq Threads /\ Callers \subseteq Users
    /\ \A s \in Senders : s \in Users \/ s = Dispatcher
    /\ \A t \in Threads : t \in Senders \/ t = Writer
  BY ClientAssumption DEF Users, Senders, Threads

LEMMA Bounds ==
    /\ None \notin Job /\ None \notin {"ok", "error", "answer", "timeout", "exited", "fault", "closed"}
    /\ CallKinds \subseteq {"request", "notify"}
    /\ WriteLimit \in Nat \ {0} /\ InboundLimit \in Nat \ {0}
    /\ Limit(Owner) = 2 /\ Limit(Dispatcher) = MaxAsks /\ MaxAsks \in Nat
    /\ \A c \in Callers : Limit(c) = MaxCalls
    /\ \A s \in Senders : Limit(s) \in Nat
  BY ClientAssumption, Names DEF Limit

LEMMA OpsAre ==
    /\ \A o \in Ops : o[1] \in Senders /\ o[2] \in 1..Limit(o[1]) /\ o = <<o[1], o[2]>>
    /\ \A s \in Senders, i \in Nat : <<s, i>> \in Ops <=> i \in 1..Limit(s)
<1>1. \A s \in Senders : Limit(s) \in Nat
  BY Bounds
<1>2. \A o : o \in Ops <=> \E s \in Senders : o \in {s} \X (1..Limit(s))
  BY DEF Ops
<1> QED
  BY <1>1, <1>2

ThreadsOK ==
    /\ at \in [Threads -> UserSteps \cup DispatcherSteps \cup WriterSteps]
    /\ \A c \in Users : at[c] \in UserSteps
    /\ at[Dispatcher] \in DispatcherSteps /\ at[Writer] \in WriterSteps

CountsOK ==
    /\ n \in [Senders -> Nat] /\ \A s \in Senders : n[s] <= Limit(s)
    /\ kind \in [Senders -> Kinds] /\ kind[Dispatcher] # "request"
    /\ call \in [Ops -> {"unused", "open", "returned", "raised"}]

TableOK ==
    /\ done \in [Senders -> {None, "ok", "error"}]
    /\ box \in [Senders -> {None, "answer", "error"}]
    /\ waiters \subseteq Ops /\ pending \subseteq Ops /\ victims \subseteq Ops

WritesOK == writes \in Seq(Job) /\ Len(writes) <= WriteLimit /\ hand \in Job \cup {None}

ServerOK ==
    /\ process \in {"running", "exited"}
    /\ inbound \in Seq(Message) /\ Len(inbound) <= InboundLimit
    /\ stdin \in Seq(Job) /\ known \subseteq Ops /\ asks \in 0..MaxAsks /\ served \subseteq Ops

FlagsOK ==
    /\ failure \in {None, "timeout", "exited", "fault", "closed"}
    /\ stop \in BOOLEAN /\ expecting \in BOOLEAN
    /\ leaving \in {"no", "shutdown", "exit", "finish", "abort", "closing", "gone"}

LEMMA TypeParts ==
    TypeOK <=> ThreadsOK /\ CountsOK /\ TableOK /\ WritesOK /\ ServerOK /\ FlagsOK
  BY Zenon DEF TypeOK, ThreadsOK, CountsOK, TableOK, WritesOK, ServerOK, FlagsOK

Others(t) == \A u \in Threads : u # t => at'[u] = at[u]

LEMMA GotoType ==
    ASSUME ThreadsOK, NEW t \in Threads, NEW where, Goto(t, where),
           t \in Users => where \in UserSteps,
           t = Dispatcher => where \in DispatcherSteps,
           t = Writer => where \in WriterSteps
    PROVE  ThreadsOK' /\ at'[t] = where /\ Others(t)
<1>1. where \in UserSteps \cup DispatcherSteps \cup WriterSteps
  BY Names
<1>2. at' \in [Threads -> UserSteps \cup DispatcherSteps \cup WriterSteps]
  BY <1>1 DEF ThreadsOK, Goto
<1>3. at'[t] = where /\ Others(t)
  BY DEF ThreadsOK, Goto, Others
<1> QED
  BY <1>2, <1>3, Names DEF ThreadsOK, Others

LEMMA BeginType ==
    ASSUME ThreadsOK, CountsOK, NEW o \in Ops, NEW k \in Kinds, Begin(o, k),
           k = "request" => o[1] \in Users
    PROVE  /\ ThreadsOK' /\ CountsOK' /\ Others(o[1])
           /\ at'[o[1]] = IF k = "request" THEN "register" ELSE "send"
           /\ kind'[o[1]] = k /\ Cur(o[1])' = o /\ call'[o] = "open"
           /\ \A s \in Senders : s # o[1] => n'[s] = n[s] /\ kind'[s] = kind[s]
           /\ \A p \in Ops : p # o => call'[p] = call[p]
<1>1. o[1] \in Senders /\ o[2] \in 1..Limit(o[1]) /\ o = <<o[1], o[2]>>
  BY OpsAre
<1> DEFINE where == IF k = "request" THEN "register" ELSE "send"
<1>2. Goto(o[1], where)
  BY DEF Begin
<1>3. where \in UserSteps /\ (o[1] = Dispatcher => where \in DispatcherSteps) /\ o[1] # Writer /\ o[1] \in Threads
  BY <1>1, Names DEF UserSteps, DispatcherSteps, SendSteps
<1>4. ThreadsOK' /\ at'[o[1]] = where /\ Others(o[1])
  BY <1>2, <1>3, GotoType
<1>5. /\ n' \in [Senders -> Nat] /\ n'[o[1]] = o[2] /\ kind'[o[1]] = k
      /\ kind' \in [Senders -> Kinds]
      /\ \A s \in Senders : s # o[1] => n'[s] = n[s] /\ kind'[s] = kind[s]
  BY <1>1, Bounds DEF CountsOK, Begin
<1>6. /\ call' \in [Ops -> {"unused", "open", "returned", "raised"}] /\ call'[o] = "open"
      /\ \A p \in Ops : p # o => call'[p] = call[p]
  BY DEF CountsOK, Begin
<1>7. \A s \in Senders : n'[s] <= Limit(s)
  BY <1>1, <1>5, Bounds DEF CountsOK
<1>8. Cur(o[1])' = o
  BY <1>1, <1>5 DEF Cur
<1>9. kind'[Dispatcher] # "request"
  BY <1>1, <1>5, Names DEF CountsOK
<1> QED
  BY <1>4, <1>5, <1>6, <1>7, <1>8, <1>9 DEF CountsOK

LEMMA EndType ==
    ASSUME TypeOK, NEW s \in Senders, Cur(s) \in Ops,
           NEW outcome \in {"returned", "raised"}, End(s, outcome)
    PROVE  /\ ThreadsOK' /\ CountsOK' /\ Others(s) /\ n' = n /\ kind' = kind /\ hand' = hand
           /\ at'[s] = IF s \in Users THEN "idle" ELSE IF outcome = "returned" THEN "get" ELSE "returned"
           /\ call'[Cur(s)] = outcome
           /\ \A p \in Ops : p # Cur(s) => call'[p] = call[p]
           /\ done' \in [Senders -> {None, "ok", "error"}] /\ done'[s] = None
           /\ box' \in [Senders -> {None, "answer", "error"}] /\ box'[s] = None
           /\ \A u \in Senders : u # s => done'[u] = done[u] /\ box'[u] = box[u]
           /\ waiters' = waiters \ {Cur(s)}
<1> DEFINE where == IF s \in Users THEN "idle" ELSE IF outcome = "returned" THEN "get" ELSE "returned"
<1>1. Goto(s, where) /\ s \in Threads /\ s # Writer
  BY Names DEF End
<1>2. (s \in Users => where \in UserSteps) /\ (s = Dispatcher => where \in DispatcherSteps)
  BY Names DEF UserSteps, DispatcherSteps
<1>3. ThreadsOK' /\ at'[s] = where /\ Others(s)
  BY <1>1, <1>2, TypeParts, GotoType
<1>4. /\ call' \in [Ops -> {"unused", "open", "returned", "raised"}] /\ call'[Cur(s)] = outcome
      /\ \A p \in Ops : p # Cur(s) => call'[p] = call[p]
  BY TypeParts DEF CountsOK, End
<1>5. n' = n /\ kind' = kind /\ hand' = hand /\ waiters' = waiters \ {Cur(s)}
  BY DEF End
<1>6. done' \in [Senders -> {None, "ok", "error"}] /\ box' \in [Senders -> {None, "answer", "error"}]
  BY TypeParts DEF TableOK, End
<1>7. /\ done'[s] = None /\ box'[s] = None
      /\ \A u \in Senders : u # s => done'[u] = done[u] /\ box'[u] = box[u]
  BY TypeParts DEF TableOK, End
<1> QED
  BY <1>3, <1>4, <1>5, <1>6, <1>7, TypeParts DEF CountsOK

LEMMA FailType ==
    ASSUME TypeOK, NEW t \in Threads, NEW e \in {"timeout", "exited", "fault", "closed"}, Fail(t, e),
           t \in Users => e \in {"timeout", "closed"}
    PROVE  /\ ThreadsOK' /\ Others(t)
           /\ victims' \subseteq Ops /\ writes' \in Seq(Job) /\ Len(writes') <= WriteLimit
           /\ failure' \in {None, "timeout", "exited", "fault", "closed"}
           /\ \/ failure # None /\ at'[t] = After(t, e) /\ UNCHANGED <<failure, victims, writes>>
              \/ failure = None /\ failure' = e /\ at'[t] = "wake" /\ victims' = waiters /\ writes' = <<>>
<1>1. CASE failure # None
  <2>1. Goto(t, After(t, e)) /\ UNCHANGED <<failure, victims, writes>>
    BY <1>1 DEF Fail, fail
  <2>2. /\ t \in Users => After(t, e) \in UserSteps
        /\ t = Dispatcher => After(t, e) \in DispatcherSteps
        /\ t = Writer => After(t, e) \in WriterSteps
    BY Names DEF After, UserSteps, DispatcherSteps, WriterSteps, FailSteps
  <2>3. ThreadsOK' /\ at'[t] = After(t, e) /\ Others(t)
    BY <2>1, <2>2, TypeParts, GotoType
  <2> QED
    BY <1>1, <2>1, <2>3, TypeParts DEF TableOK, WritesOK, FlagsOK
<1>2. CASE failure = None
  <2>1. Goto(t, "wake") /\ failure' = e /\ victims' = waiters /\ writes' = <<>>
    BY <1>2 DEF Fail, Waiting
  <2>2. "wake" \in UserSteps /\ "wake" \in DispatcherSteps /\ "wake" \in WriterSteps
    BY DEF UserSteps, DispatcherSteps, WriterSteps, FailSteps
  <2>3. ThreadsOK' /\ at'[t] = "wake" /\ Others(t)
    BY <2>1, <2>2, TypeParts, GotoType
  <2> QED
    BY <1>2, <2>1, <2>3, TypeParts, Bounds DEF TableOK
<1> QED
  BY <1>1, <1>2

\* A thread that a step passes by stays within its call or outside of one.
LEMMA OthersCalls ==
    ASSUME TypeInv, NEW u \in Senders, at'[u] = at[u], n'[u] = n[u],
           failure # None => failure' = failure, u = Owner => leaving' = leaving
    PROVE  Cur(u)' = Cur(u) /\ (InCall(u)' <=> InCall(u))
<1>1. at[u] = "wake" => failure' = failure
  BY DEF TypeInv, WakersFailed
<1> QED
  BY <1>1 DEF InCall, Cur

\* What a step of thread t has to show besides the types.
LEMMA Moves ==
    ASSUME TypeInv, NEW t \in Threads, Others(t),
           failure # None => failure' = failure,
           \A u \in Senders : u # t => /\ n'[u] = n[u]
                                       /\ InCall(u) => call'[Cur(u)] = call[Cur(u)],
           t \in Senders /\ InCall(t)' => Cur(t)' \in Ops /\ call'[Cur(t)'] = "open",
           at'[t] = "wake" => /\ failure' # None
                              /\ t \in Users => failure' \in {"timeout", "closed"}
                              /\ t \in Senders /\ failure' = "closed" => t = Owner /\ leaving' = "closing",
           IF t = Owner THEN OwnerLeaves' ELSE leaving' = leaving,
           IF t = Writer THEN WriterHolds' ELSE hand' = hand
    PROVE  CallsOpen' /\ WakersFailed' /\ OwnerLeaves' /\ WriterHolds'
<1>1. \A u \in Senders : u # t => Cur(u)' = Cur(u) /\ (InCall(u)' <=> InCall(u)) /\ at'[u] = at[u]
  <2> SUFFICES ASSUME NEW u \in Senders, u # t
               PROVE  Cur(u)' = Cur(u) /\ (InCall(u)' <=> InCall(u)) /\ at'[u] = at[u]
    OBVIOUS
  <2>1. at'[u] = at[u] /\ n'[u] = n[u] /\ (u = Owner => leaving' = leaving)
    BY Names DEF Others
  <2> QED
    BY <2>1, OthersCalls
<1>2. CallsOpen'
  <2> SUFFICES ASSUME NEW u \in Senders, InCall(u)'
               PROVE  Cur(u)' \in Ops /\ call'[Cur(u)'] = "open"
    BY Zenon DEF CallsOpen
  <2>1. CASE u = t
    BY <2>1
  <2>2. CASE u # t
    <3>1. Cur(u)' = Cur(u) /\ InCall(u)
      BY <1>1, <2>2
    <3>2. Cur(u) \in Ops /\ call[Cur(u)] = "open" /\ call'[Cur(u)] = call[Cur(u)]
      BY <2>2, <3>1 DEF TypeInv, CallsOpen
    <3> QED
      BY <3>1, <3>2
  <2> QED
    BY <2>1, <2>2
<1>3. WakersFailed'
  <2> SUFFICES ASSUME NEW u \in Senders, at'[u] = "wake"
               PROVE  /\ failure' # None
                      /\ u \in Users => failure' \in {"timeout", "closed"}
                      /\ failure' = "closed" => u = Owner /\ leaving' = "closing"
    BY Names DEF WakersFailed
  <2>1. CASE u = t
    BY <2>1
  <2>2. CASE u # t
    BY <1>1, <2>2, Names DEF TypeInv, WakersFailed, OwnerLeaves
  <2> QED
    BY <2>1, <2>2
<1>4. OwnerLeaves'
  <2>1. CASE t = Owner
    BY <2>1
  <2>2. CASE t # Owner
    <3>1. at'[Owner] = at[Owner]
      BY <1>1, <2>2, Names
    <3> QED
      BY <2>2, <3>1, Names DEF TypeInv, OwnerLeaves, WakersFailed
  <2> QED
    BY <2>1, <2>2
<1>5. WriterHolds'
  BY Names DEF TypeInv, WriterHolds, Others
<1> QED
  BY <1>2, <1>3, <1>4, <1>5

\* A call begins, and its thread has been outside of calls.
LEMMA BeginKeeps ==
    ASSUME TypeInv, NEW o \in Ops, NEW k \in Kinds, Begin(o, k),
           k = "request" => o[1] \in Users,
           o[1] = Owner => leaving \notin {"no", "finish", "abort", "closing", "gone"},
           UNCHANGED <<hand, failure, leaving>>
    PROVE  /\ ThreadsOK' /\ CountsOK'
           /\ CallsOpen' /\ WakersFailed' /\ OwnerLeaves' /\ WriterHolds'
<1>1. ThreadsOK /\ CountsOK
  BY TypeParts DEF TypeInv
<1>2. /\ ThreadsOK' /\ CountsOK' /\ Others(o[1])
      /\ at'[o[1]] \in {"register", "send"}
      /\ Cur(o[1])' = o /\ call'[o] = "open"
      /\ \A s \in Senders : s # o[1] => n'[s] = n[s]
      /\ \A p \in Ops : p # o => call'[p] = call[p]
  BY <1>1, BeginType
<1>3. o[1] \in Senders /\ o[1] \in Threads /\ o[1] # Writer
  BY OpsAre, Names
<1>4. \A u \in Senders : u # o[1] /\ InCall(u) => Cur(u) \in Ops /\ Cur(u) # o
  BY <1>3, OpsAre DEF TypeInv, CallsOpen, Cur
<1>5. o[1] = Owner => OwnerLeaves'
  BY DEF OwnerLeaves
<1>6. CallsOpen' /\ WakersFailed' /\ OwnerLeaves' /\ WriterHolds'
  BY <1>2, <1>3, <1>4, <1>5, Moves
<1> QED
  BY <1>2, <1>6

\* A call ends, with whichever outcome.
LEMMA EndKeeps ==
    ASSUME TypeInv, NEW s \in Senders, InCall(s),
           NEW outcome \in {"returned", "raised"}, End(s, outcome),
           pending' \in SUBSET pending, UNCHANGED <<failure, victims, leaving>>
    PROVE  /\ ThreadsOK' /\ CountsOK' /\ TableOK'
           /\ CallsOpen' /\ WakersFailed' /\ OwnerLeaves' /\ WriterHolds'
<1>1. Cur(s) \in Ops /\ TypeOK
  BY DEF TypeInv, CallsOpen
<1>2. /\ ThreadsOK' /\ CountsOK' /\ Others(s) /\ n' = n /\ hand' = hand
      /\ at'[s] = IF s \in Users THEN "idle" ELSE IF outcome = "returned" THEN "get" ELSE "returned"
      /\ \A p \in Ops : p # Cur(s) => call'[p] = call[p]
      /\ done' \in [Senders -> {None, "ok", "error"}]
      /\ box' \in [Senders -> {None, "answer", "error"}]
      /\ waiters' = waiters \ {Cur(s)}
  BY <1>1, EndType
<1>3. TableOK'
  BY <1>1, <1>2, TypeParts DEF TableOK
<1>4. at'[s] \in {"idle", "get", "returned"} /\ s \in Threads /\ s # Writer
  BY <1>2, Names
<1>5. ~InCall(s)'
  BY <1>4 DEF InCall, SendSteps
<1>6. \A u \in Senders : u # s => Cur(u) # Cur(s) /\ (InCall(u) => Cur(u) \in Ops)
  BY DEF Cur, TypeInv, CallsOpen
<1>7. s = Owner => OwnerLeaves'
  BY <1>2, Names DEF TypeInv, OwnerLeaves, InCall, SendSteps
<1>8. CallsOpen' /\ WakersFailed' /\ OwnerLeaves' /\ WriterHolds'
  BY <1>2, <1>4, <1>5, <1>6, <1>7, Moves
<1> QED
  BY <1>2, <1>3, <1>8

\* A thread within a call goes on with it.
LEMMA GoesOn ==
    ASSUME TypeInv, NEW s \in Senders, InCall(s), NEW where, Goto(s, where),
           where \in SendSteps \/ (where = "answer" /\ s \in Users),
           UNCHANGED <<n, kind, hand, call, failure, leaving>>
    PROVE  /\ ThreadsOK' /\ CountsOK' /\ at'[s] = where /\ Others(s)
           /\ CallsOpen' /\ WakersFailed' /\ OwnerLeaves' /\ WriterHolds'
<1>1. s \in Threads /\ s # Writer
  BY Names
<1>2. (s \in Users => where \in UserSteps) /\ (s = Dispatcher => where \in DispatcherSteps)
  BY Names DEF UserSteps, DispatcherSteps
<1>3. ThreadsOK' /\ at'[s] = where /\ Others(s)
  BY <1>1, <1>2, TypeParts, GotoType DEF TypeInv
<1>4. CountsOK'
  BY TypeParts DEF TypeInv, CountsOK
<1>5. Cur(s)' \in Ops /\ call'[Cur(s)'] = "open"
  BY DEF TypeInv, CallsOpen, Cur
<1>6. s = Owner => OwnerLeaves'
  BY <1>3, Names DEF TypeInv, OwnerLeaves, InCall, SendSteps
<1>7. at'[s] # "wake"
  BY <1>3 DEF SendSteps
<1>8. CallsOpen' /\ WakersFailed' /\ OwnerLeaves' /\ WriterHolds'
  BY <1>1, <1>3, <1>5, <1>6, <1>7, Moves
<1> QED
  BY <1>3, <1>4, <1>8

\* A thread reports a failure of the client.
LEMMA FailKeeps ==
    ASSUME TypeInv, NEW t \in Threads, NEW e \in {"timeout", "exited", "fault", "closed"}, Fail(t, e),
           t \in Users => e \in {"timeout", "closed"},
           t \in Senders /\ e = "timeout" => InCall(t) /\ call'[Cur(t)] = call[Cur(t)],
           e = "closed" => t = Owner,
           leaving' = IF e = "closed" THEN "closing" ELSE leaving,
           t = Writer => hand \in Job,
           \A u \in Senders : u # t => call'[Cur(u)] = call[Cur(u)],
           UNCHANGED <<n, hand, waiters, pending, done, box>>
    PROVE  /\ ThreadsOK' /\ TableOK' /\ WritesOK' /\ failure' \in {None, "timeout", "exited", "fault", "closed"}
           /\ CallsOpen' /\ WakersFailed' /\ OwnerLeaves' /\ WriterHolds'
<1>1. /\ ThreadsOK' /\ Others(t)
      /\ victims' \subseteq Ops /\ writes' \in Seq(Job) /\ Len(writes') <= WriteLimit
      /\ failure' \in {None, "timeout", "exited", "fault", "closed"}
      /\ \/ failure # None /\ at'[t] = After(t, e) /\ UNCHANGED <<failure, victims, writes>>
         \/ failure = None /\ failure' = e /\ at'[t] = "wake" /\ victims' = waiters /\ writes' = <<>>
  BY FailType DEF TypeInv
<1>2. TableOK' /\ WritesOK'
  BY <1>1, TypeParts DEF TypeInv, TableOK, WritesOK
<1>3. \/ failure # None /\ failure' = failure /\ at'[t] \in {"complete", "kill", "returned"}
      \/ failure = None /\ failure' = e /\ at'[t] = "wake"
  BY <1>1 DEF After
<1>4. ASSUME t \in Senders, InCall(t)'
      PROVE  Cur(t)' \in Ops /\ call'[Cur(t)'] = "open"
  <2>1. e = "timeout"
    BY <1>1, <1>4, Names DEF InCall, SendSteps, After
  <2> QED
    BY <1>4, <2>1 DEF TypeInv, CallsOpen, Cur
<1>5. at'[t] = "wake" => failure' = e /\ failure' # None
  BY <1>3, Bounds
<1>6. t = Owner => OwnerLeaves'
  <2>1. t = Owner /\ e # "closed" => e = "timeout" /\ InCall(Owner) /\ leaving' = leaving
    BY Names
  <2>2. t = Owner /\ e # "closed" => leaving' \notin {"no", "finish", "abort", "gone", "closing"}
    BY <2>1, Names DEF TypeInv, OwnerLeaves, InCall, SendSteps
  <2>3. t = Owner /\ e = "closed" => leaving' = "closing" /\ (at'[t] = "kill" \/ (at'[t] = "wake" /\ failure' = "closed"))
    BY <1>1, Names DEF After
  <2> QED
    BY <2>2, <2>3 DEF OwnerLeaves
<1>7. IF t = Writer THEN WriterHolds' ELSE hand' = hand
  BY DEF WriterHolds
<1>8. t # Owner => leaving' = leaving
  OBVIOUS
<1>9. CallsOpen' /\ WakersFailed' /\ OwnerLeaves' /\ WriterHolds'
  BY <1>1, <1>3, <1>4, <1>5, <1>6, <1>7, <1>8, Moves
<1> QED
  BY <1>1, <1>2, <1>9

-----------------------------------------------------------------------------
(* Every action keeps TypeInv.                                             *)

LEMMA TypeTogether ==
    TypeInv <=> /\ ThreadsOK /\ CountsOK /\ TableOK /\ WritesOK /\ ServerOK /\ FlagsOK
                /\ CallsOpen /\ WakersFailed /\ OwnerLeaves /\ WriterHolds
  BY TypeParts DEF TypeInv

LEMMA TypeNext ==
    ASSUME ThreadsOK', CountsOK', TableOK', WritesOK', ServerOK', FlagsOK',
           CallsOpen', WakersFailed', OwnerLeaves', WriterHolds'
    PROVE  TypeInv'
<1>1. TypeOK'
  BY Zenon DEF TypeOK, ThreadsOK, CountsOK, TableOK, WritesOK, ServerOK, FlagsOK
<1> QED
  BY <1>1 DEF TypeInv

\* What a step may leave to the lemmas above, or leaves alone.
LEMMA ServerUnchanged == TypeInv /\ UNCHANGED <<server, served>> => ServerOK'
  BY TypeTogether DEF ServerOK, server

LEMMA FlagsUnchanged == TypeInv /\ UNCHANGED <<failure, ends>> => FlagsOK'
  BY TypeTogether DEF FlagsOK, ends

LEMMA WritesUnchanged == TypeInv /\ UNCHANGED <<writes, hand>> => WritesOK'
  BY TypeTogether DEF WritesOK

LEMMA TableUnchanged == TypeInv /\ UNCHANGED <<table, victims>> => TableOK'
  BY TypeTogether DEF TableOK, table

LEMMA FollowingIs ==
    ASSUME TypeInv, NEW s \in Senders, n[s] < Limit(s)
    PROVE  Following(s) \in Ops /\ Following(s)[1] = s
  BY TypeTogether, OpsAre, Bounds DEF CountsOK, Following

LEMMA TypeCall == ASSUME TypeInv, NEW c \in Callers, Call(c) PROVE TypeInv'
<1>1. n[c] < Limit(c) /\ c \in Users /\ c \in Senders /\ c # Owner
  BY Bounds, Names DEF Call
<1>2. PICK k \in CallKinds : Begin(Following(c), k)
  BY DEF Call
<1>3. Following(c) \in Ops /\ Following(c)[1] = c /\ k \in Kinds
  BY <1>1, FollowingIs, Bounds DEF Kinds
<1>4. UNCHANGED <<writes, table, fail, ends, server, served, hand>> /\ UNCHANGED <<failure, victims, leaving>>
  BY DEF Call, fail, ends
<1>5. ThreadsOK' /\ CountsOK' /\ CallsOpen' /\ WakersFailed' /\ OwnerLeaves' /\ WriterHolds'
  BY <1>1, <1>2, <1>3, <1>4, BeginKeeps
<1>6. TableOK' /\ WritesOK' /\ ServerOK' /\ FlagsOK'
  BY <1>4, TableUnchanged, WritesUnchanged, ServerUnchanged, FlagsUnchanged
<1> QED
  BY <1>5, <1>6, TypeNext

LEMMA RaiseKeeps ==
    ASSUME TypeInv, NEW s \in Senders, InCall(s), Raise(s), UNCHANGED <<failure, victims, leaving>>
    PROVE  /\ ThreadsOK' /\ CountsOK' /\ TableOK'
           /\ CallsOpen' /\ WakersFailed' /\ OwnerLeaves' /\ WriterHolds'
           /\ hand' = hand
<1>1. End(s, "raised") /\ pending' \in SUBSET pending
  BY DEF Raise
<1>2. hand' = hand
  BY <1>1 DEF End
<1> QED
  BY <1>1, <1>2, EndKeeps

LEMMA TypeRegister == ASSUME TypeInv, NEW s \in Senders, Register(s) PROVE TypeInv'
<1>1. InCall(s) /\ at[s] = "register" /\ s \in Users /\ Cur(s) \in Ops
  <2>1. at[s] = "register" /\ InCall(s)
    BY DEF Register, InCall
  <2>2. s # Dispatcher
    BY <2>1, TypeTogether DEF ThreadsOK, DispatcherSteps, SendSteps, FailSteps
  <2> QED
    BY <2>1, <2>2, Names DEF TypeInv, CallsOpen
<1>2. UNCHANGED <<writes, fail, ends, server, served>> /\ UNCHANGED <<failure, victims, leaving>>
  BY DEF Register, fail, ends
<1>3. ServerOK' /\ FlagsOK'
  BY <1>2, ServerUnchanged, FlagsUnchanged
<1>4. CASE Raise(s)
  BY <1>1, <1>2, <1>3, <1>4, RaiseKeeps, WritesUnchanged, TypeNext
<1>5. CASE /\ pending' = pending \cup {Cur(s)} /\ Goto(s, "send")
           /\ UNCHANGED <<n, kind, hand, call, waiters, done, box>>
  <2>1. "send" \in SendSteps
    BY DEF SendSteps
  <2>2. ThreadsOK' /\ CountsOK' /\ CallsOpen' /\ WakersFailed' /\ OwnerLeaves' /\ WriterHolds'
    BY <1>1, <1>2, <1>5, <2>1, GoesOn
  <2>3. TableOK' /\ WritesOK'
    BY <1>1, <1>2, <1>5, TypeTogether DEF TableOK, WritesOK
  <2> QED
    BY <1>3, <2>2, <2>3, TypeNext
<1> QED
  BY <1>4, <1>5 DEF Register

LEMMA TypeSend == ASSUME TypeInv, NEW s \in Senders, Send(s) PROVE TypeInv'
<1>1. InCall(s) /\ Cur(s) \in Ops
  BY DEF Send, InCall, SendSteps, TypeInv, CallsOpen
<1>2. UNCHANGED <<writes, fail, ends, server, served>> /\ UNCHANGED <<failure, victims, leaving>>
  BY DEF Send, fail, ends
<1>3. ServerOK' /\ FlagsOK'
  BY <1>2, ServerUnchanged, FlagsUnchanged
<1>4. CASE Raise(s)
  BY <1>1, <1>2, <1>3, <1>4, RaiseKeeps, WritesUnchanged, TypeNext
<1>5. CASE /\ waiters' = waiters \cup {Cur(s)} /\ Goto(s, "enqueue")
           /\ UNCHANGED <<n, kind, hand, call, pending, done, box>>
  <2>1. "enqueue" \in SendSteps
    BY DEF SendSteps
  <2>2. ThreadsOK' /\ CountsOK' /\ CallsOpen' /\ WakersFailed' /\ OwnerLeaves' /\ WriterHolds'
    BY <1>1, <1>2, <1>5, <2>1, GoesOn
  <2>3. TableOK' /\ WritesOK'
    BY <1>1, <1>2, <1>5, TypeTogether DEF TableOK, WritesOK
  <2> QED
    BY <1>3, <2>2, <2>3, TypeNext
<1> QED
  BY <1>4, <1>5 DEF Send

LEMMA QueueMore ==
    ASSUME WritesOK, ~WritesFull, NEW j \in Job
    PROVE  Append(writes, j) \in Seq(Job) /\ Len(Append(writes, j)) <= WriteLimit
  BY Bounds DEF WritesOK, WritesFull

LEMMA TypeEnqueue == ASSUME TypeInv, NEW s \in Senders, Enqueue(s) PROVE TypeInv'
<1>1. InCall(s) /\ Cur(s) \in Ops
  BY DEF Enqueue, InCall, SendSteps, TypeInv, CallsOpen
<1>2. UNCHANGED <<fail, ends, server, served>> /\ UNCHANGED <<failure, victims, leaving>>
  BY DEF Enqueue, fail, ends
<1>3. ServerOK' /\ FlagsOK'
  BY <1>2, ServerUnchanged, FlagsUnchanged
<1>4. CASE Raise(s) /\ writes' = writes
  BY <1>1, <1>2, <1>3, <1>4, RaiseKeeps, WritesUnchanged, TypeNext
<1>5. CASE /\ ~WritesFull /\ writes' = Append(writes, [kind |-> kind[s], op |-> Cur(s)])
           /\ Goto(s, "written") /\ UNCHANGED <<n, kind, hand, call, table>>
  <2>1. "written" \in SendSteps
    BY DEF SendSteps
  <2>2. ThreadsOK' /\ CountsOK' /\ CallsOpen' /\ WakersFailed' /\ OwnerLeaves' /\ WriterHolds'
    BY <1>1, <1>2, <1>5, <2>1, GoesOn
  <2>3. [kind |-> kind[s], op |-> Cur(s)] \in Job
    BY <1>1, TypeTogether DEF CountsOK, Job
  <2>4. WritesOK'
    BY <1>5, <2>3, QueueMore, TypeTogether DEF WritesOK
  <2>5. TableOK'
    BY <1>2, <1>5, TableUnchanged
  <2> QED
    BY <1>3, <2>2, <2>4, <2>5, TypeNext
<1> QED
  BY <1>4, <1>5 DEF Enqueue

LEMMA TypeAwaitWrite ==
    ASSUME TypeInv, NEW s \in Senders, AwaitWrite(s) PROVE TypeInv'
<1>1. InCall(s) /\ Cur(s) \in Ops
  BY DEF AwaitWrite, InCall, SendSteps, TypeInv, CallsOpen
<1>2. UNCHANGED <<writes, fail, ends, server, served>> /\ UNCHANGED <<failure, victims, leaving>>
  BY DEF AwaitWrite, fail, ends
<1>3. ServerOK' /\ FlagsOK'
  BY <1>2, ServerUnchanged, FlagsUnchanged
<1>4. CASE Raise(s)
  BY <1>1, <1>2, <1>3, <1>4, RaiseKeeps, WritesUnchanged, TypeNext
<1>5. CASE End(s, "returned") /\ UNCHANGED pending
  <2>1. hand' = hand /\ pending' \in SUBSET pending
    BY <1>5 DEF End
  <2> QED
    BY <1>1, <1>2, <1>3, <1>5, <2>1, EndKeeps, WritesUnchanged, TypeNext
<1>6. CASE /\ kind[s] = "request" /\ waiters' = waiters \ {Cur(s)} /\ Goto(s, "answer")
           /\ UNCHANGED <<n, kind, hand, call, pending, done, box>>
  <2>1. s \in Users
    BY <1>6, TypeTogether, Names DEF CountsOK
  <2>2. ThreadsOK' /\ CountsOK' /\ CallsOpen' /\ WakersFailed' /\ OwnerLeaves' /\ WriterHolds'
    BY <1>1, <1>2, <1>6, <2>1, GoesOn
  <2>3. TableOK' /\ WritesOK'
    BY <1>2, <1>6, TypeTogether DEF TableOK, WritesOK
  <2> QED
    BY <1>3, <2>2, <2>3, TypeNext
<1> QED
  BY <1>4, <1>5, <1>6 DEF AwaitWrite

LEMMA TypeAwaitAnswer ==
    ASSUME TypeInv, NEW s \in Senders, AwaitAnswer(s) PROVE TypeInv'
<1>1. InCall(s)
  BY DEF AwaitAnswer, InCall
<1>2. UNCHANGED <<writes, fail, ends, server, served>> /\ UNCHANGED <<failure, victims, leaving>>
  BY DEF AwaitAnswer, fail, ends
<1>3. ServerOK' /\ FlagsOK'
  BY <1>2, ServerUnchanged, FlagsUnchanged
<1>4. CASE Raise(s)
  BY <1>1, <1>2, <1>3, <1>4, RaiseKeeps, WritesUnchanged, TypeNext
<1>5. CASE End(s, "returned") /\ UNCHANGED pending
  <2>1. hand' = hand /\ pending' \in SUBSET pending
    BY <1>5 DEF End
  <2> QED
    BY <1>1, <1>2, <1>3, <1>5, <2>1, EndKeeps, WritesUnchanged, TypeNext
<1> QED
  BY <1>4, <1>5 DEF AwaitAnswer

LEMMA TypeExpireWrite ==
    ASSUME TypeInv, NEW s \in Senders, ExpireWrite(s) PROVE TypeInv'
<1>1. InCall(s) /\ s \in Threads /\ s # Writer
  BY Names DEF ExpireWrite, InCall, SendSteps
<1>2. Fail(s, "timeout") /\ UNCHANGED <<n, kind, hand, call, table, ends, server, served>>
  BY DEF ExpireWrite
<1>3. ServerOK' /\ CountsOK' /\ leaving' = leaving
  BY <1>2, ServerUnchanged, TypeTogether DEF CountsOK, ends
<1>4. UNCHANGED <<n, hand, call, waiters, pending, done, box>>
  BY <1>2 DEF table
<1>5. /\ ThreadsOK' /\ TableOK' /\ WritesOK' /\ failure' \in {None, "timeout", "exited", "fault", "closed"}
      /\ CallsOpen' /\ WakersFailed' /\ OwnerLeaves' /\ WriterHolds'
  BY <1>1, <1>2, <1>3, <1>4, FailKeeps
<1>6. FlagsOK'
  BY <1>2, <1>5, TypeTogether DEF FlagsOK, ends
<1> QED
  BY <1>3, <1>5, <1>6, TypeNext

LEMMA TypeExpireSend ==
    ASSUME TypeInv, NEW s \in Senders, ExpireSend(s) PROVE TypeInv'
<1>1. InCall(s) /\ s \in Threads /\ Cur(s) \in Ops
  BY Names DEF ExpireSend, InCall, SendSteps, TypeInv, CallsOpen
<1>2. UNCHANGED <<n, kind, hand, ends, server, served>> /\ leaving' = leaving
  BY DEF ExpireSend, ends
<1>3. CASE s # Dispatcher
  <2>1. Raise(s) /\ UNCHANGED <<failure, victims, writes>>
    BY <1>3 DEF ExpireSend, fail
  <2>2. /\ ThreadsOK' /\ CountsOK' /\ TableOK'
        /\ CallsOpen' /\ WakersFailed' /\ OwnerLeaves' /\ WriterHolds'
    BY <1>1, <1>2, <2>1, RaiseKeeps
  <2>3. WritesOK' /\ ServerOK' /\ FlagsOK'
    BY <1>2, <2>1, WritesUnchanged, ServerUnchanged, FlagsUnchanged
  <2> QED
    BY <2>2, <2>3, TypeNext
<1>4. CASE s = Dispatcher
  <2>1. /\ call' = [call EXCEPT ![Cur(s)] = "raised"] /\ Fail(s, "fault")
        /\ UNCHANGED <<n, hand, waiters, pending, done, box>>
    BY <1>4 DEF ExpireSend, table
  <2>2. CountsOK' /\ ServerOK'
    BY <1>1, <1>2, <2>1, ServerUnchanged, TypeTogether DEF CountsOK
  <2>3. \A u \in Senders : u # s => call'[Cur(u)] = call[Cur(u)]
    BY <2>1, TypeTogether DEF CountsOK, Cur
  <2>4. s \notin Users /\ s # Writer /\ s # Owner
    BY <1>4, Names
  <2>5. /\ ThreadsOK' /\ TableOK' /\ WritesOK' /\ failure' \in {None, "timeout", "exited", "fault", "closed"}
        /\ CallsOpen' /\ WakersFailed' /\ OwnerLeaves' /\ WriterHolds'
    BY <1>1, <1>2, <2>1, <2>3, <2>4, FailKeeps
  <2>6. FlagsOK'
    BY <1>2, <2>5, TypeTogether DEF FlagsOK, ends
  <2> QED
    BY <2>2, <2>5, <2>6, TypeNext
<1> QED
  BY <1>3, <1>4

LEMMA TypeExpireAnswer ==
    ASSUME TypeInv, NEW s \in Senders, ExpireAnswer(s) PROVE TypeInv'
<1>1. InCall(s) /\ Cur(s) \in Ops
  BY DEF ExpireAnswer, InCall, TypeInv, CallsOpen
<1>2. Raise(s) /\ UNCHANGED <<fail, ends, server, served>> /\ UNCHANGED <<failure, victims, leaving>>
  BY DEF ExpireAnswer, fail, ends
<1>3. ServerOK' /\ FlagsOK'
  BY <1>2, ServerUnchanged, FlagsUnchanged
<1>4. /\ ThreadsOK' /\ CountsOK' /\ TableOK'
      /\ CallsOpen' /\ WakersFailed' /\ OwnerLeaves' /\ WriterHolds' /\ hand' = hand
  BY <1>1, <1>2, RaiseKeeps
<1>5. WritesOK'
  <2>1. [kind |-> "cancel", op |-> Cur(s)] \in Job
    BY <1>1 DEF Job, Kinds
  <2>2. CASE ~CancelQueued
    BY <1>4, <2>2, WritesUnchanged DEF ExpireAnswer
  <2>3. CASE CancelQueued
    BY <1>4, <2>1, <2>3, QueueMore, TypeTogether DEF ExpireAnswer, CancelQueued, WritesOK
  <2> QED
    BY <2>2, <2>3
<1> QED
  BY <1>3, <1>4, <1>5, TypeNext

LEMMA TypeKill == ASSUME TypeInv, NEW s \in Senders, Kill(s) PROVE TypeInv'
<1>1. at[s] = "kill" /\ UNCHANGED <<writes, fail, expecting, inbound, asks, served>> /\ Exits
  BY DEF Kill
<1>2. ServerOK'
  BY <1>1, TypeTogether DEF ServerOK, Exits
<1>3. CASE s = Owner /\ leaving = "closing"
  <2>1. /\ leaving' = "gone" /\ stop' = TRUE /\ Goto(s, "idle")
        /\ UNCHANGED <<n, kind, hand, call, table>> /\ UNCHANGED <<failure, victims>>
    BY <1>1, <1>3 DEF Kill, fail
  <2>2. "idle" \in UserSteps /\ s \in Users /\ s \in Threads /\ s # Dispatcher /\ s # Writer
    BY <1>3, Names DEF UserSteps
  <2>3. ThreadsOK' /\ at'[s] = "idle" /\ Others(s)
    BY <2>1, <2>2, GotoType, TypeTogether
  <2>4. CountsOK' /\ TableOK' /\ WritesOK' /\ FlagsOK'
    BY <1>1, <2>1, TableUnchanged, WritesUnchanged, TypeTogether DEF CountsOK, FlagsOK
  <2>5. ~InCall(s)' /\ OwnerLeaves'
    BY <1>3, <2>1, <2>3 DEF InCall, SendSteps, OwnerLeaves
  <2>6. CallsOpen' /\ WakersFailed' /\ OwnerLeaves' /\ WriterHolds'
    BY <1>3, <2>1, <2>2, <2>3, <2>5, Moves
  <2> QED
    BY <1>2, <2>3, <2>4, <2>6, TypeNext
<1>4. CASE ~(s = Owner /\ leaving = "closing")
  <2>1. Raise(s) /\ UNCHANGED <<failure, victims, leaving, stop>> /\ InCall(s)
    BY <1>1, <1>4 DEF Kill, fail, InCall
  <2>2. /\ ThreadsOK' /\ CountsOK' /\ TableOK'
        /\ CallsOpen' /\ WakersFailed' /\ OwnerLeaves' /\ WriterHolds' /\ hand' = hand
    BY <2>1, RaiseKeeps
  <2>3. WritesOK' /\ FlagsOK'
    BY <1>1, <2>1, <2>2, WritesUnchanged, TypeTogether DEF FlagsOK
  <2> QED
    BY <1>2, <2>2, <2>3, TypeNext
<1> QED
  BY <1>3, <1>4

LEMMA TypeWakeAll == ASSUME TypeInv, NEW t \in Threads, WakeAll(t) PROVE TypeInv'
<1>1. /\ at[t] = "wake" /\ Goto(t, After(t, failure))
      /\ done' = Completed(victims, Woken) /\ victims' = {} /\ pending' = {}
      /\ box' = [s \in Senders |-> IF Cur(s) \in pending THEN "error" ELSE box[s]]
      /\ UNCHANGED <<n, kind, hand, call, writes, waiters, failure, ends, server, served>>
      /\ leaving' = leaving /\ failure' = failure /\ n' = n /\ call' = call /\ hand' = hand
  BY DEF WakeAll, ends
<1>2. /\ t \in Users => After(t, failure) = "kill"
      /\ t = Dispatcher => After(t, failure) \in {"kill", "returned"}
      /\ t = Writer => After(t, failure) = "complete"
  BY <1>1, Names DEF After, TypeInv, WakersFailed
<1>3. /\ t \in Users => After(t, failure) \in UserSteps
      /\ t = Dispatcher => After(t, failure) \in DispatcherSteps
      /\ t = Writer => After(t, failure) \in WriterSteps
  BY <1>2 DEF UserSteps, DispatcherSteps, WriterSteps, FailSteps
<1>4. ThreadsOK' /\ at'[t] = After(t, failure) /\ Others(t)
  BY <1>1, <1>3, GotoType, TypeTogether
<1>5. TableOK'
  BY <1>1, TypeTogether DEF TableOK, Completed, Woken
<1>6. CountsOK' /\ WritesOK' /\ ServerOK' /\ FlagsOK'
  BY <1>1, WritesUnchanged, ServerUnchanged, FlagsUnchanged, TypeTogether DEF CountsOK
<1>7. ASSUME t \in Senders, InCall(t)'
      PROVE  Cur(t)' \in Ops /\ call'[Cur(t)'] = "open"
  <2>1. at'[t] = "kill" /\ ~(t = Owner /\ leaving = "closing")
    BY <1>1, <1>2, <1>4, <1>7, Names DEF InCall, SendSteps
  <2>2. failure = "timeout"
    BY <1>1, <1>4, <1>7, <2>1, Names DEF After, TypeInv, WakersFailed, OwnerLeaves
  <2>3. InCall(t) /\ Cur(t)' = Cur(t)
    BY <1>1, <2>2 DEF InCall, Cur
  <2> QED
    BY <1>1, <1>7, <2>3 DEF TypeInv, CallsOpen
<1>8. at'[t] # "wake"
  BY <1>4 DEF After
<1>9. t = Owner => OwnerLeaves'
  BY <1>1, <1>2, <1>4, Names DEF TypeInv, OwnerLeaves
<1>10. t = Writer => WriterHolds'
  BY <1>1, Names DEF TypeInv, WriterHolds
<1>11. CallsOpen' /\ WakersFailed' /\ OwnerLeaves' /\ WriterHolds'
  BY <1>1, <1>4, <1>7, <1>8, <1>9, <1>10, Moves
<1> QED
  BY <1>4, <1>5, <1>6, <1>11, TypeNext

\* A step of a writer or dispatcher that begins, ends and fails nothing.
LEMMA ThreadGoes ==
    ASSUME TypeInv, NEW t \in {Writer, Dispatcher}, NEW where, Goto(t, where),
           IF t = Writer THEN where \in WriterSteps \ {"wake"} ELSE where \in {"get", "returned"},
           IF t = Writer THEN WriterHolds' ELSE hand' = hand,
           UNCHANGED <<n, kind, call, failure, ends>>
    PROVE  ThreadsOK' /\ CountsOK' /\ FlagsOK'
           /\ CallsOpen' /\ WakersFailed' /\ OwnerLeaves' /\ WriterHolds'
<1>1. t \in Threads /\ t \notin Users /\ t # Owner /\ (t = Dispatcher => t # Writer)
  BY Names
<1>2. t = Dispatcher => where \in DispatcherSteps
  BY <1>1 DEF DispatcherSteps
<1>3. ThreadsOK' /\ at'[t] = where /\ Others(t)
  BY <1>1, <1>2, GotoType, TypeTogether
<1>4. CountsOK' /\ FlagsOK' /\ leaving' = leaving
  BY FlagsUnchanged, TypeTogether DEF CountsOK, ends
<1>5. t \in Senders => ~InCall(t)'
  BY <1>3, Names DEF InCall, SendSteps
<1>6. at'[t] # "wake"
  BY <1>3
<1>7. CallsOpen' /\ WakersFailed' /\ OwnerLeaves' /\ WriterHolds'
  BY <1>1, <1>3, <1>4, <1>5, <1>6, Moves
<1> QED
  BY <1>3, <1>4, <1>7

LEMMA TypeTakeJob == ASSUME TypeInv, TakeJob PROVE TypeInv'
<1>1. /\ writes # <<>> /\ hand' = Head(writes) /\ writes' = Tail(writes) /\ Goto(Writer, "check")
      /\ UNCHANGED <<n, kind, call, table, fail, ends, server, served>>
      /\ UNCHANGED <<failure, victims>>
  BY DEF TakeJob, fail
<1>2. hand' \in Job /\ WritesOK'
  BY <1>1, Bounds, TypeTogether DEF WritesOK
<1>3. "check" \in WriterSteps \ {"wake"} /\ WriterHolds'
  BY <1>2 DEF WriterSteps, WriterHolds
<1>4. ThreadsOK' /\ CountsOK' /\ FlagsOK' /\ CallsOpen' /\ WakersFailed' /\ OwnerLeaves' /\ WriterHolds'
  BY <1>1, <1>3, ThreadGoes
<1>5. TableOK' /\ ServerOK'
  BY <1>1, TableUnchanged, ServerUnchanged
<1> QED
  BY <1>2, <1>4, <1>5, TypeNext

LEMMA TypeWrite == ASSUME TypeInv, Write PROVE TypeInv'
<1>1. /\ at[Writer] \in {"check", "blocked"}
      /\ UNCHANGED <<n, kind, hand, call, table, ends, process, inbound, known, asks>>
      /\ UNCHANGED <<waiters, pending, done, box, leaving>>
  BY DEF Write, table, ends
<1>2. hand \in Job /\ hand' = hand /\ CountsOK'
  BY <1>1, TypeTogether DEF WriterHolds, CountsOK
<1>3. CASE Goto(Writer, "complete") /\ UNCHANGED <<fail, writes, stdin, served>>
  <2>1. "complete" \in WriterSteps \ {"wake"} /\ WriterHolds' /\ UNCHANGED <<failure, victims>>
    BY <1>2, <1>3 DEF WriterSteps, WriterHolds, fail
  <2>2. ThreadsOK' /\ CountsOK' /\ FlagsOK' /\ CallsOpen' /\ WakersFailed' /\ OwnerLeaves' /\ WriterHolds'
    BY <1>1, <1>3, <2>1, ThreadGoes
  <2>3. TableOK' /\ WritesOK' /\ ServerOK'
    BY <1>1, <1>3, <2>1, TableUnchanged, WritesUnchanged, TypeTogether DEF ServerOK
  <2> QED
    BY <2>2, <2>3, TypeNext
<1>4. CASE Goto(Writer, "blocked") /\ UNCHANGED <<fail, writes, stdin, served>>
  <2>1. "blocked" \in WriterSteps \ {"wake"} /\ WriterHolds' /\ UNCHANGED <<failure, victims>>
    BY <1>2, <1>4 DEF WriterSteps, WriterHolds, fail
  <2>2. ThreadsOK' /\ CountsOK' /\ FlagsOK' /\ CallsOpen' /\ WakersFailed' /\ OwnerLeaves' /\ WriterHolds'
    BY <1>1, <1>4, <2>1, ThreadGoes
  <2>3. TableOK' /\ WritesOK' /\ ServerOK'
    BY <1>1, <1>4, <2>1, TableUnchanged, WritesUnchanged, TypeTogether DEF ServerOK
  <2> QED
    BY <2>2, <2>3, TypeNext
<1>5. CASE WriteNow
  <2>1. "wrote" \in WriterSteps \ {"wake"} /\ WriterHolds' /\ UNCHANGED <<failure, victims, writes>>
        /\ Goto(Writer, "wrote")
    BY <1>2, <1>5 DEF WriterSteps, WriterHolds, WriteNow, fail
  <2>2. ThreadsOK' /\ CountsOK' /\ FlagsOK' /\ CallsOpen' /\ WakersFailed' /\ OwnerLeaves' /\ WriterHolds'
    BY <1>1, <2>1, ThreadGoes
  <2>3. TableOK' /\ WritesOK'
    BY <1>1, <2>1, TableUnchanged, WritesUnchanged
  <2>4. hand.op \in Ops
    BY <1>2 DEF Job
  <2>5. stdin' \in Seq(Job) /\ served' \subseteq Ops
    BY <1>2, <1>5, <2>4, TypeTogether DEF ServerOK, WriteNow
  <2>6. ServerOK'
    BY <1>1, <2>5, TypeTogether DEF ServerOK
  <2> QED
    BY <2>2, <2>3, <2>6, TypeNext
<1>6. CASE Fail(Writer, "exited") /\ UNCHANGED <<stdin, served>>
  <2>1. \A u \in Senders : call'[Cur(u)] = call[Cur(u)]
    BY <1>1
  <2>2. /\ ThreadsOK' /\ TableOK' /\ WritesOK' /\ failure' \in {None, "timeout", "exited", "fault", "closed"}
        /\ CallsOpen' /\ WakersFailed' /\ OwnerLeaves' /\ WriterHolds'
    BY <1>1, <1>2, <1>6, <2>1, Names, FailKeeps
  <2>3. FlagsOK' /\ ServerOK'
    BY <1>1, <1>6, <2>2, TypeTogether DEF FlagsOK, ServerOK, ends
  <2> QED
    BY <1>2, <2>2, <2>3, TypeNext
<1> QED
  BY <1>3, <1>4, <1>5, <1>6 DEF Write

LEMMA TypeCompleteWrite == ASSUME TypeInv, CompleteWrite PROVE TypeInv'
<1> DEFINE where == IF at[Writer] = "wrote" THEN "get" ELSE "returned"
<1>1. /\ hand' = None /\ Goto(Writer, where)
      /\ done' = IF hand.kind = "cancel" THEN done
                 ELSE Completed({hand.op}, IF at[Writer] = "wrote" THEN "ok" ELSE "error")
      /\ UNCHANGED <<n, kind, call, writes, waiters, pending, box, fail, ends, server, served>>
      /\ UNCHANGED <<failure, victims>>
  BY DEF CompleteWrite, fail
<1>2. where \in WriterSteps \ {"wake"} /\ where \in {"get", "returned"}
  BY DEF WriterSteps
<1>3. WriterHolds'
  BY <1>1, <1>2, Names, TypeTogether DEF WriterHolds, Goto, ThreadsOK
<1>4. ThreadsOK' /\ CountsOK' /\ FlagsOK' /\ CallsOpen' /\ WakersFailed' /\ OwnerLeaves' /\ WriterHolds'
  BY <1>1, <1>2, <1>3, ThreadGoes
<1>5. TableOK' /\ WritesOK' /\ ServerOK'
  BY <1>1, ServerUnchanged, TypeTogether DEF TableOK, WritesOK, Completed
<1> QED
  BY <1>4, <1>5, TypeNext

LEMMA TypeStops == ASSUME TypeInv, NEW t \in {Writer, Dispatcher}, Stops(t) PROVE TypeInv'
<1>1. /\ Goto(t, "returned") /\ UNCHANGED <<n, kind, hand, call, writes, table, fail, ends, server, served>>
      /\ UNCHANGED <<failure, victims>>
  BY DEF Stops, fail
<1>2. "returned" \in WriterSteps \ {"wake"} /\ (t = Writer => WriterHolds')
  BY <1>1, Names, TypeTogether DEF WriterSteps, WriterHolds, Goto, ThreadsOK
<1>3. ThreadsOK' /\ CountsOK' /\ FlagsOK' /\ CallsOpen' /\ WakersFailed' /\ OwnerLeaves' /\ WriterHolds'
  BY <1>1, <1>2, ThreadGoes
<1>4. TableOK' /\ WritesOK' /\ ServerOK'
  BY <1>1, TableUnchanged, WritesUnchanged, ServerUnchanged
<1> QED
  BY <1>3, <1>4, TypeNext

LEMMA TypeDispatch == ASSUME TypeInv, Dispatch PROVE TypeInv'
<1> DEFINE m == Head(inbound)
<1>1. /\ at[Dispatcher] = "get" /\ inbound # <<>> /\ inbound' = Tail(inbound)
      /\ UNCHANGED <<ends, process, stdin, known, asks, served>>
      /\ leaving' = leaving
  BY DEF Dispatch, ends
<1>2. m \in Message /\ ServerOK'
  BY <1>1, Bounds, TypeTogether DEF ServerOK
<1>3. CASE /\ m.type = "answer"
           /\ box' = IF m.op \in pending THEN [box EXCEPT ![m.op[1]] = "answer"] ELSE box
           /\ pending' = pending \ {m.op}
           /\ UNCHANGED <<thread, waiters, done, writes, fail>>
  <2>1. UNCHANGED <<at, n, kind, hand, call, failure, victims>>
    BY <1>3 DEF thread, fail
  <2>2. ThreadsOK' /\ CountsOK' /\ TableOK' /\ WritesOK' /\ FlagsOK'
    BY <1>1, <1>3, <2>1, FlagsUnchanged, TypeTogether DEF ThreadsOK, CountsOK, TableOK, WritesOK
  <2>3. CallsOpen' /\ WakersFailed' /\ OwnerLeaves' /\ WriterHolds'
    BY <1>1, <2>1, TypeTogether DEF CallsOpen, WakersFailed, OwnerLeaves, WriterHolds, InCall, Cur
  <2> QED
    BY <1>2, <2>2, <2>3, TypeNext
<1>4. CASE m.type = "ask" /\ Begin(m.op, "reply") /\ UNCHANGED <<hand, table, writes, fail>>
  <2>1. m.op[1] = Dispatcher /\ m.op \in Ops
    BY <1>2, <1>4, OpsAre, Bounds, Names DEF Message, Response, Request
  <2>2. "reply" \in Kinds /\ Dispatcher # Owner /\ UNCHANGED <<failure, victims>>
    BY <1>4, Names DEF Kinds, fail
  <2>3. ThreadsOK' /\ CountsOK' /\ CallsOpen' /\ WakersFailed' /\ OwnerLeaves' /\ WriterHolds'
    BY <1>1, <1>4, <2>1, <2>2, BeginKeeps
  <2>4. TableOK' /\ WritesOK' /\ FlagsOK'
    BY <1>1, <1>4, <2>2, TableUnchanged, WritesUnchanged, FlagsUnchanged
  <2> QED
    BY <1>2, <2>3, <2>4, TypeNext
<1>5. CASE Fail(Dispatcher, "fault") /\ UNCHANGED <<n, kind, hand, call, table>>
  <2>1. UNCHANGED <<waiters, pending, done, box>> /\ CountsOK'
    BY <1>5, TypeTogether DEF table, CountsOK
  <2>2. /\ ThreadsOK' /\ TableOK' /\ WritesOK' /\ failure' \in {None, "timeout", "exited", "fault", "closed"}
        /\ CallsOpen' /\ WakersFailed' /\ OwnerLeaves' /\ WriterHolds'
    BY <1>1, <1>5, <2>1, Names, FailKeeps
  <2>3. FlagsOK'
    BY <1>1, <2>2, TypeTogether DEF FlagsOK, ends
  <2> QED
    BY <1>2, <2>1, <2>2, <2>3, TypeNext
<1> QED
  BY <1>3, <1>4, <1>5 DEF Dispatch

LEMMA TypeDispatchEnd == ASSUME TypeInv, DispatchEnd PROVE TypeInv'
<1>1. /\ EndOfStream /\ UNCHANGED <<n, kind, hand, call, table, ends, server, served>>
      /\ UNCHANGED <<waiters, pending, done, box, leaving>>
  BY DEF DispatchEnd, table, ends
<1>2. ServerOK' /\ CountsOK'
  BY <1>1, ServerUnchanged, TypeTogether DEF CountsOK
<1>3. CASE Goto(Dispatcher, "returned") /\ UNCHANGED <<fail, writes>>
  <2>1. UNCHANGED <<failure, victims>> /\ Dispatcher # Writer
    BY <1>3, Names DEF fail
  <2>2. ThreadsOK' /\ CountsOK' /\ FlagsOK' /\ CallsOpen' /\ WakersFailed' /\ OwnerLeaves' /\ WriterHolds'
    BY <1>1, <1>3, <2>1, ThreadGoes
  <2> QED
    BY <1>1, <1>2, <1>3, <2>1, <2>2, TableUnchanged, WritesUnchanged, TypeNext
<1>4. CASE Fail(Dispatcher, "exited")
  <2>1. /\ ThreadsOK' /\ TableOK' /\ WritesOK' /\ failure' \in {None, "timeout", "exited", "fault", "closed"}
        /\ CallsOpen' /\ WakersFailed' /\ OwnerLeaves' /\ WriterHolds'
    BY <1>1, <1>4, Names, FailKeeps
  <2>2. FlagsOK'
    BY <1>1, <2>1, TypeTogether DEF FlagsOK, ends
  <2> QED
    BY <1>2, <2>1, <2>2, TypeNext
<1> QED
  BY <1>1, <1>3, <1>4 DEF EndOfStream

\* The owner goes on with leaving, without a step of its own thread.
LEMMA OwnerGoes ==
    ASSUME TypeInv, at[Owner] = "idle",
           leaving' \in {"shutdown", "exit", "finish", "abort", "gone"},
           expecting' \in BOOLEAN, stop' \in BOOLEAN,
           UNCHANGED <<at, n, kind, hand, call, writes, table, fail>>, ServerOK'
    PROVE  TypeInv'
<1>1. UNCHANGED <<failure, victims>> /\ failure' = failure /\ at' = at /\ n' = n /\ call' = call /\ hand' = hand
  BY DEF fail
<1>2. TableOK' /\ WritesOK' /\ ThreadsOK' /\ CountsOK' /\ FlagsOK'
  BY <1>1, TableUnchanged, WritesUnchanged, TypeTogether DEF ThreadsOK, CountsOK, FlagsOK
<1>3. Others(Owner) /\ ~InCall(Owner)' /\ OwnerLeaves'
  BY <1>1 DEF Others, InCall, SendSteps, OwnerLeaves
<1>4. at'[Owner] # "wake"
  BY <1>1
<1>5. CallsOpen' /\ WakersFailed' /\ OwnerLeaves' /\ WriterHolds'
  BY <1>1, <1>3, <1>4, Names, Moves
<1> QED
  BY <1>2, <1>5, TypeNext

LEMMA TypeShutdown == ASSUME TypeInv, Shutdown PROVE TypeInv'
<1>1. /\ at[Owner] = "idle" /\ leaving = "shutdown" /\ n[Owner] = 0
      /\ UNCHANGED <<hand, writes, table, fail, stop, expecting, server, served>>
      /\ UNCHANGED <<failure, victims>>
  BY DEF Shutdown, fail
<1>2. ServerOK'
  BY <1>1, ServerUnchanged
<1>3. CASE Begin(Following(Owner), "request") /\ UNCHANGED leaving
  <2>1. Following(Owner) \in Ops /\ Following(Owner)[1] = Owner /\ "request" \in Kinds
    BY <1>1, FollowingIs, Bounds, Names DEF Kinds
  <2>2. ThreadsOK' /\ CountsOK' /\ CallsOpen' /\ WakersFailed' /\ OwnerLeaves' /\ WriterHolds'
    BY <1>1, <1>3, <2>1, Names, BeginKeeps
  <2>3. TableOK' /\ WritesOK' /\ FlagsOK'
    BY <1>1, <1>3, TableUnchanged, WritesUnchanged, TypeTogether DEF FlagsOK
  <2> QED
    BY <1>2, <2>2, <2>3, TypeNext
<1>4. CASE leaving' = "finish" /\ UNCHANGED <<at, n, kind, call>>
  BY <1>1, <1>2, <1>4, OwnerGoes, TypeTogether DEF FlagsOK
<1> QED
  BY <1>3, <1>4 DEF Shutdown

LEMMA TypeNotifyExit == ASSUME TypeInv, NotifyExit PROVE TypeInv'
<1>1. /\ at[Owner] = "idle" /\ leaving = "exit" /\ n[Owner] = 1
      /\ UNCHANGED <<hand, writes, table, fail, stop, expecting, server, served>>
      /\ UNCHANGED <<failure, victims>>
  BY DEF NotifyExit, fail
<1>2. ServerOK'
  BY <1>1, ServerUnchanged
<1>3. CASE Begin(Following(Owner), "exit") /\ UNCHANGED leaving
  <2>1. Following(Owner) \in Ops /\ Following(Owner)[1] = Owner /\ "exit" \in Kinds
    BY <1>1, FollowingIs, Bounds, Names DEF Kinds
  <2>2. ThreadsOK' /\ CountsOK' /\ CallsOpen' /\ WakersFailed' /\ OwnerLeaves' /\ WriterHolds'
    BY <1>1, <1>3, <2>1, Names, BeginKeeps
  <2>3. TableOK' /\ WritesOK' /\ FlagsOK'
    BY <1>1, <1>3, TableUnchanged, WritesUnchanged, TypeTogether DEF FlagsOK
  <2> QED
    BY <1>2, <2>2, <2>3, TypeNext
<1>4. CASE leaving' = "abort" /\ UNCHANGED <<at, n, kind, call>>
  BY <1>1, <1>2, <1>4, OwnerGoes, TypeTogether DEF FlagsOK
<1> QED
  BY <1>3, <1>4 DEF NotifyExit

LEMMA TypeShutdownAnswered == ASSUME TypeInv, ShutdownAnswered PROVE TypeInv'
<1>1. /\ at[Owner] = "idle" /\ UNCHANGED <<thread, writes, table, fail, stop, server, served>>
      /\ leaving' \in {"exit", "abort"} /\ expecting' \in {TRUE, expecting}
  BY DEF ShutdownAnswered
<1>2. ServerOK' /\ UNCHANGED <<at, n, kind, hand, call>>
  BY <1>1, ServerUnchanged DEF thread
<1>3. stop' \in BOOLEAN /\ expecting' \in BOOLEAN
  BY <1>1, TypeTogether DEF FlagsOK
<1> QED
  BY <1>1, <1>2, <1>3, OwnerGoes

LEMMA TypeExitNotified == ASSUME TypeInv, ExitNotified PROVE TypeInv'
<1>1. /\ at[Owner] = "idle" /\ UNCHANGED <<thread, writes, table, fail, stop, expecting, server, served>>
      /\ leaving' \in {"finish", "abort"}
  BY DEF ExitNotified
<1>2. ServerOK' /\ UNCHANGED <<at, n, kind, hand, call>>
  BY <1>1, ServerUnchanged DEF thread
<1> QED
  BY <1>1, <1>2, OwnerGoes, TypeTogether DEF FlagsOK

LEMMA TypeFinish == ASSUME TypeInv, Finish PROVE TypeInv'
<1>1. /\ leaving = "finish" /\ leaving' = "gone" /\ stop' = TRUE /\ Exits
      /\ UNCHANGED <<thread, writes, table, fail, expecting, inbound, asks, served>>
  BY DEF Finish
<1>2. ServerOK' /\ UNCHANGED <<at, n, kind, hand, call>> /\ at[Owner] = "idle"
  BY <1>1, TypeTogether DEF ServerOK, Exits, thread, OwnerLeaves
<1> QED
  BY <1>1, <1>2, OwnerGoes, TypeTogether DEF FlagsOK

LEMMA TypeAbort == ASSUME TypeInv, Abort PROVE TypeInv'
<1>1. /\ leaving' = "closing" /\ stop' = TRUE /\ Fail(Owner, "closed") /\ Exits
      /\ UNCHANGED <<n, kind, hand, call, table, expecting, inbound, asks, served>>
      /\ UNCHANGED <<waiters, pending, done, box>>
  BY DEF Abort, table
<1>2. ServerOK' /\ CountsOK'
  BY <1>1, TypeTogether DEF ServerOK, Exits, CountsOK
<1>3. /\ ThreadsOK' /\ TableOK' /\ WritesOK' /\ failure' \in {None, "timeout", "exited", "fault", "closed"}
      /\ CallsOpen' /\ WakersFailed' /\ OwnerLeaves' /\ WriterHolds'
  BY <1>1, Names, FailKeeps
<1>4. FlagsOK'
  BY <1>1, <1>3, TypeTogether DEF FlagsOK
<1> QED
  BY <1>2, <1>3, <1>4, TypeNext

LEMMA TypeLeave == ASSUME TypeInv, Leave PROVE TypeInv'
<1>1. /\ at[Owner] = "idle" /\ UNCHANGED <<n, kind, hand, call, table, stop, expecting, server, served>>
      /\ UNCHANGED <<waiters, pending, done, box>>
  BY DEF Leave, table
<1>2. ServerOK' /\ CountsOK'
  BY <1>1, ServerUnchanged, TypeTogether DEF CountsOK
<1>3. CASE leaving' = "closing" /\ Fail(Owner, "closed")
  <2>1. /\ ThreadsOK' /\ TableOK' /\ WritesOK' /\ failure' \in {None, "timeout", "exited", "fault", "closed"}
        /\ CallsOpen' /\ WakersFailed' /\ OwnerLeaves' /\ WriterHolds'
    BY <1>1, <1>3, Names, FailKeeps
  <2>2. FlagsOK'
    BY <1>1, <1>3, <2>1, TypeTogether DEF FlagsOK
  <2> QED
    BY <1>2, <2>1, <2>2, TypeNext
<1>4. CASE leaving' = "shutdown" /\ UNCHANGED <<at, fail, writes>>
  BY <1>1, <1>2, <1>4, OwnerGoes, TypeTogether DEF FlagsOK
<1> QED
  BY <1>3, <1>4 DEF Leave

\* The server does not touch what the threads have.
LEMMA ServerGoes ==
    ASSUME TypeInv, UNCHANGED <<thread, writes, table, fail, ends>>, ServerOK'
    PROVE  TypeInv'
<1>1. UNCHANGED <<at, n, kind, hand, call, failure, victims, leaving>>
  BY DEF thread, fail, ends
<1>2. ThreadsOK' /\ CountsOK' /\ TableOK' /\ WritesOK' /\ FlagsOK'
  BY <1>1, TableUnchanged, WritesUnchanged, FlagsUnchanged, TypeTogether DEF ThreadsOK, CountsOK
<1>3. CallsOpen' /\ WakersFailed' /\ OwnerLeaves' /\ WriterHolds'
  BY <1>1, TypeTogether DEF CallsOpen, WakersFailed, OwnerLeaves, WriterHolds, InCall, Cur
<1> QED
  BY <1>2, <1>3, TypeNext

LEMMA TypeServer == ASSUME TypeInv, Server PROVE TypeInv'
<1>1. CASE Receive
  <2>1. stdin # <<>> /\ stdin \in Seq(Job) /\ known \subseteq Ops /\ process \in {"running", "exited"}
    BY <1>1, TypeTogether DEF Receive, ServerOK
  <2>2. Head(stdin) \in Job /\ Tail(stdin) \in Seq(Job)
    BY <2>1
  <2>3. Head(stdin).op \in Ops
    BY <2>2 DEF Job
  <2>4. CASE Exits
    BY <1>1, <2>4, ServerGoes, TypeTogether DEF Receive, ServerOK, Exits
  <2>5. CASE ~Exits
    <3>1. /\ stdin' = Tail(stdin) /\ process' = process
          /\ known' \in {known \cup {Head(stdin).op}, known, known \ {Head(stdin).op}}
      BY <1>1, <2>5 DEF Receive
    <3>2. stdin' \in Seq(Job) /\ known' \subseteq Ops
      BY <2>1, <2>2, <2>3, <3>1
    <3> QED
      BY <1>1, <3>1, <3>2, ServerGoes, TypeTogether DEF Receive, ServerOK
  <2> QED
    BY <2>4, <2>5
<1>2. ASSUME NEW o \in Ops, Respond(o) PROVE TypeInv'
  <2>1. [type |-> "answer", op |-> o] \in Message
    BY DEF Message, Response
  <2>2. inbound' \in Seq(Message) /\ Len(inbound') <= InboundLimit
    BY <1>2, <2>1, Bounds, TypeTogether DEF Respond, ServerOK
  <2>3. ServerOK' /\ UNCHANGED <<thread, writes, table, fail, ends>>
    BY <1>2, <2>2, TypeTogether DEF Respond, ServerOK
  <2> QED
    BY <2>3, ServerGoes
<1>3. CASE Ask
  <2>1. PICK t \in {"ask", "malformed"} : inbound' = Append(inbound, [type |-> t, op |-> <<Dispatcher, asks + 1>>])
    BY <1>3 DEF Ask
  <2>2. asks' = asks + 1 /\ asks' \in 0..MaxAsks /\ asks + 1 \in 1..MaxAsks /\ Len(inbound) < InboundLimit
    BY <1>3, Bounds, TypeTogether DEF Ask, ServerOK
  <2>3. [type |-> t, op |-> <<Dispatcher, asks + 1>>] \in Message
    BY <2>2 DEF Message, Request
  <2>4. inbound' \in Seq(Message) /\ Len(inbound') <= InboundLimit
    BY <2>1, <2>2, <2>3, Bounds, TypeTogether DEF ServerOK
  <2>5. ServerOK' /\ UNCHANGED <<thread, writes, table, fail, ends>>
    BY <1>3, <2>2, <2>4, TypeTogether DEF Ask, ServerOK
  <2> QED
    BY <2>5, ServerGoes
<1>4. CASE Die
  <2>1. ServerOK' /\ UNCHANGED <<thread, writes, table, fail, ends>>
    BY <1>4, TypeTogether DEF Die, ServerOK, Exits
  <2> QED
    BY <2>1, ServerGoes
<1> QED
  BY <1>1, <1>2, <1>3, <1>4 DEF Server

LEMMA TypeInit == Init => TypeInv
<1> SUFFICES ASSUME Init PROVE TypeInv
  OBVIOUS
<1>1. /\ at = [t \in Threads |-> IF t \in Users THEN "idle" ELSE "get"]
      /\ failure = None /\ leaving = "no"
  BY DEF Init
<1>2. ThreadsOK
  BY <1>1, Names DEF ThreadsOK, UserSteps, DispatcherSteps, WriterSteps
<1>3. CountsOK /\ FlagsOK
  <2>1. kind = [s \in Senders |-> "notify"] /\ "notify" \in Kinds /\ n = [s \in Senders |-> 0]
    BY DEF Init, Kinds
  <2>2. n \in [Senders -> Nat] /\ (\A s \in Senders : n[s] <= Limit(s)) /\ kind \in [Senders -> Kinds]
    BY <2>1, Bounds
  <2>3. kind[Dispatcher] # "request"
    BY <2>1, Names
  <2>4. call \in [Ops -> {"unused", "open", "returned", "raised"}]
    BY DEF Init
  <2> QED
    BY <2>2, <2>3, <2>4 DEF Init, CountsOK, FlagsOK
<1>4. TableOK /\ WritesOK /\ ServerOK
  BY Bounds DEF Init, TableOK, WritesOK, ServerOK
<1>5. CallsOpen /\ WakersFailed /\ OwnerLeaves /\ WriterHolds
  BY <1>1, Names DEF CallsOpen, WakersFailed, OwnerLeaves, WriterHolds, InCall, SendSteps
<1> QED
  BY <1>2, <1>3, <1>4, <1>5, TypeTogether

LEMMA TypeNextStep == TypeInv /\ [Next]_vars => TypeInv'
<1> SUFFICES ASSUME TypeInv, [Next]_vars PROVE TypeInv'
  OBVIOUS
<1>1. ASSUME NEW s \in Senders, CallStep(s) PROVE TypeInv'
  BY <1>1, TypeRegister, TypeSend, TypeEnqueue, TypeAwaitWrite, TypeAwaitAnswer, TypeKill DEF CallStep
<1>2. ASSUME NEW s \in Senders, Expire(s) PROVE TypeInv'
  BY <1>2, TypeExpireSend, TypeExpireWrite, TypeExpireAnswer DEF Expire
<1>3. CASE OwnerStep
  BY <1>3, TypeShutdown, TypeShutdownAnswered, TypeNotifyExit, TypeExitNotified, TypeFinish, TypeAbort
     DEF OwnerStep
<1>4. CASE Client
  BY <1>1, <1>3, <1>4, TypeWakeAll, TypeTakeJob, TypeWrite, TypeCompleteWrite, TypeDispatch,
     TypeDispatchEnd, TypeStops DEF Client
<1>5. CASE UNCHANGED vars
  <2>1. UNCHANGED <<thread, writes, table, fail, ends, server, served>>
    BY <1>5 DEF vars
  <2> QED
    BY <2>1, ServerUnchanged, ServerGoes
<1> QED
  BY <1>2, <1>4, <1>5, TypeServer, TypeLeave, TypeCall DEF Next, Deadlines

\* The threads are where they can be, the queues within their limits and the
\* tables typed: the thread model of analyzers/dart/lsp.py is well formed.
THEOREM TypeCorrect == Spec => []TypeOK
<1>1. TypeInv => TypeOK
  BY DEF TypeInv
<1> QED
  BY <1>1, TypeInit, TypeNextStep, PTL DEF Spec

-----------------------------------------------------------------------------
(* Every action keeps FailInv.                                             *)

LEMMA FailUnchanged ==
    ASSUME FailInv, UNCHANGED <<at, n, kind, writes, table, failure, victims>>
    PROVE  FailInv'
<1>1. UNCHANGED <<waiters, pending, done, box>>
  BY DEF table
<1>2. OneWaker' /\ WaitersKnown' /\ VictimsToWake' /\ RequestsPending'
  BY <1>1 DEF FailInv, OneWaker, WaitersKnown, VictimsToWake, RequestsPending, Waking, Cur
<1> QED
  BY <1>1, <1>2 DEF FailInv, Spread

\* What a step of thread t has to show that neither fails the client nor tells
\* of a failure.
LEMMA FailMoves ==
    ASSUME FailInv, NEW t \in Threads, Others(t), at[t] # "wake", at'[t] # "wake",
           failure' = failure, victims' = victims,
           failure # None => writes' = <<>> /\ pending' \in SUBSET pending,
           \A u \in Senders : u # t =>
               /\ n'[u] = n[u] /\ kind'[u] = kind[u]
               /\ Cur(u) \in waiters => Cur(u) \in waiters'
               /\ done'[u] = None => done[u] = None
               /\ box'[u] = None => box[u] = None /\ (Cur(u) \in pending => Cur(u) \in pending'),
           t \in Senders =>
               /\ at'[t] \in {"enqueue", "written"} /\ failure = None => Cur(t)' \in waiters'
               /\ at'[t] = "written" /\ done'[t] = None => failure = None
               /\ at'[t] \in {"register", "answer"} => kind'[t] = "request"
               /\ at'[t] \in SendSteps \cup {"answer"} /\ kind'[t] = "request" /\ box'[t] = None
                     => Cur(t)' \in pending'
    PROVE  FailInv'
<1>1. \A u \in Threads : at'[u] = "wake" <=> at[u] = "wake"
  BY DEF Others
<1>2. OneWaker'
  BY <1>1 DEF FailInv, OneWaker
<1>3. \A u \in Senders : u # t => at'[u] = at[u] /\ Cur(u)' = Cur(u)
  BY Names DEF Others, Cur
<1>4. WaitersKnown'
  BY <1>3 DEF FailInv, WaitersKnown
<1>5. Waking' <=> Waking
  BY <1>1 DEF Waking
<1>6. VictimsToWake'
  BY <1>3, <1>5 DEF FailInv, VictimsToWake
<1>7. RequestsPending'
  <2> SUFFICES ASSUME NEW u \in Senders
               PROVE  /\ at'[u] \in {"register", "answer"} => kind'[u] = "request"
                      /\ at'[u] \in SendSteps \cup {"answer"} /\ kind'[u] = "request" /\ box'[u] = None
                            => Cur(u)' \in pending'
    BY Zenon DEF RequestsPending
  <2>1. CASE u = t
    BY <2>1
  <2>2. CASE u # t
    BY <1>3, <2>2 DEF FailInv, RequestsPending
  <2> QED
    BY <2>1, <2>2
<1>8. Spread' => pending' = {}
  BY <1>1 DEF FailInv, Spread
<1> QED
  BY <1>2, <1>4, <1>6, <1>7, <1>8 DEF FailInv

LEMMA FailFails ==
    ASSUME TypeInv, FailInv, NEW t \in Threads, at[t] # "wake",
           NEW e \in {"timeout", "exited", "fault", "closed"}, Fail(t, e),
           t \in Users => e \in {"timeout", "closed"},
           UNCHANGED <<n, kind, waiters, pending, done, box>>
    PROVE  FailInv'
<1>1. /\ Others(t)
      /\ \/ failure # None /\ at'[t] = After(t, e) /\ UNCHANGED <<failure, victims, writes>>
         \/ failure = None /\ failure' = e /\ at'[t] = "wake" /\ victims' = waiters /\ writes' = <<>>
  BY FailType DEF TypeInv
<1>2. CASE failure # None /\ at'[t] = After(t, e) /\ UNCHANGED <<failure, victims, writes>>
  <2>1. at'[t] \in {"complete", "kill", "returned"}
    BY <1>2 DEF After
  <2>2. at'[t] \notin SendSteps \cup {"wake", "register", "answer", "enqueue", "written"}
    BY <2>1 DEF SendSteps
  <2>3. failure # None => writes' = <<>> /\ pending' \in SUBSET pending
    BY <1>2 DEF FailInv
  <2> QED
    BY <1>1, <1>2, <2>2, <2>3, FailMoves
<1>3. CASE failure = None /\ failure' = e /\ at'[t] = "wake" /\ victims' = waiters /\ writes' = <<>>
  <2>1. e # None /\ \A u \in Threads : at[u] # "wake"
    BY <1>3, Bounds DEF FailInv, OneWaker
  <2>2. \A u \in Threads : at'[u] = "wake" <=> u = t
    BY <1>1, <1>3, <2>1 DEF Others
  <2>3. OneWaker' /\ Waking' /\ ~Spread'
    BY <1>3, <2>1, <2>2 DEF OneWaker, Waking, Spread
  <2>4. \A u \in Senders : at'[u] = "wake" \/ (at'[u] = at[u] /\ Cur(u)' = Cur(u))
    BY <1>1, <1>3, Names DEF Others, Cur
  <2>5. WaitersKnown' /\ VictimsToWake' /\ RequestsPending'
    BY <1>3, <2>1, <2>3, <2>4
       DEF FailInv, WaitersKnown, VictimsToWake, RequestsPending, SendSteps
  <2> QED
    BY <1>3, <2>3, <2>5 DEF FailInv
<1> QED
  BY <1>1, <1>2, <1>3

LEMMA FailWakeAll ==
    ASSUME TypeInv, FailInv, NEW t \in Threads, WakeAll(t)
    PROVE  FailInv'
<1>1. /\ at[t] = "wake" /\ Goto(t, After(t, failure))
      /\ done' = Completed(victims, Woken) /\ pending' = {}
      /\ box' = [s \in Senders |-> IF Cur(s) \in pending THEN "error" ELSE box[s]]
      /\ n' = n /\ kind' = kind /\ call' = call /\ writes' = writes /\ failure' = failure
  BY DEF WakeAll
<1>2. After(t, failure) \in {"complete", "kill", "returned"}
  BY DEF After
<1>3. at'[t] \in {"complete", "kill", "returned"} /\ Others(t)
  BY <1>1, <1>2, TypeTogether DEF ThreadsOK, Goto, Others
<1>4. failure # None /\ \A u \in Threads : u # t => at[u] # "wake"
  BY <1>1 DEF FailInv, OneWaker
<1>5. \A u \in Threads : at'[u] # "wake"
  BY <1>3, <1>4 DEF Others
<1>6. \A u \in Senders : \/ at'[u] = at[u] /\ Cur(u)' = Cur(u)
                         \/ at'[u] \in {"complete", "kill", "returned"}
  BY <1>1, <1>3, Names DEF Others, Cur
<1>7. OneWaker' /\ WaitersKnown'
  BY <1>1, <1>4, <1>5 DEF OneWaker, WaitersKnown
<1>8. VictimsToWake'
  <2> SUFFICES ASSUME NEW u \in Senders, at'[u] = "written" PROVE done'[u] # None
    BY Zenon DEF VictimsToWake
  <2>1. at[u] = "written"
    BY <1>6
  <2>2. done[u] # None \/ Cur(u) \in victims
    BY <1>4, <2>1 DEF FailInv, VictimsToWake
  <2>3. call[Cur(u)] = "open"
    BY <2>1 DEF TypeInv, CallsOpen, InCall, SendSteps
  <2> QED
    BY <1>1, <2>2, <2>3, Bounds DEF Completed, Woken
<1>9. RequestsPending'
  <2> SUFFICES ASSUME NEW u \in Senders
               PROVE  /\ at'[u] \in {"register", "answer"} => kind'[u] = "request"
                      /\ at'[u] \in SendSteps \cup {"answer"} /\ kind'[u] = "request" => box'[u] # None
    BY Zenon DEF RequestsPending
  <2>1. CASE at'[u] = at[u]
    BY <1>1, <2>1, Bounds DEF FailInv, RequestsPending
  <2>2. CASE at'[u] \in {"complete", "kill", "returned"}
    BY <2>2 DEF SendSteps
  <2> QED
    BY <1>6, <2>1, <2>2
<1> QED
  BY <1>1, <1>7, <1>8, <1>9 DEF FailInv

LEMMA FailEnds ==
    ASSUME TypeInv, FailInv, NEW s \in Senders, InCall(s), at[s] # "wake",
           NEW outcome \in {"returned", "raised"}, End(s, outcome),
           pending' \in {pending, pending \ {Cur(s)}},
           failure # None => writes' = <<>>, UNCHANGED <<failure, victims>>
    PROVE  FailInv'
<1>1. Cur(s) \in Ops /\ TypeOK /\ s \in Threads
  BY Names DEF TypeInv, CallsOpen
<1>2. /\ Others(s) /\ n' = n /\ kind' = kind
      /\ at'[s] = IF s \in Users THEN "idle" ELSE IF outcome = "returned" THEN "get" ELSE "returned"
      /\ \A u \in Senders : u # s => done'[u] = done[u] /\ box'[u] = box[u]
      /\ waiters' = waiters \ {Cur(s)}
  BY <1>1, EndType
<1>3. at'[s] \notin SendSteps \cup {"wake", "register", "answer", "enqueue", "written"}
  BY <1>2 DEF SendSteps
<1>4. \A u \in Senders : u # s => Cur(u) # Cur(s)
  BY DEF Cur
<1>5. pending' \in SUBSET pending /\ (\A u \in Senders : u # s /\ Cur(u) \in pending => Cur(u) \in pending')
  BY <1>4
<1> QED
  BY <1>1, <1>2, <1>3, <1>4, <1>5, FailMoves

LEMMA FailRaise ==
    ASSUME TypeInv, FailInv, NEW s \in Senders, InCall(s), at[s] # "wake", Raise(s),
           failure # None => writes' = <<>>, UNCHANGED <<failure, victims>>
    PROVE  FailInv'
<1>1. End(s, "raised") /\ pending' \in {pending, pending \ {Cur(s)}}
  BY DEF Raise
<1> QED
  BY <1>1, FailEnds

\* A call begins: its thread had been outside of calls.
LEMMA FailBegin ==
    ASSUME TypeInv, FailInv, NEW o \in Ops, NEW k \in Kinds, Begin(o, k),
           k = "request" => o[1] \in Users, at[o[1]] # "wake",
           UNCHANGED <<writes, table, failure, victims>>
    PROVE  FailInv'
<1>1. ThreadsOK /\ CountsOK /\ o[1] \in Senders /\ o[1] \in Threads
  BY TypeTogether, OpsAre, Names
<1>2. /\ Others(o[1])
      /\ at'[o[1]] = IF k = "request" THEN "register" ELSE "send"
      /\ kind'[o[1]] = k
      /\ \A s \in Senders : s # o[1] => n'[s] = n[s] /\ kind'[s] = kind[s]
  BY <1>1, BeginType
<1>3. UNCHANGED <<waiters, pending, done, box>> /\ (failure # None => writes' = <<>>)
  BY DEF table, FailInv
<1>4. at'[o[1]] \notin {"wake", "enqueue", "written"}
  BY <1>2
<1>5. at'[o[1]] \in SendSteps \cup {"answer"} => kind'[o[1]] # "request"
  BY <1>2 DEF SendSteps
<1>6. at'[o[1]] \in {"register", "answer"} => kind'[o[1]] = "request"
  BY <1>2
<1> QED
  BY <1>1, <1>2, <1>3, <1>4, <1>5, <1>6, FailMoves

LEMMA FailCallStep ==
    ASSUME TypeInv, FailInv, NEW s \in Senders, CallStep(s) PROVE FailInv'
<1> USE Names
<1>1. CASE Register(s)
  <2>1. InCall(s) /\ at[s] = "register" /\ UNCHANGED <<writes, failure, victims>> /\ (failure # None => writes' = <<>>)
    BY <1>1 DEF Register, InCall, FailInv, fail
  <2>2. CASE Raise(s)
    BY <2>1, <2>2, FailRaise
  <2>3. CASE /\ failure = None /\ pending' = pending \cup {Cur(s)} /\ Goto(s, "send")
             /\ UNCHANGED <<n, kind, hand, call, waiters, done, box>>
    <3>1. at'[s] = "send" /\ Others(s) /\ Cur(s)' = Cur(s)
      BY <2>3, TypeTogether DEF ThreadsOK, Goto, Others, Cur
    <3> QED
      BY <2>1, <2>3, <3>1, FailMoves
  <2> QED
    BY <1>1, <2>2, <2>3 DEF Register
<1>2. CASE Send(s)
  <2>1. InCall(s) /\ at[s] = "send" /\ UNCHANGED <<writes, failure, victims>> /\ (failure # None => writes' = <<>>)
    BY <1>2 DEF Send, InCall, SendSteps, FailInv, fail
  <2>2. CASE Raise(s)
    BY <2>1, <2>2, FailRaise
  <2>3. CASE /\ failure = None /\ waiters' = waiters \cup {Cur(s)} /\ Goto(s, "enqueue")
             /\ UNCHANGED <<n, kind, hand, call, pending, done, box>>
    <3>1. at'[s] = "enqueue" /\ Others(s) /\ Cur(s)' = Cur(s)
      BY <2>3, TypeTogether DEF ThreadsOK, Goto, Others, Cur
    <3>2. kind[s] = "request" /\ box[s] = None => Cur(s) \in pending
      BY <2>1 DEF FailInv, RequestsPending, SendSteps
    <3> QED
      BY <2>1, <2>3, <3>1, <3>2, FailMoves
  <2> QED
    BY <1>2, <2>2, <2>3 DEF Send
<1>3. CASE Enqueue(s)
  <2>1. InCall(s) /\ at[s] = "enqueue" /\ UNCHANGED <<failure, victims>>
    BY <1>3 DEF Enqueue, InCall, SendSteps, fail
  <2>2. CASE Raise(s) /\ UNCHANGED writes
    BY <2>1, <2>2, FailRaise DEF FailInv
  <2>3. CASE failure = None /\ Goto(s, "written") /\ UNCHANGED <<n, kind, hand, call, table>>
    <3>1. at'[s] = "written" /\ Others(s) /\ Cur(s)' = Cur(s)
      BY <2>3, TypeTogether DEF ThreadsOK, Goto, Others, Cur
    <3>2. kind[s] = "request" /\ box[s] = None => Cur(s) \in pending
      BY <2>1 DEF FailInv, RequestsPending, SendSteps
    <3>3. Cur(s) \in waiters
      BY <2>1, <2>3 DEF FailInv, WaitersKnown
    <3> QED
      BY <2>1, <2>3, <3>1, <3>2, <3>3, FailMoves DEF table
  <2> QED
    BY <1>3, <2>2, <2>3 DEF Enqueue
<1>4. CASE AwaitWrite(s)
  <2>1. InCall(s) /\ at[s] = "written" /\ UNCHANGED <<writes, failure, victims>> /\ (failure # None => writes' = <<>>)
    BY <1>4 DEF AwaitWrite, InCall, SendSteps, FailInv, fail
  <2>2. CASE Raise(s)
    BY <2>1, <2>2, FailRaise
  <2>3. CASE End(s, "returned") /\ UNCHANGED pending
    BY <2>1, <2>3, FailEnds
  <2>4. CASE /\ kind[s] = "request" /\ waiters' = waiters \ {Cur(s)} /\ Goto(s, "answer")
             /\ UNCHANGED <<n, kind, hand, call, pending, done, box>>
    <3>1. at'[s] = "answer" /\ Others(s) /\ Cur(s)' = Cur(s)
      BY <2>4, TypeTogether DEF ThreadsOK, Goto, Others, Cur
    <3>2. box[s] = None => Cur(s) \in pending
      BY <2>1, <2>4 DEF FailInv, RequestsPending, SendSteps
    <3>3. \A u \in Senders : u # s => Cur(u) # Cur(s)
      BY DEF Cur
    <3> QED
      BY <2>1, <2>4, <3>1, <3>2, <3>3, FailMoves
  <2> QED
    BY <1>4, <2>2, <2>3, <2>4 DEF AwaitWrite
<1>5. CASE AwaitAnswer(s)
  <2>1. InCall(s) /\ at[s] = "answer" /\ UNCHANGED <<writes, failure, victims>> /\ (failure # None => writes' = <<>>)
    BY <1>5 DEF AwaitAnswer, InCall, FailInv, fail
  <2>2. CASE Raise(s)
    BY <2>1, <2>2, FailRaise
  <2>3. CASE End(s, "returned") /\ UNCHANGED pending
    BY <2>1, <2>3, FailEnds
  <2> QED
    BY <1>5, <2>2, <2>3 DEF AwaitAnswer
<1>6. CASE Kill(s)
  <2>1. at[s] = "kill" /\ UNCHANGED <<writes, failure, victims>> /\ (failure # None => writes' = <<>>)
    BY <1>6 DEF Kill, FailInv, fail
  <2>2. CASE s = Owner /\ leaving = "closing"
    <3>1. Goto(s, "idle") /\ UNCHANGED <<n, kind, hand, call, table>>
      BY <1>6, <2>2 DEF Kill
    <3>2. at'[s] = "idle" /\ Others(s) /\ UNCHANGED <<waiters, pending, done, box>>
      BY <3>1, TypeTogether DEF ThreadsOK, Goto, Others, table
    <3>3. at'[s] \notin SendSteps
      BY <3>2 DEF SendSteps
    <3> QED
      BY <2>1, <3>1, <3>2, <3>3, FailMoves
  <2>3. CASE ~(s = Owner /\ leaving = "closing")
    <3>1. Raise(s) /\ InCall(s)
      BY <1>6, <2>1, <2>3 DEF Kill, InCall
    <3> QED
      BY <2>1, <3>1, FailRaise
  <2> QED
    BY <2>2, <2>3
<1> QED
  BY <1>1, <1>2, <1>3, <1>4, <1>5, <1>6 DEF CallStep

LEMMA FailExpire ==
    ASSUME TypeInv, FailInv, NEW s \in Senders, Expire(s) PROVE FailInv'
<1> USE Names
<1>1. CASE ExpireSend(s)
  <2>1. InCall(s) /\ at[s] = "send"
    BY <1>1 DEF ExpireSend, InCall, SendSteps
  <2>2. CASE s = Dispatcher
    BY <1>1, <2>1, <2>2, FailFails DEF ExpireSend, table
  <2>3. CASE s # Dispatcher
    BY <1>1, <2>1, <2>3, FailRaise DEF ExpireSend, fail, FailInv
  <2> QED
    BY <2>2, <2>3
<1>2. CASE ExpireWrite(s)
  BY <1>2, FailFails DEF ExpireWrite, table
<1>3. CASE ExpireAnswer(s)
  <2>1. InCall(s) /\ at[s] = "answer" /\ Raise(s) /\ UNCHANGED <<failure, victims>>
    BY <1>3 DEF ExpireAnswer, InCall, fail
  <2>2. failure # None => writes' = <<>>
    BY <1>3 DEF ExpireAnswer, CancelQueued, FailInv
  <2> QED
    BY <2>1, <2>2, FailRaise
<1> QED
  BY <1>1, <1>2, <1>3 DEF Expire

\* A step of the writer or the dispatcher that takes or completes something.
LEMMA FailThreads ==
    ASSUME TypeInv, FailInv, TakeJob \/ Write \/ CompleteWrite \/ Dispatch \/ DispatchEnd
                             \/ (\E t \in {Writer, Dispatcher} : Stops(t))
    PROVE  FailInv'
<1> USE Names
<1>1. ASSUME NEW t \in {Writer, Dispatcher}, NEW where \in {"check", "blocked", "wrote", "get", "complete", "returned"},
             Goto(t, where), at[t] # "wake",
             UNCHANGED <<n, kind, failure, victims, waiters, pending, box>>,
             failure # None => writes' = <<>>,
             \A u \in Senders : done'[u] = None => done[u] = None
      PROVE  FailInv'
  <2>1. at'[t] = where /\ Others(t)
    BY <1>1, TypeTogether DEF ThreadsOK, Goto, Others
  <2>2. where \notin SendSteps \cup {"wake", "register", "answer"}
    BY DEF SendSteps
  <2> QED
    BY <1>1, <2>1, <2>2, FailMoves DEF SendSteps
<1>2. CASE TakeJob
  <2>1. failure = None
    BY <1>2 DEF TakeJob, FailInv
  <2> QED
    BY <1>1, <1>2, <2>1 DEF TakeJob, fail, table
<1>3. CASE Write
  <2>1. /\ at[Writer] \in {"check", "blocked"}
        /\ UNCHANGED <<n, kind, waiters, pending, done, box>>
    BY <1>3 DEF Write, table
  <2>2. CASE (\E where \in {"complete", "blocked", "wrote"} : Goto(Writer, where)) /\ UNCHANGED <<failure, victims, writes>>
    BY <1>1, <2>1, <2>2 DEF FailInv
  <2>3. CASE Fail(Writer, "exited")
    BY <2>1, <2>3, FailFails
  <2> QED
    BY <1>3, <2>2, <2>3 DEF Write, WriteNow, fail
<1>4. CASE CompleteWrite
  <2>1. \A u \in Senders : done'[u] = None => done[u] = None
    BY <1>4, TypeTogether DEF CompleteWrite, Completed, TableOK
  <2>2. /\ at[Writer] # "wake" /\ Goto(Writer, IF at[Writer] = "wrote" THEN "get" ELSE "returned")
        /\ UNCHANGED <<n, kind, failure, victims, waiters, pending, box, writes>>
    BY <1>4 DEF CompleteWrite, fail
  <2> QED
    BY <1>1, <2>1, <2>2 DEF FailInv
<1>5. CASE Dispatch
  <2> DEFINE m == Head(inbound)
  <2>1. at[Dispatcher] = "get" /\ m \in Message
    BY <1>5, TypeTogether DEF Dispatch, ServerOK
  <2>2. CASE /\ box' = IF m.op \in pending THEN [box EXCEPT ![m.op[1]] = "answer"] ELSE box
             /\ pending' = pending \ {m.op}
             /\ UNCHANGED <<thread, waiters, done, writes, fail>>
    <3>1. UNCHANGED <<at, n, kind, failure, victims>> /\ (failure # None => writes' = <<>>)
      BY <2>2 DEF thread, fail, FailInv
    <3>2. \A u \in Senders : box'[u] = None => box[u] = None /\ (Cur(u) \in pending => Cur(u) \in pending')
      <4> SUFFICES ASSUME NEW u \in Senders, box'[u] = None
                   PROVE  box[u] = None /\ (Cur(u) \in pending => Cur(u) \in pending')
        OBVIOUS
      <4>1. m.op \in pending => (m.op = Cur(u) => m.op[1] = u) /\ box'[m.op[1]] = "answer"
        BY <2>2, OpsAre, TypeTogether DEF TableOK, Cur
      <4>2. box'[u] = box[u] \/ box'[u] = "answer"
        BY <2>2, TypeTogether DEF TableOK
      <4> QED
        BY <2>2, <4>1, <4>2, Bounds
    <3>3. Others(Dispatcher) /\ at'[Dispatcher] = "get"
      BY <2>1, <3>1 DEF Others
    <3>4. "get" \notin SendSteps
      BY DEF SendSteps
    <3> QED
      BY <2>1, <2>2, <3>1, <3>2, <3>3, <3>4, FailMoves
  <2>3. CASE m.type = "ask" /\ Begin(m.op, "reply") /\ UNCHANGED <<hand, table, writes, fail>>
    <3>1. m.op[1] = Dispatcher /\ m.op \in Ops
      BY <2>1, <2>3, OpsAre, Bounds DEF Message, Response, Request
    <3>2. "reply" \in Kinds /\ UNCHANGED <<failure, victims>>
      BY <2>3 DEF Kinds, fail
    <3> QED
      BY <2>1, <2>3, <3>1, <3>2, FailBegin
  <2>4. CASE Fail(Dispatcher, "fault") /\ UNCHANGED <<n, kind, hand, call, table>>
    BY <2>1, <2>4, FailFails DEF table
  <2> QED
    BY <1>5, <2>2, <2>3, <2>4 DEF Dispatch
<1>6. CASE DispatchEnd
  <2>1. CASE Goto(Dispatcher, "returned") /\ UNCHANGED <<fail, writes>>
    BY <1>1, <1>6, <2>1 DEF DispatchEnd, fail, table, FailInv
  <2>2. CASE Fail(Dispatcher, "exited")
    BY <1>6, <2>2, FailFails DEF DispatchEnd, table
  <2> QED
    BY <1>6, <2>1, <2>2 DEF DispatchEnd, EndOfStream
<1>7. ASSUME NEW t \in {Writer, Dispatcher}, Stops(t) PROVE FailInv'
  BY <1>1, <1>7 DEF Stops, fail, table, FailInv
<1> QED
  BY <1>2, <1>3, <1>4, <1>5, <1>6, <1>7

LEMMA FailOwner ==
    ASSUME TypeInv, FailInv, OwnerStep \/ Leave PROVE FailInv'
<1> USE Names
<1>1. CASE Shutdown
  <2>1. n[Owner] < Limit(Owner) /\ UNCHANGED <<writes, table, failure, victims>> /\ at[Owner] = "idle"
    BY <1>1, Bounds DEF Shutdown, fail
  <2>2. Following(Owner) \in Ops /\ Following(Owner)[1] = Owner /\ "request" \in Kinds
    BY <2>1, FollowingIs DEF Kinds
  <2> QED
    BY <1>1, <2>1, <2>2, FailBegin, FailUnchanged DEF Shutdown
<1>2. CASE NotifyExit
  <2>1. n[Owner] < Limit(Owner) /\ UNCHANGED <<writes, table, failure, victims>> /\ at[Owner] = "idle"
    BY <1>2, Bounds DEF NotifyExit, fail
  <2>2. Following(Owner) \in Ops /\ Following(Owner)[1] = Owner /\ "exit" \in Kinds
    BY <2>1, FollowingIs DEF Kinds
  <2> QED
    BY <1>2, <2>1, <2>2, FailBegin, FailUnchanged DEF NotifyExit
<1>3. CASE ShutdownAnswered \/ ExitNotified \/ Finish
  BY <1>3, FailUnchanged DEF ShutdownAnswered, ExitNotified, Finish, thread, fail
<1>4. CASE Abort
  <2>1. at[Owner] = "idle"
    BY <1>4 DEF Abort, TypeInv, OwnerLeaves
  <2> QED
    BY <1>4, <2>1, FailFails DEF Abort, table
<1>5. CASE Leave
  <2>1. CASE Fail(Owner, "closed")
    BY <1>5, <2>1, FailFails DEF Leave, table
  <2>2. CASE UNCHANGED <<at, fail, writes>>
    BY <1>5, <2>2, FailUnchanged DEF Leave, fail
  <2> QED
    BY <1>5, <2>1, <2>2 DEF Leave
<1> QED
  BY <1>1, <1>2, <1>3, <1>4, <1>5 DEF OwnerStep

LEMMA FailNextStep == TypeInv /\ FailInv /\ [Next]_vars => FailInv'
<1> SUFFICES ASSUME TypeInv, FailInv, [Next]_vars PROVE FailInv'
  OBVIOUS
<1>1. CASE Client
  BY <1>1, FailCallStep, FailWakeAll, FailThreads, FailOwner DEF Client
<1>2. ASSUME NEW c \in Callers, Call(c) PROVE FailInv'
  <2>1. PICK k \in CallKinds : Begin(Following(c), k)
    BY <1>2 DEF Call
  <2>2. /\ c \in Users /\ c \in Senders /\ n[c] < Limit(c) /\ k \in Kinds /\ at[c] = "idle"
        /\ UNCHANGED <<writes, table, failure, victims>>
    BY <1>2, Bounds, Names DEF Call, Kinds, fail
  <2>3. Following(c) \in Ops /\ Following(c)[1] = c
    BY <2>2, FollowingIs
  <2> QED
    BY <2>1, <2>2, <2>3, FailBegin
<1>3. CASE Server
  <2>1. UNCHANGED <<thread, writes, table, fail>>
    BY <1>3 DEF Server, Receive, Respond, Ask, Die
  <2> QED
    BY <2>1, FailUnchanged DEF thread, fail
<1>4. CASE UNCHANGED vars
  BY <1>4, FailUnchanged DEF vars, thread, fail
<1> QED
  BY <1>1, <1>2, <1>3, <1>4, FailExpire, FailOwner DEF Next, Deadlines

LEMMA FailInit == Init => FailInv
<1> SUFFICES ASSUME Init PROVE FailInv
  OBVIOUS
<1>1. failure = None /\ pending = {} /\ \A t \in Threads : at[t] \in {"idle", "get"}
  BY DEF Init
<1>2. OneWaker /\ WaitersKnown /\ VictimsToWake /\ RequestsPending
  BY <1>1, Names DEF OneWaker, WaitersKnown, VictimsToWake, RequestsPending, SendSteps
<1> QED
  BY <1>1, <1>2 DEF FailInv

\* After the failing thread has told of the failure, every thread that waits for
\* its frame or its response finds an outcome, for every interleaving of
\* registration, enqueueing, time-outs, dispatching and _set_failure.
THEOREM NoCallSleepsThroughFailure == Spec => []FailureReachesAll
<1>1. FailInv => FailureReachesAll
  <2> SUFFICES ASSUME FailInv, Spread PROVE FailureReachesAll
    BY DEF FailureReachesAll
  <2>1. failure # None /\ writes = <<>> /\ ~Waking /\ pending = {}
    BY DEF FailInv, Spread, Waking
  <2>2. \A s \in Senders : at[s] = "written" => done[s] # None
    BY <2>1 DEF FailInv, VictimsToWake
  <2>3. \A s \in Senders : at[s] = "answer" => box[s] # None
    BY <2>1 DEF FailInv, RequestsPending
  <2> QED
    BY <2>1, <2>2, <2>3 DEF FailureReachesAll
<1> QED
  BY <1>1, TypeInit, FailInit, TypeNextStep, FailNextStep, PTL DEF Spec

-----------------------------------------------------------------------------
(* Every action keeps CallInv and FrameInv.                                *)

LEMMA SeqGrows == \A S, T : S \subseteq T => Seq(S) \subseteq Seq(T) /\ <<>> \in Seq(T)
  OBVIOUS

\* What a step of thread t has to show that leaves the outcomes of the others.
LEMMA CallMoves ==
    ASSUME TypeInv, CallInv, NEW t \in Threads, Others(t),
           failure # None => failure' = failure, t # Owner => leaving' = leaving,
           \A u \in Senders : u # t => /\ n'[u] = n[u] /\ kind'[u] = kind[u]
                                       /\ done'[u] = done[u] /\ box'[u] = box[u],
           \A o \in Ops : o[1] # t => call'[o] = call[o],
           served \subseteq served',
           \A o \in pending' : IF o[1] = t THEN PendingCall(o)' ELSE o \in pending,
           t \in Users => NothingLeft(t)' /\ TrueOutcome(t)'
    PROVE  CallInv'
<1>1. \A u \in Senders : u # t => at'[u] = at[u] /\ Cur(u)' = Cur(u) /\ (InCall(u)' <=> InCall(u))
  <2> SUFFICES ASSUME NEW u \in Senders, u # t
               PROVE  at'[u] = at[u] /\ Cur(u)' = Cur(u) /\ (InCall(u)' <=> InCall(u))
    OBVIOUS
  <2>1. at'[u] = at[u] /\ n'[u] = n[u] /\ (u = Owner => leaving' = leaving)
    BY Names DEF Others
  <2> QED
    BY <2>1, OthersCalls
<1>2. ASSUME NEW u \in Users, u # t PROVE NothingLeft(u)' /\ TrueOutcome(u)'
  <2>1. NothingLeft(u) /\ TrueOutcome(u) /\ u \in Senders
    BY Names DEF CallInv
  <2>2. Cur(u)[1] = u /\ n'[u] = n[u]
    BY <1>2, <2>1 DEF Cur
  <2>3. \A i \in 1..Limit(u) : <<u, i>> \in Ops /\ call'[<<u, i>>] = call[<<u, i>>]
    BY <1>2, <2>1, OpsAre, Bounds
  <2>4. NothingLeft(u)'
    BY <1>1, <1>2, <2>1, <2>2, <2>3 DEF NothingLeft
  <2>5. TrueOutcome(u)'
    BY <1>1, <1>2, <2>1 DEF TrueOutcome
  <2> QED
    BY <2>4, <2>5
<1>3. ASSUME NEW o \in pending' PROVE PendingCall(o)'
  <2>1. CASE o[1] = t
    BY <1>3, <2>1
  <2>2. CASE o[1] # t
    <3>1. o \in pending /\ PendingCall(o) /\ o[1] \in Senders
      BY <1>3, <2>2, Names DEF CallInv, PendingCall
    <3> QED
      BY <1>1, <2>2, <3>1 DEF PendingCall
  <2> QED
    BY <2>1, <2>2
<1> QED
  BY <1>2, <1>3, Zenon DEF CallInv

\* What a step that begins no call has to show for the frames on their way.
LEMMA FramesKeep ==
    ASSUME n' = n, kind' = kind, \A o \in Ops : call'[o] = "unused" <=> call[o] = "unused"
    PROVE  Begun' = Begun /\ TrueJob' = TrueJob
<1>1. Begun' = Begun
  BY DEF Begun
<1> QED
  BY <1>1 DEF TrueJob, Cur

LEMMA MessagesKeep == served \subseteq served' => Seq(TrueMessage) \subseteq Seq(TrueMessage')
<1> SUFFICES ASSUME served \subseteq served' PROVE Seq(TrueMessage) \subseteq Seq(TrueMessage')
  OBVIOUS
<1>1. TrueMessage \subseteq TrueMessage'
  BY DEF TrueMessage
<1> QED
  BY <1>1, SeqGrows

\* A call ends: its thread has taken its outcome.
LEMMA CallEnds ==
    ASSUME TypeInv, CallInv, NEW s \in Senders, InCall(s), NEW outcome \in {"returned", "raised"},
           End(s, outcome), pending' \in SUBSET pending, s \in Users => Cur(s) \notin pending',
           UNCHANGED <<failure, leaving, served>>
    PROVE  CallInv' /\ n' = n /\ kind' = kind /\ hand' = hand
           /\ (\A o \in Ops : call'[o] = "unused" <=> call[o] = "unused")
<1>1. Cur(s) \in Ops /\ TypeOK /\ s \in Threads /\ call[Cur(s)] = "open"
  BY Names DEF TypeInv, CallsOpen
<1>2. /\ Others(s) /\ n' = n /\ kind' = kind /\ hand' = hand
      /\ at'[s] = IF s \in Users THEN "idle" ELSE IF outcome = "returned" THEN "get" ELSE "returned"
      /\ call'[Cur(s)] = outcome
      /\ \A p \in Ops : p # Cur(s) => call'[p] = call[p]
      /\ done'[s] = None /\ box'[s] = None
      /\ \A u \in Senders : u # s => done'[u] = done[u] /\ box'[u] = box[u]
  BY <1>1, EndType
<1>3. \A o \in Ops : o[1] # s => call'[o] = call[o]
  BY <1>2 DEF Cur
<1>4. \A o \in pending' : o \in pending /\ o[1] # s
  <2> SUFFICES ASSUME NEW o \in pending' PROVE o \in pending /\ o[1] # s
    OBVIOUS
  <2>1. o \in pending /\ o[1] \in Users /\ o = Cur(o[1])
    BY DEF CallInv, PendingCall
  <2> QED
    BY <2>1
<1>5. s \in Users => NothingLeft(s)' /\ TrueOutcome(s)'
  <2> SUFFICES ASSUME s \in Users PROVE NothingLeft(s)' /\ TrueOutcome(s)'
    OBVIOUS
  <2>1. Cur(s)' = Cur(s) /\ at'[s] = "idle" /\ n[s] \in Nat
    BY <1>2, TypeTogether DEF Cur, CountsOK
  <2>2. \A i \in 1..Limit(s) : i > n[s] => call'[<<s, i>>] = "unused"
    <3> SUFFICES ASSUME NEW i \in 1..Limit(s), i > n[s] PROVE call'[<<s, i>>] = "unused"
      OBVIOUS
    <3>1. <<s, i>> \in Ops /\ <<s, i>> # Cur(s)
      BY <2>1, OpsAre, Bounds DEF Cur
    <3>2. call[<<s, i>>] = "unused"
      BY DEF CallInv, NothingLeft
    <3> QED
      BY <1>2, <3>1, <3>2
  <2>3. NothingLeft(s)'
    BY <1>2, <2>1, <2>2 DEF NothingLeft
  <2> QED
    BY <1>2, <2>3, Bounds DEF TrueOutcome
<1>6. CallInv'
  BY <1>1, <1>2, <1>3, <1>4, <1>5, CallMoves
<1> QED
  BY <1>1, <1>2, <1>6

\* A call begins that its thread has not made before.
LEMMA CallBegins ==
    ASSUME TypeInv, CallInv, NEW o \in Ops, NEW k \in Kinds, Begin(o, k),
           k = "request" => o[1] \in Users,
           o[1] \in Users => ~InCall(o[1]) /\ call[o] = "unused" /\ o[2] = n[o[1]] + 1,
           UNCHANGED <<table, failure, leaving, served>>
    PROVE  CallInv' /\ TrueJob \subseteq TrueJob' /\ Begun \subseteq Begun'
<1> DEFINE s == o[1]
<1>1. ThreadsOK /\ CountsOK /\ s \in Senders /\ s \in Threads /\ o = <<s, o[2]>>
  BY TypeTogether, OpsAre, Names
<1>2. /\ Others(s)
      /\ at'[s] = IF k = "request" THEN "register" ELSE "send"
      /\ kind'[s] = k /\ Cur(s)' = o /\ call'[o] = "open"
      /\ \A u \in Senders : u # s => n'[u] = n[u] /\ kind'[u] = kind[u]
      /\ \A p \in Ops : p # o => call'[p] = call[p]
  BY <1>1, BeginType
<1>3. UNCHANGED <<waiters, pending, done, box>>
  BY DEF table
<1>4. \A p \in pending' : p[1] # s /\ p \in pending
  BY <1>1, <1>3 DEF CallInv, PendingCall
<1>5. s \in Users => NothingLeft(s)' /\ TrueOutcome(s)'
  <2> SUFFICES ASSUME s \in Users PROVE NothingLeft(s)' /\ TrueOutcome(s)'
    OBVIOUS
  <2>1. done[s] = None /\ box[s] = None /\ n[s] \in Nat
    BY <1>1 DEF CallInv, NothingLeft, CountsOK
  <2>2. InCall(s)'
    BY <1>2 DEF InCall, SendSteps
  <2>3. n'[s] = n[s] + 1
    BY <1>1, <1>2 DEF Cur
  <2>4. \A i \in 1..Limit(s) : i > n'[s] => call'[<<s, i>>] = "unused"
    <3> SUFFICES ASSUME NEW i \in 1..Limit(s), i > n[s] + 1 PROVE call'[<<s, i>>] = "unused"
      BY <2>3
    <3>1. <<s, i>> \in Ops /\ <<s, i>> # o
      BY <1>1, <2>1, OpsAre, Bounds
    <3>2. call[<<s, i>>] = "unused"
      BY <2>1 DEF CallInv, NothingLeft
    <3> QED
      BY <1>2, <3>1, <3>2
  <2> QED
    BY <1>3, <2>1, <2>2, <2>4, Bounds DEF NothingLeft, TrueOutcome
<1>6. CallInv'
  <2>1. \A p \in Ops : p[1] # s => call'[p] = call[p]
    BY <1>2
  <2> HIDE DEF s
  <2> QED
    BY <1>1, <1>2, <1>3, <1>4, <1>5, <2>1, CallMoves
<1>7. Begun \subseteq Begun'
  BY <1>2 DEF Begun
<1>8. TrueJob \subseteq TrueJob'
  <2> SUFFICES ASSUME NEW j \in TrueJob, NEW u \in Users, j.op = Cur(u)', j.kind # "cancel"
               PROVE  j.kind = kind'[u]
    BY <1>7 DEF TrueJob
  <2>1. CASE u # s
    BY <1>2, <2>1, Names DEF TrueJob, Cur
  <2>2. CASE u = s
    BY <1>2, <2>2 DEF TrueJob, Begun
  <2> QED
    BY <2>1, <2>2
<1> QED
  BY <1>6, <1>7, <1>8

\* Threads other than t stay within their calls or outside of calls.
LEMMA CallersStay ==
    ASSUME TypeInv, NEW t \in Threads, Others(t), n' = n,
           failure # None => failure' = failure, t # Owner => leaving' = leaving,
           t \in Users => /\ InCall(t)' <=> InCall(t)
                          /\ at'[t] = "register" => at[t] = "register"
    PROVE  \A u \in Users : /\ InCall(u)' <=> InCall(u)
                            /\ at'[u] = "register" => at[u] = "register"
<1> SUFFICES ASSUME NEW u \in Users
             PROVE  (InCall(u)' <=> InCall(u)) /\ (at'[u] = "register" => at[u] = "register")
  OBVIOUS
<1>1. CASE u = t
  BY <1>1
<1>2. CASE u # t
  <2>1. u \in Senders /\ at'[u] = at[u] /\ n'[u] = n[u] /\ (u = Owner => leaving' = leaving)
    BY <1>2, Names DEF Others
  <2> QED
    BY <2>1, OthersCalls
<1> QED
  BY <1>1, <1>2

\* What a step has to show in which calls neither begin nor end: outcomes come to
\* threads within their calls, and they are true.
LEMMA CallStays ==
    ASSUME CallInv, n' = n, kind' = kind, served \subseteq served',
           \A o \in Ops : o[1] \in Users => call'[o] = call[o],
           pending' \in SUBSET pending,
           \A u \in Users :
              /\ InCall(u)' <=> InCall(u)
              /\ at'[u] = "register" => at[u] = "register"
              /\ box'[u] # box[u] => /\ InCall(u) /\ at[u] # "register" /\ Cur(u) \notin pending'
                                     /\ box'[u] = "answer" => Cur(u) \in served
              /\ done'[u] # done[u] => /\ InCall(u)
                                       /\ done'[u] = "ok" /\ kind[u] # "request" => Cur(u) \in served
    PROVE  CallInv'
<1>1. ASSUME NEW u \in Users PROVE NothingLeft(u)' /\ TrueOutcome(u)'
  <2>1. NothingLeft(u) /\ TrueOutcome(u) /\ Cur(u)' = Cur(u) /\ Cur(u)[1] = u /\ u \in Senders
    BY Names DEF CallInv, Cur
  <2>2. \A i \in 1..Limit(u) : call'[<<u, i>>] = call[<<u, i>>]
    BY <2>1, OpsAre, Bounds
  <2>3. Cur(u) \in Ops => call'[Cur(u)] = call[Cur(u)]
    BY <2>1
  <2>4. NothingLeft(u)'
    BY <2>1, <2>2, <2>3 DEF NothingLeft
  <2>5. TrueOutcome(u)'
    BY <2>1 DEF TrueOutcome
  <2> QED
    BY <2>4, <2>5
<1>2. ASSUME NEW o \in pending' PROVE PendingCall(o)'
  <2>1. PendingCall(o) /\ o[1] \in Users /\ o = Cur(o[1])
    BY <1>2 DEF CallInv, PendingCall
  <2>2. box'[o[1]] = box[o[1]]
    BY <1>2, <2>1
  <2> QED
    BY <2>1, <2>2 DEF PendingCall, Cur
<1> QED
  BY <1>1, <1>2, Zenon DEF CallInv

LEMMA FrameMoves ==
    ASSUME FrameInv, TrueJob \subseteq TrueJob', Begun \subseteq Begun', served \subseteq served',
           writes' \in Seq(TrueJob'), hand' = hand, at'[Writer] = "wrote" => at[Writer] = "wrote",
           stdin' \in {stdin, <<>>}, inbound' = inbound, known' \in SUBSET known
    PROVE  FrameInv'
<1>1. Seq(TrueJob) \subseteq Seq(TrueJob') /\ Seq(TrueMessage) \subseteq Seq(TrueMessage')
      /\ <<>> \in Seq(TrueJob')
  BY SeqGrows, MessagesKeep
<1>2. stdin \in Seq(TrueJob) /\ inbound \in Seq(TrueMessage) /\ hand \in TrueJob \cup {None}
  BY DEF FrameInv
<1>3. stdin' \in Seq(TrueJob')
  BY <1>1, <1>2
<1>4. inbound' \in Seq(TrueMessage')
  BY <1>1, <1>2
<1>5. hand' \in TrueJob' \cup {None}
  BY <1>2
<1> QED
  BY <1>3, <1>4, <1>5 DEF FrameInv

LEMMA WritesKeep == FrameInv /\ TrueJob \subseteq TrueJob' /\ writes' \in {writes, <<>>} => writes' \in Seq(TrueJob')
<1> SUFFICES ASSUME FrameInv, TrueJob \subseteq TrueJob', writes' \in {writes, <<>>} PROVE writes' \in Seq(TrueJob')
  OBVIOUS
<1>1. Seq(TrueJob) \subseteq Seq(TrueJob') /\ <<>> \in Seq(TrueJob')
  BY SeqGrows
<1>2. writes \in Seq(TrueJob)
  BY DEF FrameInv
<1> QED
  BY <1>1, <1>2

-----------------------------------------------------------------------------
(* Steps of the contract.                                                  *)

Promised == [Contract!Next]_(Contract!contract)

\* Neither a user's call nor what was served changes; the client may fail.
LEMMA PromisedQuiet ==
    ASSUME \A o \in UserOps : call'[o] = call[o], served' = served,
           failure # None => failure' = failure
    PROVE  Promised
<1>1. [o \in UserOps |-> call[o]]' = [o \in UserOps |-> call[o]] /\ (served \cap UserOps)' = served \cap UserOps
  BY DEF UserOps
<1>2. CASE (failure # None)' = (failure # None)
  BY <1>1, <1>2 DEF Promised, Contract!contract
<1>3. CASE failure = None /\ failure' # None
  BY <1>1, <1>3 DEF Promised, Contract!contract, Contract!Next, Contract!Break
<1> QED
  BY <1>2, <1>3

LEMMA PromisedBegin ==
    ASSUME TypeInv, NEW o \in UserOps, failure = None, call[o] = "unused",
           call' = [call EXCEPT ![o] = "open"], UNCHANGED <<failure, served>>
    PROVE  Promised
<1>1. UserOps \subseteq Ops /\ call \in [Ops -> {"unused", "open", "returned", "raised"}]
  BY TypeTogether DEF UserOps, CountsOK
<1>2. [p \in UserOps |-> call[p]]' = [[p \in UserOps |-> call[p]] EXCEPT ![o] = "open"]
  BY <1>1 DEF UserOps
<1>3. (served \cap UserOps)' = served \cap UserOps /\ (failure # None)' = (failure # None)
  BY DEF UserOps
<1>4. Contract!Begin(o)
  BY <1>1, <1>2, <1>3 DEF Contract!Begin
<1> QED
  BY <1>4 DEF Promised, Contract!Next

LEMMA PromisedEnd ==
    ASSUME TypeInv, NEW s \in Senders, InCall(s), NEW outcome \in {"returned", "raised"},
           call' = [call EXCEPT ![Cur(s)] = outcome], UNCHANGED <<failure, served>>,
           s \in Users /\ outcome = "returned" => Cur(s) \in served
    PROVE  Promised
<1>1. /\ UserOps \subseteq Ops /\ call \in [Ops -> {"unused", "open", "returned", "raised"}]
      /\ Cur(s) \in Ops /\ call[Cur(s)] = "open" /\ Cur(s)[1] = s
  BY TypeTogether DEF UserOps, CountsOK, CallsOpen, Cur
<1>2. CASE s \notin Users
  <2>1. \A o \in UserOps : call'[o] = call[o]
    BY <1>1, <1>2 DEF UserOps
  <2> QED
    BY <2>1, PromisedQuiet
<1>3. CASE s \in Users
  <2>1. PICK o \in UserOps : o = Cur(s)
    BY <1>1, <1>3 DEF UserOps
  <2>2. [p \in UserOps |-> call[p]]' = [[p \in UserOps |-> call[p]] EXCEPT ![o] = outcome]
    BY <1>1, <2>1 DEF UserOps
  <2>3. (served \cap UserOps)' = served \cap UserOps /\ (failure # None)' = (failure # None)
    BY DEF UserOps
  <2>4. CASE outcome = "returned"
    <3>1. Contract!Return(o)
      BY <1>1, <1>3, <2>1, <2>2, <2>3, <2>4 DEF Contract!Return
    <3> QED
      BY <2>1, <3>1 DEF Promised, Contract!Next
  <2>5. CASE outcome = "raised"
    <3>1. Contract!Raise(o)
      BY <1>1, <2>1, <2>2, <2>3, <2>5 DEF Contract!Raise
    <3> QED
      BY <2>1, <3>1 DEF Promised, Contract!Next
  <2> QED
    BY <2>4, <2>5
<1> QED
  BY <1>2, <1>3

LEMMA PromisedServe ==
    ASSUME NEW o \in Begun, served' = served \cup {o}, UNCHANGED <<call, failure>>
    PROVE  Promised
<1>1. [p \in UserOps |-> call[p]]' = [p \in UserOps |-> call[p]] /\ (failure # None)' = (failure # None)
  BY DEF UserOps
<1>2. CASE o \notin UserOps \/ o \in served
  <2>1. (served \cap UserOps)' = served \cap UserOps
    BY <1>2 DEF UserOps
  <2> QED
    BY <1>1, <2>1 DEF Promised, Contract!contract
<1>3. CASE o \in UserOps /\ o \notin served
  <2>1. (served \cap UserOps)' = (served \cap UserOps) \cup {o}
    BY <1>3 DEF UserOps
  <2>2. Contract!Serve(o)
    BY <1>1, <1>3, <2>1 DEF Contract!Serve, Begun
  <2> QED
    BY <1>3, <2>2 DEF Promised, Contract!Next
<1> QED
  BY <1>2, <1>3

-----------------------------------------------------------------------------
(* Every action keeps ServedInv, and is a step that the contract allows.   *)

ServedInv == CallInv /\ FrameInv
Kept == ServedInv' /\ Promised

\* Users' calls, the calls on their way and the outcomes are left alone, while
\* thread t moves and the client may fail.
LEMMA KeptMove ==
    ASSUME TypeInv, ServedInv, NEW t \in Threads, Others(t),
           failure # None => failure' = failure, t # Owner => leaving' = leaving,
           t \in Users => /\ InCall(t)' <=> InCall(t)
                          /\ at'[t] = "register" => at[t] = "register",
           n' = n, kind' = kind, done' = done, box' = box, served' = served, hand' = hand,
           pending' = pending, inbound' = inbound,
           \A o \in Ops : o[1] \in Users => call'[o] = call[o],
           \A o \in Ops : call'[o] = "unused" <=> call[o] = "unused",
           writes' \in Seq(TrueJob), at'[Writer] = "wrote" => at[Writer] = "wrote",
           stdin' \in {stdin, <<>>}, known' \in SUBSET known
    PROVE  Kept
<1>1. \A u \in Users : (InCall(u)' <=> InCall(u)) /\ (at'[u] = "register" => at[u] = "register")
  BY CallersStay
<1>2. CallInv'
  BY <1>1, CallStays DEF ServedInv
<1>3. Begun' = Begun /\ TrueJob' = TrueJob
  BY FramesKeep
<1>4. FrameInv'
  BY <1>3, FrameMoves DEF ServedInv
<1>5. \A o \in UserOps : call'[o] = call[o]
  BY DEF UserOps
<1>6. Promised
  BY <1>5, PromisedQuiet
<1> QED
  BY <1>2, <1>4, <1>6 DEF Kept, ServedInv

LEMMA KeptFail ==
    ASSUME TypeInv, ServedInv, NEW t \in Threads, NEW e \in {"timeout", "exited", "fault", "closed"}, Fail(t, e),
           t \in Users => e \in {"timeout", "closed"},
           t \in Users /\ e = "timeout" => InCall(t) /\ ~(t = Owner /\ leaving = "closing"),
           e = "closed" => t = Owner /\ at[Owner] = "idle",
           leaving' = IF e = "closed" THEN "closing" ELSE leaving,
           \A o \in Ops : o[1] \in Users => call'[o] = call[o],
           \A o \in Ops : call'[o] = "unused" <=> call[o] = "unused",
           UNCHANGED <<n, kind, hand, waiters, pending, done, box, inbound, served>>,
           stdin' \in {stdin, <<>>}, known' \in SUBSET known
    PROVE  Kept
<1>1. /\ Others(t)
      /\ \/ failure # None /\ at'[t] = After(t, e) /\ UNCHANGED <<failure, victims, writes>>
         \/ failure = None /\ failure' = e /\ at'[t] = "wake" /\ victims' = waiters /\ writes' = <<>>
  BY FailType DEF TypeInv
<1>2. at'[t] \in {"wake", "complete", "kill", "returned"}
  BY <1>1 DEF After
<1>3. t \in Users /\ e = "timeout" => InCall(t)'
  <2> SUFFICES ASSUME t \in Users, e = "timeout" PROVE InCall(t)'
    OBVIOUS
  <2>1. at'[t] = "kill" \/ (at'[t] = "wake" /\ failure' = "timeout")
    BY <1>1, Names DEF After
  <2>2. ~(t = Owner /\ leaving' = "closing")
    OBVIOUS
  <2> QED
    BY <2>1, <2>2 DEF InCall
<1>4. t \in Users /\ e = "closed" => ~InCall(t)' /\ ~InCall(t)
  <2> SUFFICES ASSUME t \in Users, e = "closed" PROVE ~InCall(t)' /\ ~InCall(t)
    OBVIOUS
  <2>1. at'[t] = "kill" \/ (at'[t] = "wake" /\ failure' = "closed")
    BY <1>1, Names DEF After
  <2> QED
    BY <2>1 DEF InCall, SendSteps
<1>5. t \in Users => (InCall(t)' <=> InCall(t)) /\ (at'[t] = "register" => at[t] = "register")
  BY <1>2, <1>3, <1>4
<1>6. writes' \in Seq(TrueJob)
  BY <1>1, SeqGrows DEF ServedInv, FrameInv
<1>7. at'[Writer] = "wrote" => at[Writer] = "wrote"
  BY <1>1, <1>2, Names DEF Others
<1>8. (failure # None => failure' = failure) /\ (t # Owner => leaving' = leaving)
  BY <1>1
<1> QED
  BY <1>1, <1>5, <1>6, <1>7, <1>8, KeptMove

LEMMA KeptEnd ==
    ASSUME TypeInv, ServedInv, NEW s \in Senders, InCall(s), NEW outcome \in {"returned", "raised"},
           End(s, outcome), pending' \in SUBSET pending, s \in Users => Cur(s) \notin pending',
           s \in Users /\ outcome = "returned" => Cur(s) \in served,
           writes' \in Seq(TrueJob'), UNCHANGED <<failure, leaving, served, inbound>>,
           stdin' \in {stdin, <<>>}, known' \in SUBSET known
    PROVE  Kept
<1>1. /\ CallInv' /\ n' = n /\ kind' = kind /\ hand' = hand
      /\ \A o \in Ops : call'[o] = "unused" <=> call[o] = "unused"
  BY CallEnds DEF ServedInv
<1>2. Begun' = Begun /\ TrueJob' = TrueJob
  BY <1>1, FramesKeep
<1>3. at'[Writer] = at[Writer]
  BY Names, EndType DEF TypeInv, CallsOpen, Others
<1>4. FrameInv'
  BY <1>1, <1>2, <1>3, FrameMoves DEF ServedInv
<1>5. call' = [call EXCEPT ![Cur(s)] = outcome]
  BY DEF End
<1>6. Promised
  BY <1>5, PromisedEnd
<1> QED
  BY <1>1, <1>4, <1>6 DEF Kept, ServedInv

LEMMA KeptRaise ==
    ASSUME TypeInv, ServedInv, NEW s \in Senders, InCall(s), Raise(s),
           UNCHANGED <<writes, failure, leaving, served, inbound>>,
           stdin' \in {stdin, <<>>}, known' \in SUBSET known
    PROVE  Kept
<1>1. End(s, "raised") /\ pending' \in SUBSET pending /\ Cur(s) \notin pending'
  BY DEF Raise
<1>2. \A o \in Ops : call'[o] = "unused" <=> call[o] = "unused"
  BY <1>1, CallEnds DEF ServedInv
<1>3. TrueJob' = TrueJob
  BY <1>1, <1>2, FramesKeep DEF End
<1>4. writes' \in Seq(TrueJob')
  BY <1>3 DEF ServedInv, FrameInv
<1> QED
  BY <1>1, <1>4, KeptEnd

LEMMA KeptGoesOn ==
    ASSUME TypeInv, ServedInv, NEW s \in Senders, InCall(s), NEW where, Goto(s, where),
           where \in SendSteps \/ (where = "answer" /\ s \in Users),
           UNCHANGED <<n, kind, hand, call, pending, done, box, failure, leaving, server, served>>,
           writes' \in Seq(TrueJob)
    PROVE  Kept
<1>1. at'[s] = where /\ Others(s) /\ s \in Threads /\ s # Writer
  BY GoesOn, Names
<1>2. InCall(s)' /\ at'[s] # "register"
  BY <1>1 DEF InCall, SendSteps
<1>3. at'[Writer] = at[Writer]
  BY <1>1, Names DEF Others
<1>4. UNCHANGED <<inbound, stdin, known>>
  BY DEF server
<1> QED
  BY <1>1, <1>2, <1>3, <1>4, KeptMove

LEMMA KeptBegin ==
    ASSUME TypeInv, ServedInv, NEW o \in Ops, NEW k \in Kinds, Begin(o, k),
           k = "request" => o[1] \in Users,
           o[1] \in Users => ~InCall(o[1]) /\ o[2] = n[o[1]] + 1 /\ failure = None,
           UNCHANGED <<hand, table, failure, leaving, served, writes, stdin, known>>,
           inbound' \in Seq(TrueMessage)
    PROVE  Kept
<1>1. o[1] \in Senders /\ o[2] \in 1..Limit(o[1]) /\ o = <<o[1], o[2]>> /\ Limit(o[1]) \in Nat
  BY OpsAre, Bounds
<1>2. o[1] \in Users => call[o] = "unused"
  <2> SUFFICES ASSUME o[1] \in Users PROVE call[o] = "unused"
    OBVIOUS
  <2>1. n[o[1]] \in Nat /\ o[2] > n[o[1]]
    BY <1>1, TypeTogether DEF CountsOK
  <2>2. call[<<o[1], o[2]>>] = "unused"
    BY <1>1, <2>1 DEF ServedInv, CallInv, NothingLeft
  <2> QED
    BY <1>1, <2>2
<1>3. CallInv' /\ TrueJob \subseteq TrueJob' /\ Begun \subseteq Begun'
  BY <1>2, CallBegins DEF ServedInv
<1>4. at'[Writer] = at[Writer]
  BY <1>1, BeginType, TypeTogether, Names DEF Others
<1>5. writes' \in Seq(TrueJob') /\ stdin' \in Seq(TrueJob')
  BY <1>3, SeqGrows DEF ServedInv, FrameInv
<1>6. inbound' \in Seq(TrueMessage')
  BY MessagesKeep
<1>7. FrameInv'
  BY <1>3, <1>4, <1>5, <1>6 DEF ServedInv, FrameInv
<1>8. Promised
  <2>1. call' = [call EXCEPT ![o] = "open"]
    BY DEF Begin
  <2>2. CASE o[1] \in Users
    BY <1>2, <2>1, <2>2, PromisedBegin DEF UserOps
  <2>3. CASE o[1] \notin Users
    BY <2>1, <2>3, PromisedQuiet, TypeTogether DEF UserOps, CountsOK
  <2> QED
    BY <2>2, <2>3
<1> QED
  BY <1>3, <1>7, <1>8 DEF Kept, ServedInv

LEMMA KeptCallStep ==
    ASSUME TypeInv, FailInv, ServedInv, NEW s \in Senders, CallStep(s) PROVE Kept
<1> USE Names
<1>a. stdin \in {stdin, <<>>} /\ known \in SUBSET known
  OBVIOUS
<1>1. CASE Register(s)
  <2>1. /\ at[s] = "register" /\ InCall(s)
        /\ UNCHANGED <<writes, failure, leaving, server, served, inbound, stdin, known>>
    BY <1>1 DEF Register, InCall, fail, ends, server
  <2>2. CASE Raise(s)
    BY <1>a, <2>1, <2>2, KeptRaise
  <2>3. CASE /\ pending' = pending \cup {Cur(s)} /\ Goto(s, "send")
             /\ UNCHANGED <<n, kind, hand, call, waiters, done, box>>
    <3>1. at'[s] = "send" /\ Others(s) /\ s \in Threads
      BY <2>1, <2>3, GoesOn DEF SendSteps
    <3>2. s \in Users /\ kind[s] = "request"
      BY <2>1, TypeTogether
         DEF ThreadsOK, DispatcherSteps, SendSteps, FailSteps, FailInv, RequestsPending
    <3>3. /\ NothingLeft(s) /\ TrueOutcome(s) /\ box[s] = None /\ Cur(s)' = Cur(s) /\ InCall(s)'
      BY <2>1, <2>3, <3>1, <3>2 DEF ServedInv, CallInv, NothingLeft, Cur, InCall, SendSteps
    <3>4. NothingLeft(s)' /\ TrueOutcome(s)'
      BY <2>1, <2>3, <3>1, <3>3 DEF NothingLeft, TrueOutcome
    <3>5. \A o \in pending' : IF o[1] = s THEN PendingCall(o)' ELSE o \in pending
      <4> SUFFICES ASSUME NEW o \in pending' PROVE IF o[1] = s THEN PendingCall(o)' ELSE o \in pending
        OBVIOUS
      <4>1. CASE o[1] # s
        BY <2>3, <4>1 DEF Cur
      <4>2. CASE o[1] = s
        <5>1. o = Cur(s)
          BY <2>3, <4>2 DEF ServedInv, CallInv, PendingCall
        <5> QED
          BY <2>3, <3>1, <3>2, <3>3, <5>1, <4>2 DEF PendingCall
      <4> QED
        BY <4>1, <4>2
    <3>6. CallInv'
      BY <2>1, <2>3, <3>1, <3>4, <3>5, CallMoves DEF ServedInv
    <3>7. Begun' = Begun /\ TrueJob' = TrueJob
      BY <2>3, FramesKeep
    <3>8. FrameInv'
      BY <1>a, <2>1, <2>3, <3>1, <3>7, FrameMoves, WritesKeep DEF ServedInv, Others
    <3>9. Promised
      BY <2>1, <2>3, PromisedQuiet
    <3> QED
      BY <3>6, <3>8, <3>9 DEF Kept, ServedInv
  <2> QED
    BY <1>1, <2>2, <2>3 DEF Register
<1>2. CASE Send(s)
  <2>1. /\ at[s] = "send" /\ InCall(s)
        /\ UNCHANGED <<writes, failure, leaving, server, served, inbound, stdin, known>>
    BY <1>2 DEF Send, InCall, SendSteps, fail, ends, server
  <2>2. CASE Raise(s)
    BY <1>a, <2>1, <2>2, KeptRaise
  <2>3. CASE Goto(s, "enqueue") /\ UNCHANGED <<n, kind, hand, call, pending, done, box>>
    <3>1. writes' \in Seq(TrueJob) /\ "enqueue" \in SendSteps
      BY <2>1 DEF ServedInv, FrameInv, SendSteps
    <3> QED
      BY <2>1, <2>3, <3>1, KeptGoesOn
  <2> QED
    BY <1>2, <2>2, <2>3 DEF Send
<1>3. CASE Enqueue(s)
  <2>1. /\ at[s] = "enqueue" /\ InCall(s)
        /\ UNCHANGED <<failure, leaving, server, served, inbound, stdin, known>>
    BY <1>3 DEF Enqueue, InCall, SendSteps, fail, ends, server
  <2>2. CASE Raise(s) /\ UNCHANGED writes
    BY <1>a, <2>1, <2>2, KeptRaise
  <2>3. CASE /\ writes' = Append(writes, [kind |-> kind[s], op |-> Cur(s)])
             /\ Goto(s, "written") /\ UNCHANGED <<n, kind, hand, call, table>>
    <3> DEFINE j == [kind |-> kind[s], op |-> Cur(s)]
    <3>1. Cur(s) \in Ops /\ call[Cur(s)] = "open" /\ kind[s] \in Kinds
      BY <2>1, TypeTogether DEF CallsOpen, CountsOK
    <3>2. j \in Job /\ j.op \in Begun
      BY <3>1 DEF Job, Begun
    <3>3. \A u \in Users : j.op = Cur(u) => j.kind = kind[u]
      BY DEF Cur
    <3>4. j \in TrueJob
      BY <3>2, <3>3 DEF TrueJob
    <3>5. writes' \in Seq(TrueJob) /\ "written" \in SendSteps
      BY <2>3, <3>4 DEF ServedInv, FrameInv, SendSteps
    <3> QED
      BY <2>1, <2>3, <3>5, KeptGoesOn DEF table
  <2> QED
    BY <1>3, <2>2, <2>3 DEF Enqueue
<1>4. CASE AwaitWrite(s)
  <2>1. /\ at[s] = "written" /\ InCall(s)
        /\ UNCHANGED <<writes, failure, leaving, server, served, inbound, stdin, known>>
    BY <1>4 DEF AwaitWrite, InCall, SendSteps, fail, ends, server
  <2>2. CASE Raise(s)
    BY <1>a, <2>1, <2>2, KeptRaise
  <2>3. CASE done[s] = "ok" /\ kind[s] # "request" /\ End(s, "returned") /\ UNCHANGED pending
    <3>1. s \in Users => Cur(s) \in served /\ Cur(s) \notin pending
      BY <2>3 DEF ServedInv, CallInv, TrueOutcome, PendingCall, Cur
    <3>2. \A o \in Ops : call'[o] = "unused" <=> call[o] = "unused"
      BY <2>1, <2>3, <3>1, CallEnds DEF ServedInv
    <3>3. writes' \in Seq(TrueJob')
      BY <2>1, <2>3, <3>2, FramesKeep DEF End, ServedInv, FrameInv
    <3> QED
      BY <1>a, <2>1, <2>3, <3>1, <3>3, KeptEnd
  <2>4. CASE /\ kind[s] = "request" /\ Goto(s, "answer")
             /\ UNCHANGED <<n, kind, hand, call, pending, done, box>>
    <3>1. writes' \in Seq(TrueJob) /\ s \in Users
      BY <2>1, <2>4, TypeTogether DEF ServedInv, FrameInv, CountsOK
    <3> QED
      BY <2>1, <2>4, <3>1, KeptGoesOn
  <2> QED
    BY <1>4, <2>2, <2>3, <2>4 DEF AwaitWrite
<1>5. CASE AwaitAnswer(s)
  <2>1. /\ at[s] = "answer" /\ InCall(s)
        /\ UNCHANGED <<writes, failure, leaving, server, served, inbound, stdin, known>>
    BY <1>5 DEF AwaitAnswer, InCall, fail, ends, server
  <2>2. CASE Raise(s)
    BY <1>a, <2>1, <2>2, KeptRaise
  <2>3. CASE box[s] = "answer" /\ End(s, "returned") /\ UNCHANGED pending
    <3>1. s \in Users => Cur(s) \in served /\ Cur(s) \notin pending
      BY <2>3, Bounds DEF ServedInv, CallInv, TrueOutcome, PendingCall, Cur
    <3>2. \A o \in Ops : call'[o] = "unused" <=> call[o] = "unused"
      BY <2>1, <2>3, <3>1, CallEnds DEF ServedInv
    <3>3. writes' \in Seq(TrueJob')
      BY <2>1, <2>3, <3>2, FramesKeep DEF End, ServedInv, FrameInv
    <3> QED
      BY <1>a, <2>1, <2>3, <3>1, <3>3, KeptEnd
  <2> QED
    BY <1>5, <2>2, <2>3 DEF AwaitAnswer
<1>6. CASE Kill(s)
  <2>1. /\ at[s] = "kill" /\ UNCHANGED <<writes, failure, served, inbound>>
        /\ stdin' \in {stdin, <<>>} /\ known' \in SUBSET known
    BY <1>6 DEF Kill, Exits, fail
  <2>2. CASE s = Owner /\ leaving = "closing"
    <3>1. Goto(s, "idle") /\ UNCHANGED <<n, kind, hand, call, table>>
      BY <1>6, <2>2 DEF Kill
    <3>2. at'[s] = "idle" /\ Others(s) /\ UNCHANGED <<pending, done, box>>
      BY <3>1, TypeTogether DEF ThreadsOK, Goto, Others, table
    <3>3. ~InCall(s)' /\ ~InCall(s)
      BY <2>1, <2>2, <3>2 DEF InCall, SendSteps
    <3>4. writes' \in Seq(TrueJob) /\ at'[Writer] = at[Writer]
      BY <2>1, <2>2, <3>2 DEF ServedInv, FrameInv, Others
    <3> QED
      BY <2>1, <2>2, <3>1, <3>2, <3>3, <3>4, KeptMove
  <2>3. CASE ~(s = Owner /\ leaving = "closing")
    <3>1. Raise(s) /\ InCall(s) /\ leaving' = leaving
      BY <1>6, <2>1, <2>3 DEF Kill, InCall
    <3> QED
      BY <2>1, <3>1, KeptRaise
  <2> QED
    BY <2>2, <2>3
<1> QED
  BY <1>1, <1>2, <1>3, <1>4, <1>5, <1>6 DEF CallStep

LEMMA KeptExpire ==
    ASSUME TypeInv, ServedInv, NEW s \in Senders, Expire(s) PROVE Kept
<1> USE Names
<1>a. stdin \in {stdin, <<>>} /\ known \in SUBSET known
  OBVIOUS
<1>1. CASE ExpireSend(s)
  <2>1. /\ at[s] = "send" /\ InCall(s) /\ Cur(s) \in Ops /\ call[Cur(s)] = "open"
        /\ UNCHANGED <<n, kind, hand, leaving, served, inbound, stdin, known>>
    BY <1>1 DEF ExpireSend, InCall, SendSteps, ends, server, TypeInv, CallsOpen
  <2>2. CASE s = Dispatcher
    <3>1. /\ call' = [call EXCEPT ![Cur(s)] = "raised"] /\ Fail(s, "fault")
          /\ UNCHANGED <<waiters, pending, done, box>>
      BY <1>1, <2>2 DEF ExpireSend, table
    <3>2. /\ \A o \in Ops : o[1] \in Users => call'[o] = call[o]
          /\ \A o \in Ops : call'[o] = "unused" <=> call[o] = "unused"
      BY <2>1, <2>2, <3>1, TypeTogether DEF CountsOK, Cur
    <3> QED
      BY <1>a, <2>1, <2>2, <3>1, <3>2, KeptFail
  <2>3. CASE s # Dispatcher
    BY <1>1, <1>a, <2>1, <2>3, KeptRaise DEF ExpireSend, fail
  <2> QED
    BY <2>2, <2>3
<1>2. CASE ExpireWrite(s)
  <2>1. /\ InCall(s) /\ at[s] # "kill" /\ at[s] # "wake" /\ Fail(s, "timeout")
        /\ UNCHANGED <<n, kind, hand, call, waiters, pending, done, box, leaving, served, inbound, stdin, known>>
    BY <1>2 DEF ExpireWrite, InCall, SendSteps, table, ends, server
  <2>2. ~(s = Owner /\ leaving = "closing")
    BY <2>1 DEF TypeInv, OwnerLeaves
  <2> QED
    BY <1>a, <2>1, <2>2, KeptFail
<1>3. CASE ExpireAnswer(s)
  <2>1. /\ InCall(s) /\ Raise(s) /\ UNCHANGED <<failure, leaving, served, inbound, stdin, known>>
        /\ Cur(s) \in Ops /\ call[Cur(s)] = "open"
    BY <1>3 DEF ExpireAnswer, InCall, fail, ends, server, TypeInv, CallsOpen
  <2>2. End(s, "raised") /\ pending' \in SUBSET pending /\ Cur(s) \notin pending'
    BY <2>1 DEF Raise
  <2>3. TrueJob' = TrueJob
    BY <2>1, <2>2, CallEnds, FramesKeep DEF ServedInv
  <2>4. [kind |-> "cancel", op |-> Cur(s)] \in TrueJob
    BY <2>1 DEF TrueJob, Job, Kinds, Begun
  <2>5. writes' \in Seq(TrueJob')
    BY <1>3, <2>3, <2>4 DEF ExpireAnswer, ServedInv, FrameInv
  <2> QED
    BY <1>a, <2>1, <2>2, <2>5, KeptEnd
<1> QED
  BY <1>1, <1>2, <1>3 DEF Expire

LEMMA KeptWakeAll ==
    ASSUME TypeInv, ServedInv, NEW t \in Threads, WakeAll(t) PROVE Kept
<1> USE Names
<1>1. /\ at[t] = "wake" /\ Goto(t, After(t, failure))
      /\ done' = Completed(victims, Woken) /\ pending' = {}
      /\ box' = [s \in Senders |-> IF Cur(s) \in pending THEN "error" ELSE box[s]]
      /\ UNCHANGED <<n, kind, hand, call, writes, failure, leaving, served, inbound, stdin, known>>
  BY DEF WakeAll, ends, server
<1>2. at'[t] \in {"complete", "kill", "returned"} /\ at'[t] = After(t, failure) /\ Others(t)
  BY <1>1, TypeTogether DEF ThreadsOK, Goto, Others, After
<1>3. t \in Users => (InCall(t)' <=> InCall(t)) /\ (at'[t] = "register" => at[t] = "register")
  <2> SUFFICES ASSUME t \in Users PROVE InCall(t)' <=> InCall(t)
    BY <1>2
  <2>1. at'[t] = "kill" /\ failure \in {"timeout", "closed"} /\ (failure = "closed" => t = Owner /\ leaving = "closing")
    BY <1>1, <1>2 DEF After, TypeInv, WakersFailed
  <2>2. t = Owner /\ leaving = "closing" => failure = "closed"
    BY <1>1 DEF TypeInv, OwnerLeaves
  <2> QED
    BY <1>1, <2>1, <2>2 DEF InCall, SendSteps
<1>4. \A u \in Users : (InCall(u)' <=> InCall(u)) /\ (at'[u] = "register" => at[u] = "register")
  BY <1>1, <1>2, <1>3, CallersStay
<1>5. ASSUME NEW u \in Users
      PROVE  /\ box'[u] # box[u] => InCall(u) /\ at[u] # "register" /\ box'[u] # "answer"
             /\ done'[u] # done[u] => InCall(u) /\ done'[u] # "ok"
  <2>1. Cur(u) \in pending => InCall(u) /\ at[u] # "register"
    BY DEF ServedInv, CallInv, PendingCall, Cur
  <2>2. box'[u] # box[u] => Cur(u) \in pending /\ box'[u] = "error"
    BY <1>1
  <2>3. done'[u] # done[u] => done'[u] = "error" /\ Cur(u) \in victims /\ call[Cur(u)] = "open"
    BY <1>1 DEF Completed, Woken
  <2>4. Cur(u) \in victims /\ call[Cur(u)] = "open" => InCall(u)
    BY TypeTogether DEF ServedInv, CallInv, NothingLeft, TableOK
  <2> QED
    BY <2>1, <2>2, <2>3, <2>4
<1>6. CallInv'
  BY <1>1, <1>4, <1>5, CallStays DEF ServedInv
<1>7. Begun' = Begun /\ TrueJob' = TrueJob
  BY <1>1, FramesKeep
<1>8. at'[Writer] = "wrote" => at[Writer] = "wrote"
  BY <1>2 DEF Others
<1>9. FrameInv'
  BY <1>1, <1>7, <1>8, FrameMoves, WritesKeep DEF ServedInv
<1>10. Promised
  BY <1>1, PromisedQuiet
<1> QED
  BY <1>6, <1>9, <1>10 DEF Kept, ServedInv

LEMMA KeptTakeJob == ASSUME TypeInv, ServedInv, TakeJob PROVE Kept
<1> USE Names
<1>1. /\ at[Writer] = "get" /\ Goto(Writer, "check") /\ writes # <<>>
      /\ hand' = Head(writes) /\ writes' = Tail(writes)
      /\ UNCHANGED <<n, kind, call, pending, done, box, failure, leaving, served, inbound, stdin, known>>
  BY DEF TakeJob, table, fail, ends, server
<1>2. at'[Writer] = "check" /\ Others(Writer)
  BY <1>1, TypeTogether DEF ThreadsOK, Goto, Others
<1>3. \A u \in Users : (InCall(u)' <=> InCall(u)) /\ (at'[u] = "register" => at[u] = "register")
  BY <1>1, <1>2, CallersStay
<1>4. CallInv'
  BY <1>1, <1>3, CallStays DEF ServedInv
<1>5. TrueJob' = TrueJob /\ Begun' = Begun
  BY <1>1, FramesKeep
<1>6. hand' \in TrueJob' /\ writes' \in Seq(TrueJob')
  BY <1>1, <1>5 DEF ServedInv, FrameInv
<1>7. inbound' \in Seq(TrueMessage')
  BY <1>1, MessagesKeep DEF ServedInv, FrameInv
<1>8. FrameInv'
  BY <1>1, <1>2, <1>5, <1>6, <1>7 DEF ServedInv, FrameInv
<1>9. Promised
  BY <1>1, PromisedQuiet
<1> QED
  BY <1>4, <1>8, <1>9 DEF Kept, ServedInv

LEMMA KeptWrite == ASSUME TypeInv, ServedInv, Write PROVE Kept
<1> USE Names
<1>1. /\ at[Writer] \in {"check", "blocked"} /\ hand \in Job
      /\ UNCHANGED <<n, kind, hand, call, waiters, pending, done, box, leaving, inbound, known>>
  BY DEF Write, table, ends, TypeInv, WriterHolds
<1>2. ASSUME NEW where \in {"complete", "blocked"}, Goto(Writer, where), UNCHANGED <<fail, writes, stdin, served>>
      PROVE  Kept
  <2>1. at'[Writer] = where /\ Others(Writer) /\ failure' = failure
    BY <1>2, TypeTogether DEF ThreadsOK, Goto, Others, fail
  <2>2. writes' \in Seq(TrueJob)
    BY <1>2 DEF ServedInv, FrameInv
  <2> QED
    BY <1>1, <1>2, <2>1, <2>2, KeptMove
<1>3. CASE WriteNow
  <2>1. /\ stdin' = Append(stdin, hand) /\ Goto(Writer, "wrote") /\ failure' = failure /\ writes' = writes
        /\ served' = IF hand.kind \in {"request", "cancel"} THEN served ELSE served \cup {hand.op}
    BY <1>3 DEF WriteNow, fail
  <2>2. at'[Writer] = "wrote" /\ Others(Writer)
    BY <2>1, TypeTogether DEF ThreadsOK, Goto, Others
  <2>3. \A u \in Users : (InCall(u)' <=> InCall(u)) /\ (at'[u] = "register" => at[u] = "register")
    BY <1>1, <2>1, <2>2, CallersStay
  <2>4. served \subseteq served'
    BY <2>1
  <2>5. CallInv'
    BY <1>1, <2>3, <2>4, CallStays DEF ServedInv
  <2>6. TrueJob' = TrueJob /\ Begun' = Begun
    BY <1>1, FramesKeep
  <2>7. hand \in TrueJob /\ hand.op \in Begun
    BY <1>1, Bounds DEF ServedInv, FrameInv, TrueJob
  <2>8. stdin' \in Seq(TrueJob') /\ writes' \in Seq(TrueJob')
    BY <2>1, <2>6, <2>7 DEF ServedInv, FrameInv
  <2>9. inbound' \in Seq(TrueMessage')
    BY <1>1, <2>4, MessagesKeep DEF ServedInv, FrameInv
  <2>10. FrameInv'
    BY <1>1, <2>1, <2>6, <2>7, <2>8, <2>9 DEF ServedInv, FrameInv
  <2>11. Promised
    <3>1. CASE hand.kind \in {"request", "cancel"}
      BY <1>1, <2>1, <3>1, PromisedQuiet
    <3>2. CASE hand.kind \notin {"request", "cancel"}
      BY <1>1, <2>1, <2>7, <3>2, PromisedServe
    <3> QED
      BY <3>1, <3>2
  <2> QED
    BY <2>5, <2>10, <2>11 DEF Kept, ServedInv
<1>4. CASE Fail(Writer, "exited") /\ UNCHANGED <<stdin, served>>
  BY <1>1, <1>4, KeptFail
<1> QED
  BY <1>2, <1>3, <1>4 DEF Write

LEMMA KeptCompleteWrite == ASSUME TypeInv, ServedInv, CompleteWrite PROVE Kept
<1> USE Names
<1>1. /\ at[Writer] \in {"wrote", "complete"} /\ hand \in Job /\ hand' = None
      /\ done' = IF hand.kind = "cancel" THEN done
                 ELSE Completed({hand.op}, IF at[Writer] = "wrote" THEN "ok" ELSE "error")
      /\ Goto(Writer, IF at[Writer] = "wrote" THEN "get" ELSE "returned")
      /\ UNCHANGED <<n, kind, call, writes, pending, box, failure, leaving, served, inbound, stdin, known>>
  BY DEF CompleteWrite, fail, ends, server, TypeInv, WriterHolds
<1>2. at'[Writer] \in {"get", "returned"} /\ Others(Writer)
  BY <1>1, TypeTogether DEF ThreadsOK, Goto, Others
<1>3. \A u \in Users : (InCall(u)' <=> InCall(u)) /\ (at'[u] = "register" => at[u] = "register")
  BY <1>1, <1>2, CallersStay
<1>4. hand \in TrueJob
  BY <1>1, Bounds DEF ServedInv, FrameInv
<1>5. ASSUME NEW u \in Users, done'[u] # done[u]
      PROVE  InCall(u) /\ (done'[u] = "ok" /\ kind[u] # "request" => Cur(u) \in served)
  <2>1. /\ Cur(u) = hand.op /\ call[Cur(u)] = "open" /\ hand.kind # "cancel"
        /\ done'[u] = "ok" => at[Writer] = "wrote"
    BY <1>1, <1>5, TypeTogether DEF Completed, TableOK
  <2>2. Cur(u) \in Ops /\ hand.kind = kind[u]
    BY <1>4, <2>1 DEF TrueJob, Begun
  <2>3. InCall(u)
    BY <2>1, <2>2 DEF ServedInv, CallInv, NothingLeft
  <2> QED
    BY <2>1, <2>2, <2>3 DEF ServedInv, FrameInv
<1>6. CallInv'
  BY <1>1, <1>3, <1>5, CallStays DEF ServedInv
<1>7. TrueJob' = TrueJob /\ Begun' = Begun
  BY <1>1, FramesKeep
<1>8. inbound' \in Seq(TrueMessage')
  BY <1>1, MessagesKeep DEF ServedInv, FrameInv
<1>9. FrameInv'
  BY <1>1, <1>2, <1>7, <1>8 DEF ServedInv, FrameInv
<1>10. Promised
  BY <1>1, PromisedQuiet
<1> QED
  BY <1>6, <1>9, <1>10 DEF Kept, ServedInv

LEMMA KeptDispatch == ASSUME TypeInv, ServedInv, Dispatch PROVE Kept
<1> USE Names
<1> DEFINE m == Head(inbound)
<1>1. /\ at[Dispatcher] = "get" /\ inbound # <<>> /\ inbound' = Tail(inbound)
      /\ UNCHANGED <<leaving, stdin, known, served>>
  BY DEF Dispatch, ends
<1>2. m \in TrueMessage /\ m \in Message /\ inbound' \in Seq(TrueMessage)
  BY <1>1, TypeTogether DEF ServedInv, FrameInv, ServerOK
<1>3. inbound' \in Seq(TrueMessage')
  BY <1>1, <1>2, MessagesKeep
<1>4. CASE /\ m.type = "answer"
           /\ box' = IF m.op \in pending THEN [box EXCEPT ![m.op[1]] = "answer"] ELSE box
           /\ pending' = pending \ {m.op}
           /\ UNCHANGED <<thread, waiters, done, writes, fail>>
  <2>1. UNCHANGED <<at, n, kind, hand, call, failure>>
    BY <1>4 DEF thread, fail
  <2>2. \A u \in Users : (InCall(u)' <=> InCall(u)) /\ at'[u] = at[u]
    BY <1>1, <2>1 DEF InCall
  <2>3. ASSUME NEW u \in Users, box'[u] # box[u]
        PROVE  InCall(u) /\ at[u] # "register" /\ Cur(u) \notin pending' /\ Cur(u) \in served
    <3>1. m.op \in pending /\ u = m.op[1]
      BY <1>4, <2>3, TypeTogether DEF TableOK
    <3>2. m.op = Cur(u) /\ InCall(u) /\ at[u] # "register"
      BY <3>1 DEF ServedInv, CallInv, PendingCall
    <3> QED
      BY <1>2, <1>4, <3>2 DEF TrueMessage
  <2>4. pending' \in SUBSET pending /\ \A o \in Ops : call'[o] = call[o]
    BY <1>4, <2>1
  <2>5. CallInv'
    BY <1>1, <1>4, <2>1, <2>2, <2>3, <2>4, CallStays DEF ServedInv
  <2>6. TrueJob' = TrueJob /\ Begun' = Begun
    BY <2>1, FramesKeep
  <2>7. FrameInv'
    BY <1>1, <1>3, <1>4, <2>1, <2>6 DEF ServedInv, FrameInv
  <2>8. Promised
    BY <1>1, <2>1, PromisedQuiet
  <2> QED
    BY <2>5, <2>7, <2>8 DEF Kept, ServedInv
<1>5. CASE m.type = "ask" /\ Begin(m.op, "reply") /\ UNCHANGED <<hand, table, writes, fail>>
  <2>1. m.op[1] = Dispatcher /\ m.op \in Ops /\ "reply" \in Kinds
    BY <1>2, <1>5, OpsAre, Bounds DEF Message, Response, Request, Kinds
  <2>2. failure' = failure
    BY <1>5 DEF fail
  <2> QED
    BY <1>1, <1>2, <1>5, <2>1, <2>2, KeptBegin
<1>6. CASE Fail(Dispatcher, "fault") /\ UNCHANGED <<n, kind, hand, call, table>>
  <2>1. /\ Others(Dispatcher)
        /\ failure # None => failure' = failure
        /\ writes' \in {writes, <<>>} /\ at'[Dispatcher] \in {"wake", "kill", "returned"}
    BY <1>6, FailType DEF TypeInv, After
  <2>2. \A u \in Users : (InCall(u)' <=> InCall(u)) /\ (at'[u] = "register" => at[u] = "register")
    BY <1>1, <1>6, <2>1, CallersStay
  <2>3. CallInv'
    BY <1>1, <1>6, <2>2, CallStays DEF ServedInv, table
  <2>4. TrueJob' = TrueJob /\ Begun' = Begun
    BY <1>6, FramesKeep
  <2>5. writes' \in Seq(TrueJob') /\ at'[Writer] = at[Writer]
    BY <2>1, <2>4, WritesKeep DEF ServedInv, Others
  <2>6. FrameInv'
    BY <1>1, <1>3, <1>6, <2>4, <2>5 DEF ServedInv, FrameInv
  <2>7. Promised
    BY <1>1, <1>6, <2>1, PromisedQuiet
  <2> QED
    BY <2>3, <2>6, <2>7 DEF Kept, ServedInv
<1> QED
  BY <1>4, <1>5, <1>6 DEF Dispatch

LEMMA KeptThreadEnds ==
    ASSUME TypeInv, ServedInv, DispatchEnd \/ (\E t \in {Writer, Dispatcher} : Stops(t)) PROVE Kept
<1> USE Names
<1>1. ASSUME NEW t \in {Writer, Dispatcher}, Goto(t, "returned"), UNCHANGED <<fail, writes>>,
             UNCHANGED <<n, kind, hand, call, table, ends, server, served>>
      PROVE  Kept
  <2>1. at'[t] = "returned" /\ Others(t)
    BY <1>1, TypeTogether DEF ThreadsOK, Goto, Others
  <2>2. /\ UNCHANGED <<failure, leaving, done, box, pending, inbound, stdin, known>>
        /\ writes' \in Seq(TrueJob)
    BY <1>1 DEF fail, ends, table, server, ServedInv, FrameInv
  <2>3. at'[Writer] = "wrote" => at[Writer] = "wrote"
    BY <2>1 DEF Others
  <2> QED
    BY <1>1, <2>1, <2>2, <2>3, KeptMove
<1>2. CASE DispatchEnd
  <2>1. CASE Fail(Dispatcher, "exited")
    <3>1. UNCHANGED <<n, kind, hand, call, waiters, pending, done, box, leaving, inbound, stdin, known, served>>
      BY <1>2 DEF DispatchEnd, table, ends, server
    <3> QED
      BY <2>1, <3>1, KeptFail
  <2>2. CASE Goto(Dispatcher, "returned") /\ UNCHANGED <<fail, writes>>
    BY <1>1, <1>2, <2>2 DEF DispatchEnd
  <2> QED
    BY <1>2, <2>1, <2>2 DEF DispatchEnd, EndOfStream
<1>3. ASSUME NEW t \in {Writer, Dispatcher}, Stops(t) PROVE Kept
  BY <1>1, <1>3 DEF Stops
<1> QED
  BY <1>2, <1>3

\* Nothing of the calls changes.
LEMMA KeptQuiet ==
    ASSUME ServedInv, UNCHANGED <<at, n, kind, hand, call, writes, table, failure, served, inbound>>,
           leaving' = leaving \/ at[Owner] = "idle",
           stdin' \in {stdin, <<>>}, known' \in SUBSET known
    PROVE  Kept
<1>1. \A u \in Users : InCall(u)' <=> InCall(u)
  BY DEF InCall, SendSteps
<1>2. CallInv'
  BY <1>1, CallStays DEF ServedInv, table
<1>3. TrueJob' = TrueJob /\ Begun' = Begun
  BY FramesKeep
<1>4. FrameInv'
  BY <1>3, FrameMoves, WritesKeep DEF ServedInv
<1>5. Promised
  BY PromisedQuiet
<1> QED
  BY <1>2, <1>4, <1>5 DEF Kept, ServedInv

LEMMA KeptOwner ==
    ASSUME TypeInv, ServedInv, OwnerStep \/ Leave PROVE Kept
<1> USE Names
<1>1. at[Owner] = "idle" => ~InCall(Owner)
  BY DEF InCall, SendSteps
<1>2. ASSUME NEW k \in {"request", "exit"}, at[Owner] = "idle", n[Owner] < 2, Started,
             Begin(Following(Owner), k),
             UNCHANGED <<hand, writes, table, fail, leaving, server, served>>
      PROVE  Kept
  <2>1. Following(Owner) \in Ops /\ Following(Owner)[1] = Owner /\ Following(Owner)[2] = n[Owner] + 1
    BY <1>2, FollowingIs, Bounds DEF Following
  <2>2. /\ UNCHANGED <<failure, stdin, known>> /\ inbound' \in Seq(TrueMessage)
        /\ failure = None /\ k \in Kinds
    BY <1>2 DEF fail, server, Started, Kinds, ServedInv, FrameInv
  <2> QED
    BY <1>1, <1>2, <2>1, <2>2, KeptBegin
<1>3. CASE Shutdown
  <2>1. CASE Started /\ Begin(Following(Owner), "request") /\ UNCHANGED leaving
    BY <1>2, <1>3, <2>1 DEF Shutdown
  <2>2. CASE UNCHANGED <<at, n, kind, call>>
    BY <1>3, <2>2, KeptQuiet DEF Shutdown, fail, server
  <2> QED
    BY <1>3, <2>1, <2>2 DEF Shutdown
<1>4. CASE NotifyExit
  <2>1. CASE Started /\ Begin(Following(Owner), "exit") /\ UNCHANGED leaving
    BY <1>2, <1>4, <2>1 DEF NotifyExit
  <2>2. CASE UNCHANGED <<at, n, kind, call>>
    BY <1>4, <2>2, KeptQuiet DEF NotifyExit, fail, server
  <2> QED
    BY <1>4, <2>1, <2>2 DEF NotifyExit
<1>5. CASE ShutdownAnswered \/ ExitNotified
  BY <1>5, KeptQuiet DEF ShutdownAnswered, ExitNotified, thread, fail, server
<1>6. CASE Finish
  BY <1>6, KeptQuiet, TypeTogether DEF Finish, thread, fail, Exits, OwnerLeaves
<1>7. CASE Abort
  <2>1. at[Owner] = "idle"
    BY <1>7 DEF Abort, TypeInv, OwnerLeaves
  <2> QED
    BY <1>7, <2>1, KeptFail DEF Abort, table, Exits
<1>8. CASE Leave
  <2>1. at[Owner] = "idle" /\ UNCHANGED <<n, kind, hand, call, table, stop, expecting, server, served>>
    BY <1>8 DEF Leave
  <2>2. CASE leaving' = "closing" /\ Fail(Owner, "closed")
    BY <2>1, <2>2, KeptFail DEF table, server
  <2>3. CASE UNCHANGED <<at, fail, writes>>
    BY <2>1, <2>3, KeptQuiet DEF fail, server
  <2> QED
    BY <1>8, <2>2, <2>3 DEF Leave
<1> QED
  BY <1>3, <1>4, <1>5, <1>6, <1>7, <1>8 DEF OwnerStep

LEMMA KeptCall ==
    ASSUME TypeInv, ServedInv, NEW c \in Callers, Call(c) PROVE Kept
<1>1. PICK k \in CallKinds : Begin(Following(c), k)
  BY DEF Call
<1>2. /\ c \in Users /\ c \in Senders /\ n[c] < Limit(c) /\ k \in Kinds /\ ~InCall(c) /\ failure = None
      /\ UNCHANGED <<hand, table, failure, leaving, served, writes, stdin, known, inbound>>
  BY Bounds, Names DEF Call, Kinds, fail, ends, server, Started, InCall, SendSteps
<1>3. Following(c) \in Ops /\ Following(c)[1] = c /\ Following(c)[2] = n[c] + 1
  BY <1>2, FollowingIs DEF Following
<1>4. inbound' \in Seq(TrueMessage)
  BY <1>2 DEF ServedInv, FrameInv
<1> QED
  BY <1>1, <1>2, <1>3, <1>4, KeptBegin

LEMMA KeptServer == ASSUME TypeInv, ServedInv, Server PROVE Kept
<1>1. /\ UNCHANGED <<thread, writes, table, fail, ends>>
      /\ UNCHANGED <<at, n, kind, hand, call, waiters, pending, done, box, failure, leaving>>
  BY DEF Server, Receive, Respond, Ask, Die, thread, table, fail, ends
<1>2. TrueJob' = TrueJob /\ Begun' = Begun
  BY <1>1, FramesKeep
<1>3. CASE Receive
  <2>1. CASE Exits
    BY <1>1, <1>3, <2>1, KeptQuiet DEF Receive, Exits
  <2>2. CASE ~Exits
    <3>1. /\ stdin # <<>> /\ stdin' = Tail(stdin) /\ UNCHANGED <<inbound, served>>
          /\ known' \in {known \cup {Head(stdin).op}, known, known \ {Head(stdin).op}}
      BY <1>3, <2>2 DEF Receive
    <3>2. Head(stdin) \in TrueJob /\ stdin' \in Seq(TrueJob)
      BY <3>1 DEF ServedInv, FrameInv
    <3>3. Head(stdin).op \in Begun
      BY <3>2 DEF TrueJob
    <3>4. CallInv'
      BY <1>1, <3>1, CallStays DEF ServedInv, InCall
    <3>5. inbound' \in Seq(TrueMessage') /\ known' \subseteq Begun
      BY <3>1, <3>3, MessagesKeep DEF ServedInv, FrameInv
    <3>6. FrameInv'
      BY <1>1, <1>2, <3>1, <3>2, <3>5 DEF ServedInv, FrameInv
    <3>7. Promised
      BY <1>1, <3>1, PromisedQuiet
    <3> QED
      BY <3>4, <3>6, <3>7 DEF Kept, ServedInv
  <2> QED
    BY <2>1, <2>2
<1>4. ASSUME NEW o \in Ops, Respond(o) PROVE Kept
  <2>1. /\ o \in known /\ served' = served \cup {o} /\ known' = known \ {o} /\ stdin' = stdin
        /\ inbound' = Append(inbound, [type |-> "answer", op |-> o])
    BY <1>4 DEF Respond
  <2>2. o \in Begun
    BY <2>1 DEF ServedInv, FrameInv
  <2>3. CallInv'
    BY <1>1, <2>1, CallStays DEF ServedInv, InCall
  <2>4. [type |-> "answer", op |-> o] \in TrueMessage'
    BY <2>1 DEF TrueMessage, Message, Response
  <2>5. inbound \in Seq(TrueMessage')
    BY <2>1, MessagesKeep DEF ServedInv, FrameInv
  <2>6. inbound' \in Seq(TrueMessage')
    BY <2>1, <2>4, <2>5
  <2>7. FrameInv'
    BY <1>1, <1>2, <2>1, <2>6 DEF ServedInv, FrameInv
  <2>8. Promised
    BY <1>1, <2>1, <2>2, PromisedServe
  <2> QED
    BY <2>3, <2>7, <2>8 DEF Kept, ServedInv
<1>5. CASE Ask
  <2>1. PICK t \in {"ask", "malformed"} : inbound' = Append(inbound, [type |-> t, op |-> <<Dispatcher, asks + 1>>])
    BY <1>5 DEF Ask
  <2>2. /\ UNCHANGED <<stdin, known, served>> /\ asks + 1 \in 1..MaxAsks
    BY <1>5, Bounds, TypeTogether DEF Ask, ServerOK
  <2>3. CallInv'
    BY <1>1, <2>2, CallStays DEF ServedInv, InCall
  <2>4. [type |-> t, op |-> <<Dispatcher, asks + 1>>] \in TrueMessage'
    BY <2>2 DEF TrueMessage, Message, Request
  <2>5. inbound \in Seq(TrueMessage')
    BY <2>2, MessagesKeep DEF ServedInv, FrameInv
  <2>6. inbound' \in Seq(TrueMessage')
    BY <2>1, <2>4, <2>5
  <2>7. FrameInv'
    BY <1>1, <1>2, <2>2, <2>6 DEF ServedInv, FrameInv
  <2>8. Promised
    BY <1>1, <2>2, PromisedQuiet
  <2> QED
    BY <2>3, <2>7, <2>8 DEF Kept, ServedInv
<1>6. CASE Die
  BY <1>1, <1>6, KeptQuiet DEF Die, Exits
<1> QED
  BY <1>3, <1>4, <1>5, <1>6 DEF Server

LEMMA KeptNextStep == TypeInv /\ FailInv /\ ServedInv /\ [Next]_vars => Kept
<1> SUFFICES ASSUME TypeInv, FailInv, ServedInv, [Next]_vars PROVE Kept
  OBVIOUS
<1>1. CASE Client
  BY <1>1, KeptCallStep, KeptWakeAll, KeptTakeJob, KeptWrite, KeptCompleteWrite, KeptDispatch,
     KeptThreadEnds, KeptOwner DEF Client
<1>2. CASE UNCHANGED vars
  BY <1>2, KeptQuiet DEF vars, thread, fail, ends, server
<1> QED
  BY <1>1, <1>2, KeptExpire, KeptServer, KeptOwner, KeptCall DEF Next, Deadlines

LEMMA ServedInit == Init => ServedInv /\ Contract!Init
<1> SUFFICES ASSUME Init PROVE ServedInv /\ Contract!Init
  OBVIOUS
<1>1. /\ call = [o \in Ops |-> "unused"] /\ served = {} /\ failure = None /\ pending = {} /\ known = {}
      /\ writes = <<>> /\ stdin = <<>> /\ inbound = <<>> /\ hand = None
      /\ done = [s \in Senders |-> None] /\ box = [s \in Senders |-> None] /\ n = [s \in Senders |-> 0]
      /\ at = [t \in Threads |-> IF t \in Users THEN "idle" ELSE "get"]
  BY DEF Init
<1>2. ASSUME NEW s \in Users PROVE NothingLeft(s) /\ TrueOutcome(s)
  <2>1. s \in Senders /\ s \in Threads /\ at[s] = "idle" /\ done[s] = None /\ box[s] = None /\ n[s] = 0
    BY <1>1, <1>2, Names
  <2>2. \A i \in 1..Limit(s) : call[<<s, i>>] = "unused"
    BY <1>1, <2>1, OpsAre, Bounds
  <2>3. Cur(s) \in Ops => call[Cur(s)] # "open"
    BY <1>1
  <2> QED
    BY <2>1, <2>2, <2>3, Bounds DEF NothingLeft, TrueOutcome
<1>3. CallInv
  BY <1>1, <1>2 DEF CallInv
<1>4. FrameInv
  BY <1>1, Names, SeqGrows DEF FrameInv
<1>5. Contract!Init
  BY <1>1 DEF Contract!Init, UserOps
<1> QED
  BY <1>3, <1>4, <1>5 DEF ServedInv

\* The threads implement the contract of the client's calls: a call of request,
\* notify or shutdown returns normally only if its request was answered or its
\* frame written, returns once, and none begins after the sticky failure.
THEOREM ContractKept == Spec => KeepsContract
<1>1. TypeInv /\ FailInv /\ ServedInv /\ [Next]_vars => ServedInv' /\ [Contract!Next]_(Contract!contract)
  BY KeptNextStep DEF Kept, Promised
<1>2. Init => Contract!Init
  BY ServedInit
<1>3. Init => ServedInv
  BY ServedInit
<1> QED
  BY <1>1, <1>2, <1>3, TypeInit, FailInit, TypeNextStep, FailNextStep, PTL
     DEF Spec, KeepsContract, Contract!Spec

\* The table of pending requests holds requests that are being made, and no other:
\* what ends a request (an answer, an error, its deadline) has removed its entry.
THEOREM PendingRequestsLive == Spec => []PendingIsLive
<1>1. CallInv => PendingIsLive
  BY DEF CallInv, PendingCall, PendingIsLive, InCall, SendSteps, FailSteps
<1>2. TypeInv /\ FailInv /\ ServedInv /\ [Next]_vars => ServedInv'
  BY KeptNextStep DEF Kept
<1>3. ServedInv => CallInv
  BY DEF ServedInv
<1>4. Init => ServedInv
  BY ServedInit
<1> QED
  BY <1>1, <1>2, <1>3, <1>4, TypeInit, FailInit, TypeNextStep, FailNextStep, PTL DEF Spec
=============================================================================
