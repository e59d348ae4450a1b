--------------------------- MODULE PackSelection ---------------------------
(***************************************************************************)
(* Which context packs of a diff are reviewed, deeply or shallowly, under  *)
(* the caps of a reviewer (pipeline/selection.py), and the standing of a   *)
(* pack: its priority and its slice (report/coverage_breakdown.py).        *)
(*                                                                         *)
(* A pack is numbered by its place in the report.  Symbols, snippets and   *)
(* prompts are abstracted to their sizes, rules and signals to the fields  *)
(* that rank them.  A cap that is not set is a number nothing reaches.     *)
(***************************************************************************)
EXTENDS Naturals, Integers, Sequences, FiniteSets, FiniteSetsExt, SequencesExt

CONSTANTS
  Pack,         \* the packs: [file, kind, signals, rules, chars, tokens, related, truncated, lines]
  MaxPackChars  \* context.max_pack_chars

Depths == {"deep", "shallow"}
Packs  == DOMAIN Pack

Severities == {"critical", "high", "medium", "low"}

ASSUME PacksAssumption ==
  /\ MaxPackChars \in Nat
  /\ Len(Pack) \in Nat /\ Packs = 1..Len(Pack)
  /\ \A p \in Packs :
       /\ Pack[p].related \in Nat
       /\ \A d \in Depths : Pack[p].chars[d] \in Nat /\ Pack[p].tokens[d] \in Nat \ {0}
       /\ IsFiniteSet(Pack[p].signals) /\ IsFiniteSet(Pack[p].rules) /\ IsFiniteSet(Pack[p].lines)
       /\ \A s \in Pack[p].signals : s.severity \in Severities /\ s.score \in Nat
       /\ \A r \in Pack[p].rules : r.severity \in Severities

-----------------------------------------------------------------------------
(* The standing of a pack. *)

Severe == {"critical", "high"}

\* Strict rules and severe rules count everywhere; a severe signal does, unless it
\* is the built-in authentication signal of a test.
HighRisk(p) ==
  \/ \E r \in Pack[p].rules : r.mode = "strict" \/ r.severity \in Severe
  \/ \E s \in Pack[p].signals : /\ s.severity \in Severe
                                /\ ~(Pack[p].kind = "test" /\ s.source = "built_in" /\ s.kind = "auth")

Priority(p) ==
  CASE HighRisk(p) -> "p0"
    [] ~HighRisk(p) /\ \/ \E s \in Pack[p].signals : s.severity # "low"
                       \/ Pack[p].kind \in {"source", "schema", "migration", "config"}
                       \/ Pack[p].truncated -> "p1"
    [] OTHER -> "p2"

Slice(p) ==
  CASE HighRisk(p) -> "high_risk"
    [] ~HighRisk(p) /\ Pack[p].kind \in {"schema", "config", "migration", "dependency"} -> "contracts_config"
    [] ~HighRisk(p) /\ Pack[p].kind = "test" -> "tests"
    [] ~HighRisk(p) /\ Pack[p].kind \in {"source", "docs"} -> Pack[p].kind
    [] OTHER -> "other"

\* A pack worth a second look at a file that was looked at already.
IsHighValue(p) ==
  \/ \E s \in Pack[p].signals : s.severity \in Severe
  \/ \E r \in Pack[p].rules : r.mode = "strict" \/ r.severity \in Severe

SeverityRank == [critical |-> 4, high |-> 3, medium |-> 2, low |-> 1]

Scores(signals) == LET score(s) == s.score IN MapThenSumSet(score, signals)

\* A severe signal of the project counts for more.
Boosts(signals) == LET boosted(s) == 1500 + s.score IN MapThenSumSet(boosted, signals)

KindScore(kind) ==
  CASE kind = "source" -> 5
    [] kind \in {"schema", "migration"} -> 4
    [] kind = "config" -> 3
    [] kind = "test" -> 1
    [] OTHER -> 2

\* Compared from left to right, the greater first.
Weight(p) ==
  LET of(severity) == {s \in Pack[p].signals : s.severity = severity}
      n(severity)  == Cardinality(of(severity))
      strict       == Cardinality({r \in Pack[p].rules : r.mode = "strict"})
      severe       == Cardinality({r \in Pack[p].rules : r.severity \in Severe})
      project      == {s \in of("critical") \cup of("high") : s.source = "project"}
      ranked       == {SeverityRank[x.severity] : x \in Pack[p].signals \cup Pack[p].rules}
  IN << Max(ranked \cup {0}),
        3000 * n("critical") + 2000 * strict + Boosts(project),
        IF Pack[p].kind = "test" THEN 1 ELSE 2,
        2000 * n("critical") + 1000 * n("high") + 800 * strict + 500 * severe
          + 100 * n("medium") + Scores(Pack[p].signals),
        KindScore(Pack[p].kind),
        Min({Pack[p].chars["deep"], 100000}),
        Pack[p].related,
        0 - p >>

Weights == [p \in Packs |-> Weight(p)]

Heavier(p, q) ==
  \E i \in 1..8 : /\ Weights[p][i] > Weights[q][i]
                  /\ \A j \in 1..(i - 1) : Weights[p][j] = Weights[q][j]

\* The preferred packs first, then the heavier: how many packs are ahead of each.
Ahead(p, q, preferred) ==
  IF (p \in preferred) # (q \in preferred) THEN p \in preferred ELSE Heavier(p, q)

Places(packs, preferred) == [p \in packs |-> Cardinality({q \in packs : Ahead(q, p, preferred)})]

Ordered(packs, preferred) ==
  LET place == Places(packs, preferred)
  IN [i \in 1..Cardinality(packs) |-> CHOOSE p \in packs : place[p] = i - 1]

-----------------------------------------------------------------------------
(* A cap on the number of packs. *)

\* How many files are looked at before any file is looked at twice.
Breadth(cap, files) ==
  IF cap <= 2 THEN Min({cap, files}) ELSE Min({files, Max({2, cap \div 2})})

OfFile(p, packs) == {q \in packs : Pack[q].file = Pack[p].file}

\* The place of the best pack of each pack's file: files are in the order of these.
Fronts(place) == [p \in DOMAIN place |-> Min({place[q] : q \in OfFile(p, DOMAIN place)})]

\* The file of p is one of the first files.
IsEarly(p, front, cap) ==
  Cardinality({n \in Range(front) : n < front[p]}) < Breadth(cap, Cardinality(Range(front)))

\* Packs of one priority are taken in five rounds: the best pack of the first files, a
\* valuable one of each other file, the valuable ones, the best of the files still left
\* out, and the rest. A pack is taken in the first round that offers it.
Round(p, place, front, cap) ==
  LET valued  == {q \in OfFile(p, DOMAIN place) : IsHighValue(q)}
      early   == IsEarly(p, front, cap)
      best    == place[p] = front[p]
  IN Min({5} \cup {n \in 1..4 :
            \/ n = 1 /\ early /\ best
            \/ n = 2 /\ ~early /\ p \in valued /\ \A q \in valued : place[p] <= place[q]
            \/ n = 3 /\ p \in valued
            \/ n = 4 /\ ~early /\ best /\ valued = {}})

\* What is offered before p: the second round goes by the files, the others by the packs.
Before(p, round, place, front) ==
  LET turn == [q \in DOMAIN place |-> IF round[q] = 2 THEN front[q] ELSE place[q]]
  IN {q \in DOMAIN place : \/ round[q] < round[p]
                           \/ round[q] = round[p] /\ turn[q] < turn[p]}

\* The first packs that are offered, as many as the cap allows.
FirstOffered(place, front, cap) ==
  LET round == [p \in DOMAIN place |-> Round(p, place, front, cap)]
  IN {p \in DOMAIN place : Cardinality(Before(p, round, place, front)) < cap}

Foremost(place, cap) == FirstOffered(place, Fronts(place), cap)

Within(packs, cap, preferred) ==
  IF Cardinality(packs) <= cap THEN packs ELSE Foremost(Places(packs, preferred), cap)

OfLevel(packs, level) == {p \in packs : Priority(p) = level}

\* What is left of the cap goes to the next level.
WithLevel(taken, packs, level, cap, preferred) ==
  taken \cup Within(OfLevel(packs, level), cap - Cardinality(taken), preferred)

Select(packs, cap, preferred) ==
  IF Cardinality(packs) <= cap THEN packs
  ELSE WithLevel(WithLevel(Within(OfLevel(packs, "p0"), cap, preferred),
                           packs, "p1", cap, preferred), packs, "p2", cap, preferred)

-----------------------------------------------------------------------------
(* A budget of tokens, and the plan of a reviewer. *)

Tokens(packs, depth) ==
  LET tokens(p) == Pack[p].tokens[depth] IN MapThenSumSet(tokens, packs)

\* The heavier packs first; a pack that does not fit is passed over.
Affordable(packs, depth, budget) ==
  FoldLeft(LAMBDA taken, p : IF Tokens(taken \cup {p}, depth) <= budget THEN taken \cup {p} ELSE taken,
           {}, Ordered(packs, {}))

Fitting(packs, depth) == {p \in packs : Pack[p].chars[depth] <= MaxPackChars}

Selection(total, deep, shallow, over, overTokens, reasons) ==
  [total |-> total, deep |-> deep, shallow |-> shallow,
   over |-> over, overTokens |-> overTokens, reasons |-> reasons]

Selected(s) == s.deep \cup s.shallow

\* Variant: the shallow pass has the budget and the caps for itself.
PlanPassesApart(packs, limits, preferred) ==
  LET deep     == Affordable(Select(Fitting(packs, "deep"), Min({limits.packs, limits.deep}), preferred),
                             "deep", limits.tokens)
      shallow  == IF limits.mode = "fast" THEN {}
                  ELSE Affordable(Select(Fitting(packs, "shallow") \ deep, limits.packs, preferred),
                                  "shallow", limits.tokens)
  IN Selection(packs, deep, shallow, {}, {}, [p \in packs \ (deep \cup shallow) |-> {"cap"}])

PassOver(wanted, depth, budget) ==
  [wanted |-> wanted, taken |-> Affordable(wanted, depth, budget)]

\* One pass: the packs wanted under the cap, and those of them that the tokens pay for.
Pass(packs, cap, preferred, depth, budget) ==
  PassOver(Select(packs, cap, preferred), depth, budget)

\* The selection of the two passes, with the reasons for what they leave out.
Planned(packs, fast, first, second) ==
  LET unselected == packs \ (first.taken \cup second.taken)
      over       == (packs \ Fitting(packs, "deep"))
                      \ (IF fast THEN {} ELSE Fitting(packs, "shallow"))
      costly     == (first.wanted \cup second.wanted) \cap unselected
  IN Selection(packs, first.taken, second.taken, over \cap unselected, costly,
               [p \in unselected |-> {CASE p \in over -> "context"
                                        [] p \in costly \ over -> "tokens"
                                        [] OTHER -> "cap"}])

\* The shallow pass is over what is left of the packs, the cap and the tokens.
AfterDeep(packs, limits, preferred, first) ==
  LET fast == limits.mode = "fast"
  IN Planned(packs, fast, first,
             Pass(IF fast THEN {} ELSE Fitting(packs, "shallow") \ first.taken,
                  Max({0, limits.packs - Cardinality(first.taken)}), preferred, "shallow",
                  Max({0, limits.tokens - Tokens(first.taken, "deep")})))

\* plan_llm_context_selection: a deep pass, then, unless the mode is "fast", a shallow one.
Plan(packs, limits, preferred) ==
  AfterDeep(packs, limits, preferred,
            Pass(Fitting(packs, "deep"), Min({limits.packs, limits.deep}), preferred, "deep", limits.tokens))

\* _plan_reviewer_context_selection: the reviewer's depth overrides the mode.
LimitsOf(reviewer) ==
  CASE reviewer.depth = "deep"    -> [reviewer.limits EXCEPT !.mode = "fast"]
    [] reviewer.depth = "shallow" -> [reviewer.limits EXCEPT !.mode = "balanced", !.deep = 0]
    [] OTHER -> reviewer.limits

\* _budget_continuation_reviewer_packs: a continuation has one depth.
Budgeted(packs, reviewer, depth, preferred) ==
  Selected(Plan(packs, [reviewer.limits EXCEPT !.mode = IF depth = "deep" THEN "fast" ELSE "balanced",
                                               !.deep = IF depth = "deep" THEN @ ELSE 0],
                preferred))

-----------------------------------------------------------------------------
(* Selections of continued and of merged reviews. *)

\* merge_continuation_selection
Continued(s, packs, chosen, depth) ==
  LET deep    == IF depth = "deep" THEN s.deep \cup chosen ELSE s.deep
      shallow == IF depth = "deep" THEN s.shallow \ chosen ELSE s.shallow \cup chosen
      out     == packs \ (Selected(s) \cup chosen)
  IN Selection(packs, deep \cap packs, shallow \cap packs, s.over \cap out, s.overTokens \cap out,
               [p \in out \cap DOMAIN s.reasons |-> s.reasons[p]])

\* _rebase_reviewer_selection_scope: what ran, and how, decides over what was planned.
Rebased(s, packs, ranDeep, ranShallow) ==
  LET selected    == packs \cap (Selected(s) \cup ranDeep \cup ranShallow)
      out         == packs \ selected
      planned(ps) == ps \ (ranDeep \cup ranShallow)
  IN Selection(packs, selected \cap (ranDeep \cup planned(s.deep)),
               selected \cap (ranShallow \cup planned(s.shallow)),
               s.over \cap out, s.overTokens \cap out,
               [p \in out \cap DOMAIN s.reasons |-> s.reasons[p]])

\* _merge_reviewer_context_selections: the selections of several reviewers as one.
Merged(sel, total) ==
  LET of(p)    == {r \in DOMAIN sel : p \in sel[r].total}
      all      == UNION {Selected(sel[r]) : r \in DOMAIN sel}
      deep     == UNION {sel[r].deep : r \in DOMAIN sel}
      out      == total \ all
      why(r, p) == IF p \in DOMAIN sel[r].reasons THEN sel[r].reasons[p] ELSE {"not selected"}
  IN Selection(total, deep \cap total, (all \ deep) \cap total,
               {p \in out : of(p) # {} /\ \A r \in of(p) : p \in sel[r].over},
               {p \in out : of(p) # {} /\ \A r \in of(p) : p \in sel[r].overTokens},
               [p \in out |-> IF of(p) = {} THEN {"unmatched"} ELSE UNION {why(r, p) : r \in of(p)}])
=============================================================================
