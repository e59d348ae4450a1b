--------------------------- MODULE MCCoverageGate ---------------------------
(* Five packs in four files and seven configurations for TLC. *)
EXTENDS CoverageGate

Signal(severity, source, kind) == [severity |-> severity, source |-> source, kind |-> kind, score |-> 10]
Rule(mode, severity) == [mode |-> mode, severity |-> severity]

APack(file, kind, signals, rules, deep, shallow, lines) ==
  [file |-> file, kind |-> kind, signals |-> signals, rules |-> rules,
   chars |-> [deep |-> deep, shallow |-> shallow], tokens |-> [deep |-> deep, shallow |-> shallow],
   related |-> 0, truncated |-> FALSE, lines |-> lines]

\* A risky pack, a plain one of the same file, a migration too large to be planned for
\* a deep review, a page of documentation, and a pack that is risky by a rule of a low
\* severity, so that its weight is less than that of the plain one.
MCPack ==
  << APack("a", "source", {Signal("high", "project", "money")}, {}, 6, 2, 1..2),
     APack("a", "source", {Signal("medium", "built_in", "io")}, {}, 4, 2, 3..5),
     APack("b", "migration", {}, {Rule("strict", "medium")}, 12, 3, 1..1),
     APack("c", "docs", {}, {}, 2, 1, 1..1),
     APack("d", "config", {}, {Rule("strict", "low")}, 3, 1, 1..1) >>

Limits(mode, packs, deep, tokens) == [mode |-> mode, packs |-> packs, deep |-> deep, tokens |-> tokens]
Reviewer(required, verify, depth, matches, limits) ==
  [required |-> required, verify |-> verify, depth |-> depth, matches |-> matches, limits |-> limits]

Base == [reviewers |-> <<Reviewer(FALSE, TRUE, "inherit", 1..5, Limits("balanced", 4, 1, 99))>>,
         named |-> FALSE, requested |-> FALSE, minSource |-> 0, minHighRisk |-> 0,
         quality |-> TRUE, threshold |-> "minor", auto |-> "on", cap |-> 1]

Pair == << Reviewer(TRUE, TRUE, "inherit", {1, 2, 3, 5}, Limits("balanced", 3, 2, 10)),
           Reviewer(FALSE, FALSE, "shallow", {1, 3, 4}, Limits("fast", 2, 2, 99)) >>

MCSetups ==
  { Base,
    [Base EXCEPT !.reviewers = Pair, !.named = TRUE, !.threshold = "major", !.cap = 2],
    [Base EXCEPT !.reviewers = Pair, !.named = TRUE, !.threshold = "critical", !.auto = "legacy", !.cap = 2],
    [Base EXCEPT !.reviewers = <<Pair[1]>>, !.named = TRUE, !.requested = TRUE, !.auto = "off"],
    [Base EXCEPT !.reviewers = <<Reviewer(FALSE, FALSE, "deep", 1..5, Limits("exhaustive", 2, 2, 9))>>,
                 !.named = TRUE, !.minSource = 9000, !.minHighRisk = 10000, !.threshold = "none", !.cap = 2],
    [Base EXCEPT !.reviewers = <<[Pair[1] EXCEPT !.limits.tokens = 1], [Pair[2] EXCEPT !.required = TRUE]>>,
                 !.named = TRUE, !.requested = TRUE, !.threshold = "critical", !.cap = 2],
    [Base EXCEPT !.reviewers = <<Pair[1]>>, !.named = TRUE] }
=============================================================================
