--------------------------------- MODULE Routing ---------------------------------
(***************************************************************************)
(* Which configuration reads a pack and which one verifies its findings    *)
(* (llm/routing.py), what of it makes two calls share a circuit (the route *)
(* of llm/review.py) and what makes them share a cached response           *)
(* (llm/cache.py).  A target is the name of a profile, a model that is     *)
(* named in place of one, or None for the configuration as it stands.      *)
(*                                                                         *)
(* A configuration is a record of Settings, profiles and routing; a        *)
(* profile has the same Settings, None where it leaves one alone, and its  *)
(* api only the options that it sets.  A pack has file_kind, risks, rules, *)
(* truncated and chars; a finding has severity and confidence.             *)
(***************************************************************************)
EXTENDS Integers, Sequences, FiniteSets, FiniteSetsExt, SequencesExt

CONSTANTS None, DefaultApi

Settings == {"provider", "model", "effort", "timeout_seconds", "codex_path", "claude_path"}

\* The options of an API that a route is told apart by.
RouteOptions == {"protocol", "base_url", "base_url_env", "api_key_env", "allowed_hosts_env",
                 "headers_from_env", "api_version", "use_system_proxy"}

--------------------------------------------------------------------------------
(* What a target stands for.                                               *)

\* The options of an API, those that a profile sets before the inherited ones.
Overlaid(api, set) == [o \in DOMAIN api |-> IF o \in DOMAIN set THEN set[o] ELSE api[o]]

\* A profile overrides the settings it names; with another provider it starts
\* from the default API options, so that no endpoint or key follows it there.
Resolved(config, target) ==
    IF target = None THEN config
    ELSE IF target \notin DOMAIN config.profiles THEN [config EXCEPT !.model = target]
    ELSE LET f   == config.profiles[target]
             api == IF f.provider \in {None, config.provider} THEN config.api ELSE DefaultApi
         IN  [s \in DOMAIN config |->
                IF s = "api" THEN Overlaid(api, f.api)
                ELSE IF s \in Settings /\ f[s] # None THEN f[s] ELSE config[s]]

Executable(config) ==
    CASE config.provider = "codex_cli"       -> config.codex_path
      [] config.provider = "claude_code_cli" -> config.claude_path
      [] OTHER                               -> None

HasApi(config) == config.provider \notin {"codex_cli", "claude_code_cli", "fake"}

\* Calls with one key share a circuit, whatever profile they came by.
RouteKey(config) ==
    <<config.provider, config.model, config.effort, config.timeout_seconds, Executable(config),
      IF HasApi(config)
      THEN [o \in RouteOptions \cap DOMAIN config.api |-> config.api[o]] ELSE None>>

\* Calls with one identity answer each other from the cache: the timeout does not
\* count, and of an API every option does.
CacheIdentity(config) ==
    <<config.provider, config.model, config.effort, Executable(config),
      IF HasApi(config) THEN config.api ELSE None>>

\* A model that always reasons cannot be told not to.
CannotHonour(config, alwaysReasons) ==
    /\ config.effort = "none"
    /\ \/ config.provider = "anthropic_api"
       \/ config.provider = "kimi_api" /\ config.model \in alwaysReasons

--------------------------------------------------------------------------------
(* Which target a pack and its findings go to.                             *)

Rank(severity) == CASE severity = "critical" -> 4 [] severity = "high" -> 3
                    [] severity = "medium" -> 2 [] severity = "low" -> 1 [] OTHER -> 0

\* Rule i of a pack comes before rule j: severity, then strictness, then order.
Outranks(rules, i, j) ==
    \/ Rank(rules[i].severity) > Rank(rules[j].severity)
    \/ /\ Rank(rules[i].severity) = Rank(rules[j].severity)
       /\ \/ rules[i].mode = "strict" /\ rules[j].mode # "strict"
          \/ (rules[i].mode = "strict" <=> rules[j].mode = "strict") /\ i <= j

\* The target that the first of the rules naming one asks for.
RuleOverride(rules, field) ==
    LET naming == {i \in DOMAIN rules : rules[i][field] # None}
    IN  IF naming = {} THEN None
        ELSE rules[CHOOSE i \in naming : \A j \in naming : Outranks(rules, i, j)][field]

\* A condition holds of a pack, and of a finding in it where there is one
\* (findings is empty or has one element).  An excluded kind outweighs the rest.
Met(condition, pack, findings) ==
    /\ pack.file_kind \notin condition.exclude_file_kind
    /\ \/ pack.file_kind \in condition.file_kind
       \/ \E f \in findings : f.severity \in condition.finding_severity
       \/ \E f \in findings : f.confidence \in condition.finding_confidence
       \/ condition.risk \cap pack.risks # {}
       \/ \E i \in DOMAIN pack.rules : pack.rules[i].severity \in condition.rule_severity
       \/ condition.strict_rule /\ \E i \in DOMAIN pack.rules : pack.rules[i].mode = "strict"
       \/ condition.pack_truncated /\ pack.truncated
       \/ condition.min_pack_chars # None /\ pack.chars >= condition.min_pack_chars

\* A shallow pass reads every pack by the review profile.
ReviewTarget(config, pack, shallow) ==
    LET routing  == config.routing
        override == RuleOverride(pack.rules, "model")
    IN  IF shallow THEN routing.review_profile
        ELSE IF override # None THEN override
        ELSE IF routing.escalated_review_profile # None
                /\ Met(routing.escalate_review_when, pack, {})
             THEN routing.escalated_review_profile
        ELSE routing.review_profile

VerifyTarget(config, pack, finding) ==
    LET routing  == config.routing
        override == RuleOverride(pack.rules, "verify")
    IN  IF override # None THEN override
        ELSE IF routing.escalated_verify_profile # None
                /\ Met(routing.escalate_verify_when, pack, {finding})
             THEN routing.escalated_verify_profile
        ELSE routing.verify_profile
================================================================================
