----------------------------- MODULE MCReviewPool -----------------------------
(***************************************************************************)
(* Four packs and one configuration.  Pack 1 is read by the shallow pass,  *)
(* its review is cached and a rule sends its findings to a profile whose   *)
(* model cannot honour its effort; the others are read deep, pack 4 by the *)
(* profile of its most severe rule.  The profiles mid and strong resolve   *)
(* to one route but not to one set of cached responses; strong is the      *)
(* escalated profile, also of the findings of the pack with a risk.        *)
(***************************************************************************)
EXTENDS ReviewPool, TLC

CONSTANTS cheap, mid, strong, odd, f1

PoolApi == [base_url |-> "default", max_output_tokens |-> 1]

Routed == INSTANCE Routing WITH DefaultApi <- PoolApi

Plain == [provider |-> None, model |-> None, effort |-> None, timeout_seconds |-> None,
          codex_path |-> None, claude_path |-> None, api |-> <<>>]

Never == [exclude_file_kind |-> {}, file_kind |-> {}, finding_severity |-> {},
          finding_confidence |-> {}, risk |-> {}, rule_severity |-> {},
          strict_rule |-> FALSE, pack_truncated |-> FALSE, min_pack_chars |-> None]

PoolConfig ==
    [provider |-> "codex_cli", model |-> "small", effort |-> None, timeout_seconds |-> 3,
     codex_path |-> "codex", claude_path |-> "claude",
     api |-> [base_url |-> "own", max_output_tokens |-> 1],
     profiles |->
        (cheap  :> [Plain EXCEPT !.timeout_seconds = 1]) @@
        (mid    :> [Plain EXCEPT !.provider = "anthropic_api", !.model = "large"]) @@
        (strong :> [Plain EXCEPT !.provider = "anthropic_api", !.model = "large",
                                 !.claude_path = "other", !.api = [max_output_tokens |-> 2]]) @@
        (odd    :> [Plain EXCEPT !.provider = "anthropic_api", !.model = "large",
                                 !.effort = "none"]),
     routing |->
        [review_profile |-> cheap, verify_profile |-> mid,
         escalated_review_profile |-> strong, escalated_verify_profile |-> strong,
         escalate_review_when |-> [Never EXCEPT !.risk = {"auth"}, !.exclude_file_kind = {"test"}],
         escalate_verify_when |-> [Never EXCEPT !.risk = {"auth"}, !.min_pack_chars = 9]]]

Rule(severity, mode, model, verify) ==
    [severity |-> severity, mode |-> mode, model |-> model, verify |-> verify]

Pack(kind, risks, rules, chars) ==
    [file_kind |-> kind, risks |-> risks, rules |-> rules, truncated |-> FALSE, chars |-> chars]

PoolPacks ==
    <<Pack("source", {}, <<Rule("low", "soft", strong, odd)>>, 1),
      Pack("test", {"auth"}, <<>>, 1),
      Pack("source", {}, <<>>, 9),
      Pack("source", {}, <<Rule("high", "soft", cheap, None), Rule("high", "strict", mid, None),
                           Rule("low", "strict", cheap, None)>>, 1)>>

PoolFinding == [severity |-> "medium", confidence |-> "high"]

PoolResolved(f) == Routed!Resolved(PoolConfig, f)
PoolKeyOf == [f \in Profiles |-> Routed!RouteKey(PoolResolved(f))]
PoolCacheOf == [f \in Profiles |-> Routed!CacheIdentity(PoolResolved(f))]
PoolEscalated == PoolConfig.routing.escalated_review_profile
PoolIncompatible == {PoolKeyOf[f] : f \in {g \in Profiles : Routed!CannotHonour(PoolResolved(g), {})}}
PoolReviewProfile == [p \in Packs |-> Routed!ReviewTarget(PoolConfig, PoolPacks[p], p \in Shallow)]
PoolVerifyProfile == [p \in Packs |-> Routed!VerifyTarget(PoolConfig, PoolPacks[p], PoolFinding)]
PoolKnown == <<{}, {f1}, {}, {}>>

ASSUME PoolInstance ==
    /\ PoolReviewProfile = <<cheap, cheap, cheap, mid>>
    /\ PoolVerifyProfile = <<odd, strong, strong, mid>>
    /\ PoolKeyOf[mid] = PoolKeyOf[strong] /\ PoolCacheOf[mid] # PoolCacheOf[strong]
    /\ PoolIncompatible = {PoolKeyOf[odd]} /\ PoolKeyOf[odd] # PoolKeyOf[mid]
================================================================================
