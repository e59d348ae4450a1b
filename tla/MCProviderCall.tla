--------------------------- MODULE MCProviderCall ---------------------------
(* Configurations, answers and texts for TLC: slices through each table. *)
EXTENDS ProviderCall, TLC

CONSTANTS base, tenant, secret, gateway, other

Url(form, scheme, here, host) == [wellFormed |-> form, scheme |-> scheme, loopback |-> here, host |-> host]
Good == Url(TRUE, "https", FALSE, gateway)
Urls == {Good, Url(TRUE, "https", FALSE, other), Url(TRUE, "http", TRUE, gateway),
         Url(TRUE, "http", FALSE, gateway), Url(FALSE, "https", FALSE, gateway)}

Local == [ci |-> FALSE, allowBase |-> {}, allowKey |-> {}, allowHeader |-> {}, allowHosts |-> {},
          urls |-> base :> Good, keys |-> [v \in Presets \union {secret} |-> "set"], values |-> [v \in {tenant, secret} |-> "set"]]
Trusted == [Local EXCEPT !.ci = TRUE, !.allowBase = {base}, !.allowKey = {secret},
                         !.allowHeader = {tenant, secret}, !.allowHosts = {gateway}]

Config(provider, model, effort) ==
    [provider |-> provider, model |-> model, effort |-> effort, protocol |-> None, structured |-> None,
     baseUrl |-> None, baseEnv |-> None, keyEnv |-> None, hostsFixed |-> TRUE, headers |-> {}, loopback |-> FALSE]
Gateway == [Config(Custom, "plain", "low") EXCEPT !.protocol = "chat", !.structured = "json_schema",
                                                  !.baseEnv = base, !.keyEnv = secret]
Tenant(name, var) == {[name |-> name, env |-> var]}

Setup(c, env) == [config |-> c, env |-> env]

\* Every preset, model and effort, on the preset's protocols.
Dialects ==
    {Setup([Config(p, m, e) EXCEPT !.protocol = q], Local) :
        p \in Presets, m \in {"plain", "k3", "k27", "glm52"}, e \in Range(Efforts) \union {None},
        q \in {None, "chat"}}

Level(reasoning) == CASE reasoning = "off" -> 0 [] reasoning = "on" -> 1 [] OTHER -> Rank(reasoning)

\* The efforts keep their meaning in the dialect of every preset: "none" turns reasoning
\* off, and no other effort asks for more reasoning than a higher one.
ASSUME EffortsKeepTheirMeaning ==
    \A s \in Dialects : s.config.effort # None /\ HonoursEffort(s.config) =>
        LET c == s.config
        IN /\ c.effort = "none" => Reasoning(c) = "off"
           /\ \A e \in Range(Efforts) :
                Rank(e) > Rank(c.effort) => Level(Reasoning(c)) <= Level(Reasoning([c EXCEPT !.effort = e]))

\* Custom gateways in continuous integration and outside of it.
Environments == {Local, Trusted, [Trusted EXCEPT !.allowHosts = {}], [Trusted EXCEPT !.allowBase = {}]}
Gateways ==
    {Setup([Gateway EXCEPT !.baseEnv = b, !.baseUrl = IF b = None THEN u ELSE None, !.loopback = l],
           [env EXCEPT !.urls = base :> u]) :
        b \in {base, None}, l \in BOOLEAN, u \in Urls, env \in Environments}
    \union {Setup([Gateway EXCEPT !.keyEnv = k, !.headers = h], env) :
        k \in {secret, None}, h \in {{}, Tenant("x-tenant", tenant), Tenant("x-tenant", secret), Tenant("host", tenant)},
        env \in {Local, Trusted}}
    \union {Setup(Gateway, [env EXCEPT !.keys[secret] = v]) : v \in {"unset", "broken"}, env \in {Local, Trusted}}
\* Presets in continuous integration with selectors of their own.
Fixed ==
    {Setup([Config("openai_api", m, "low") EXCEPT !.baseUrl = u, !.keyEnv = k], env) :
        m \in {"plain", None}, u \in {None, Good, Url(TRUE, "https", FALSE, "openai_api")},
        k \in {None, secret, "openai_api"}, env \in {Local, Trusted}}
Programs == {Setup(Config(p, "plain", e), Local) : p \in Clis, e \in {"low", "max"}}

AllSetups == Dialects \union Gateways \union Fixed \union Programs

AllCalls == {[kind |-> "review", size |-> 0], [kind |-> "verify", size |-> 0], [kind |-> "verify", size |-> 2]}

Tokens == {{}, {"auth"}, {"terminal"}, {"terminal", "quota"}, {"quota"}, {"rate"}, {"rate", "quota"}}
Http(s, code, exact, message, after, body) ==
    [status |-> s, code |-> code, exact |-> exact, message |-> message, retryAfter |-> after, body |-> body]
Refusals ==
    {Http(s, c, x, m, r, "error") : s \in {200, 400, 401, 403, 408, 409, 429, 500, 504}, c \in Tokens,
        x \in BOOLEAN, m \in {{}, {"terminal"}, {"rate"}}, r \in {None}}
    \union {Http(s, {"rate"}, FALSE, {}, r, "error") : s \in {429, 500}, r \in {0, 2, 9}}
AllAnswers ==
    Refusals
    \union {Http(200, {}, FALSE, {}, None, b) :
              b \in {"text", "refused", "filtered", "cut", "failed", "interrupted", "blank"}}
    \union {Http(0, {}, FALSE, {}, None, b) : b \in {"late", "network", "garbled"}}

\* One setup of each protocol meets every answer; the others are answered.
Plain == {Setup([Config("openai_api", "plain", "low") EXCEPT !.protocol = q], Local) : q \in {None, "chat"}}
         \union {Setup(Config("anthropic_api", "plain", "low"), Local)}
Answered == {Http(200, {}, FALSE, {}, None, "text")}
AnswersOf(s) == IF s \in Plain THEN AllAnswers ELSE Answered

AllBodies ==
    {[form |-> "json", echo |-> {}, decisions |-> d] : d \in SeqOf(0 .. 2, 3)}
    \union {[form |-> "invalid", echo |-> e, decisions |-> <<>>] : e \in {{}, {"quota"}, {"timeout"}}}
    \union {[form |-> "prose", echo |-> {}, decisions |-> <<>>]}
=============================================================================
