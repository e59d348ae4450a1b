----------------------------- MODULE ProviderCall -----------------------------
(***************************************************************************)
(* One call of an LLM provider: a review of a context pack, the            *)
(* verification of its findings or the resolution of an earlier one        *)
(* (llm/providers.py, llm/api.py, llm/http.py, llm/cli.py,                 *)
(* llm/responses.py, llm/errors.py).                                       *)
(*                                                                         *)
(* A setup is a configuration and the environment it is resolved in.  An   *)
(* API provider is built from it, or refused; its call sends a request,    *)
(* classifies the answer and repeats the request while the failure is      *)
(* transient and attempts are left.  A CLI provider runs a program once.   *)
(* The text of the answer is parsed, and every failure is given a status.  *)
(*                                                                         *)
(* Names, URLs and prompts are model values; an error message is the set   *)
(* of words in it that the classification looks for.                       *)
(***************************************************************************)
EXTENDS Integers, Sequences, FiniteSets, SequencesExt

CONSTANTS
    Setups,       \* configurations with their environments
    Calls,        \* [kind, size]: what is asked, about how many findings
    Answers(_),   \* what the network can answer to a request of a setup
    Bodies,       \* what the text of an answer can be
    MaxRetries,   \* api.max_retries
    Backoff,      \* api.retry_backoff_seconds
    RetryMax,     \* api.retry_max_seconds
    None

ASSUME RetriesAssumption == MaxRetries \in Nat
ASSUME DelayAssumption == Backoff \in Nat /\ RetryMax \in Nat
ASSUME CallsAssumption == \A c \in Calls : c.size \in Nat

Statuses == {"auth", "malformed", "provider", "quota", "rate_limit", "refusal", "timeout", "truncated"}

\* Only the body of a failure names a code or quotes a message.
ASSUME AnswersAssumption ==
    \A s \in Setups : \A a \in Answers(s) :
        /\ a.status \in Nat /\ a.exact \in BOOLEAN /\ a.retryAfter \in Nat \union {None}
        /\ a.body # "error" => a.code = {} /\ a.message = {}
        /\ a.status = 0 => a.body # "error"
ASSUME NoneAssumption ==
    /\ None \notin Statuses \union {"ok"}
    /\ \A s \in Setups : None \notin Answers(s)
    /\ \A words \in {{}} \union {text.echo : text \in Bodies} :
         [category |-> None, retryable |-> FALSE, retryAfter |-> None, words |-> words] # None

VARIABLES
    setup,    \* the configuration and environment of this call
    call,     \* what is asked
    phase,    \* "new", "built", "sent", "failed" or "done"
    attempt,  \* requests made so far
    answer,   \* the answer of the network to the current attempt
    error,    \* its failure: category, retryable, retryAfter, words
    waited,   \* seconds slept between the attempts
    status,   \* the status the caller records; "ok" for a result
    result    \* the decisions returned for the findings, by index

vars == <<setup, call, phase, attempt, answer, error, waited, status, result>>

-----------------------------------------------------------------------------
(* Tables of llm/api.py. *)

Efforts == <<"none", "minimal", "low", "medium", "high", "xhigh", "max">>
Rank(effort) == CHOOSE i \in DOMAIN Efforts : Efforts[i] = effort

Clis == {"codex_cli", "claude_code_cli"}
Presets == {"openai_api", "anthropic_api", "deepseek_api", "qwen_api", "kimi_api", "zai_api"}
Custom == "openai_compatible"

\* Protocols a preset can speak, its own first.
ProtocolsOf(provider) ==
    CASE provider = "openai_api"    -> <<"responses", "chat">>
      [] provider = "anthropic_api" -> <<"messages">>
      [] OTHER                      -> <<"chat">>

\* The key variable of a preset is named after it, as is its default host.
KeyVariable(c) ==
    IF c.keyEnv # None THEN c.keyEnv ELSE IF c.provider \in Presets THEN c.provider ELSE None

Reserved == {"accept", "anthropic-version", "authorization", "content-length", "content-type",
             "host", "proxy-authorization", "x-api-key"}

-----------------------------------------------------------------------------
(* Building an API provider. *)

Error(category, retryable, retryAfter, words) ==
    [category |-> category, retryable |-> retryable, retryAfter |-> retryAfter, words |-> words]
Failure(category) == Error(category, FALSE, None, {})
Transient(category) == Error(category, TRUE, None, {})

HonoursEffort(c) ==
    c.effort = "none" => /\ c.provider # "anthropic_api"
                         /\ ~(c.provider = "kimi_api" /\ c.model \in {"k3", "k27"})

Protocol(c) == IF c.protocol # None THEN c.protocol ELSE ProtocolsOf(c.provider)[1]

SpeaksProtocol(c) ==
    IF c.provider = Custom
    THEN c.protocol # None /\ c.structured # None
    ELSE c.protocol # None => c.protocol \in Range(ProtocolsOf(c.provider))

\* What a continuous-integration environment lets a configuration select.
CIPolicy(c, env) ==
    env.ci =>
      /\ ~c.loopback
      /\ IF c.provider = Custom
         THEN c.baseEnv # None /\ c.hostsFixed
         ELSE c.keyEnv # None => c.keyEnv = c.provider
      /\ \A h \in c.headers : h.env \notin Presets \union env.allowKey \union {KeyVariable(c)}
      /\ c.baseEnv # None => c.baseEnv \in env.allowBase
      /\ c.provider = Custom /\ c.keyEnv # None => c.keyEnv \in env.allowKey
      /\ \A h \in c.headers : h.env \in env.allowHeader

BaseUrl(c, env) ==
    IF c.baseEnv # None THEN env.urls[c.baseEnv]
    ELSE IF c.baseUrl # None THEN c.baseUrl
    ELSE IF c.provider \in Presets
    THEN [wellFormed |-> TRUE, scheme |-> "https", loopback |-> FALSE, host |-> c.provider]
    ELSE None

\* A URL without credentials, query or malformed part, over HTTPS; or over
\* HTTP to this machine when that is allowed.
ValidEndpoint(url, allowLoopback) ==
    /\ url.wellFormed
    /\ url.scheme = "https" \/ (allowLoopback /\ url.scheme = "http" /\ url.loopback)

\* The hosts of a preset are fixed; a custom host is checked in CI.
AllowedHost(c, env, host) ==
    IF c.provider = Custom THEN env.ci => host \in env.allowHosts ELSE host = c.provider

Key(c, env) == IF KeyVariable(c) = None THEN None ELSE env.keys[KeyVariable(c)]

HeadersResolve(c, env) ==
    \A h \in c.headers : h.name \notin Reserved /\ env.values[h.env] = "set"

\* APILLMProvider.__init__: the first check that fails, or None.
ConstructionError(s) ==
    LET c == s.config
        env == s.env
        url == BaseUrl(c, env)
    IN IF \/ c.model = None \/ ~HonoursEffort(c)
          \/ ~SpeaksProtocol(c)
          \/ ~CIPolicy(c, env)
          \/ url = None THEN Failure(None)
       ELSE IF ~ValidEndpoint(url, c.loopback) THEN Failure("malformed")
       ELSE IF ~AllowedHost(c, env, url.host) \/ KeyVariable(c) = None THEN Failure(None)
       ELSE IF Key(c, env) = "unset" THEN Failure("auth")
       ELSE IF Key(c, env) = "broken" \/ ~HeadersResolve(c, env) THEN Failure(None)
       ELSE None

-----------------------------------------------------------------------------
(* The request. *)

High(effort) == effort \in {"xhigh", "max"}

\* The reasoning a request asks for: "off", a level, "on" (a switch without
\* levels) or None (the provider's default).
ChatReasoning(c) ==
    LET e == c.effort
        switch == IF e = "none" THEN "off" ELSE "on"
    IN CASE c.provider = "deepseek_api" -> IF e = "none" THEN "off" ELSE IF High(e) THEN "max" ELSE "high"
         [] c.provider = "qwen_api"     -> switch
         [] c.provider = "kimi_api"     ->
              IF c.model # "k3" THEN switch
              ELSE IF e \in {"minimal", "low"} THEN "low" ELSE IF High(e) THEN "max" ELSE "high"
         [] c.provider = "zai_api"      ->
              IF e = "none" \/ c.model # "glm52" THEN switch
              ELSE IF e = "minimal" THEN e ELSE IF High(e) THEN "max" ELSE "high"
         [] OTHER                       ->
              IF e # "none" THEN e ELSE IF c.provider = "openai_api" THEN "off" ELSE None

Reasoning(c) ==
    IF c.effort = None THEN None
    ELSE CASE Protocol(c) = "responses" -> IF c.effort = "none" THEN "off" ELSE c.effort
           [] Protocol(c) = "messages"  -> IF c.effort = "none" THEN None
                                           ELSE IF c.effort = "minimal" THEN "low" ELSE c.effort
           [] OTHER -> ChatReasoning(c)

-----------------------------------------------------------------------------
(* Answers: [status, code, exact, message, retryAfter, body].  code and      *)
(* message are the sets of tokens found in the structured code and in the    *)
(* message; exact tells that one of the values is such a token and no more.  *)
(* status 0 is a failure below HTTP, of the kind named by body.              *)

\* Variant: a server error is transient whatever its code says.
ClassifiedByStatus(a) ==
    IF a.status >= 500
    THEN Error(IF a.status = 504 THEN "timeout" ELSE "provider", TRUE, a.retryAfter, {})
    ELSE Error("provider", a.status \in {408, 409, 425, 429}, a.retryAfter, {})

Classified(a) ==
    LET said == a.code \union a.message
        As(category, retryable) == Error(category, retryable, a.retryAfter, {})
    IN IF a.status >= 500
       THEN IF a.exact /\ "auth" \in said THEN As("auth", FALSE)
            ELSE IF a.exact /\ "terminal" \in said THEN As("quota", FALSE)
            ELSE IF "rate" \in a.code THEN As("rate_limit", TRUE)
            ELSE As(IF a.status \in {504, 524} THEN "timeout" ELSE "provider", TRUE)
       ELSE IF a.status = 401 THEN As("auth", FALSE)
       ELSE IF a.status = 403
       THEN IF "terminal" \in a.code THEN As("quota", FALSE)
            ELSE IF "rate" \in a.code THEN As("rate_limit", TRUE)
            ELSE As(IF "quota" \in a.code THEN "quota" ELSE "auth", FALSE)
       ELSE IF a.status = 429
       THEN IF "terminal" \in a.code THEN As("quota", FALSE) ELSE As("rate_limit", TRUE)
       ELSE IF "auth" \in said THEN As("auth", FALSE)
       ELSE IF said \intersect {"terminal", "quota"} # {} THEN As("quota", FALSE)
       ELSE IF "rate" \in said THEN As("rate_limit", TRUE)
       ELSE IF a.status = 408 THEN As("timeout", TRUE)
       ELSE IF a.status \in {409, 425} THEN As("provider", TRUE)
       ELSE As("provider", FALSE)

\* Below HTTP: the connection or a read of it times out, the network fails,
\* or an answer of success is too large or is not JSON.
TransportError(a) ==
    CASE a.body = "late"    -> Transient("timeout")
      [] a.body = "network" -> Transient("provider")
      [] OTHER              -> Failure("malformed")

\* The text of an answer of success; None when there is one.  A response of
\* the chat protocol can tell that its generation was interrupted.
TextError(a) ==
    CASE a.body \in {"refused", "filtered"} -> Failure("refusal")
      [] a.body = "cut"                     -> Failure("truncated")
      [] a.body = "failed"                  -> Failure(None)
      [] a.body = "interrupted"             -> Transient("provider")
      [] a.body = "blank"                   -> Failure("malformed")
      [] OTHER                              -> None

Success(a) == a.status \in 200 .. 299 /\ a.body # "error"

ErrorOf(a) ==
    CASE a.status = 0 -> TransportError(a)
      [] Success(a)   -> TextError(a)
      [] OTHER        -> Classified(a)

\* What each protocol can say.
Says(protocol, a) ==
    /\ a.body = "failed" => protocol = "responses"
    /\ a.body = "interrupted" => protocol = "chat"

-----------------------------------------------------------------------------
(* Parsing the text: [form, echo, decisions].  A text that is not JSON fails *)
(* with a fixed message; one of another form with a message that quotes the  *)
(* text, echo being the words it then contains.                              *)

Indexes(size) == 0 .. size - 1

\* Variant: findings without a decision are let through.
ParseErrorOfRange(text, size) ==
    IF text.form = "prose" THEN Failure(None)
    ELSE IF text.form = "invalid" THEN Error(None, FALSE, None, text.echo)
    ELSE IF call.kind = "verify" /\ Range(text.decisions) \ Indexes(size) # {} THEN Failure(None)
    ELSE None

ParseError(text, size) ==
    IF text.form = "prose" THEN Failure(None)
    ELSE IF text.form = "invalid" THEN Error(None, FALSE, None, text.echo)
    ELSE IF /\ call.kind = "verify"
            /\ \/ Range(text.decisions) \ Indexes(size) # {}
               \/ ~IsInjective(text.decisions)
               \/ Indexes(size) \ Range(text.decisions) # {} THEN Failure(None)
    ELSE None

\* parse_verification_batch_response: findings paired with their decisions.
Decided(text, size) ==
    [i \in Indexes(size) |-> {d \in DOMAIN text.decisions : text.decisions[d] = i}]

\* classify_llm_provider_error: by category, else by the words of the text.
StatusOf(e) ==
    IF e.category # None THEN e.category
    ELSE IF "timeout" \in e.words THEN "timeout"
    ELSE IF "quota" \in e.words THEN "quota"
    ELSE IF "rate" \in e.words THEN "rate_limit"
    ELSE "provider"

-----------------------------------------------------------------------------

Init ==
    /\ setup \in Setups
    /\ call \in Calls
    /\ phase = "new"
    /\ attempt = 0 /\ waited = 0
    /\ answer = None /\ error = None
    /\ status = None /\ result = <<>>

Raise(e) == phase' = "done" /\ error' = e /\ status' = StatusOf(e) /\ UNCHANGED result

Finish(text) ==
    /\ phase' = "done"
    /\ error' = None
    /\ status' = "ok"
    /\ result' = IF call.kind = "verify" THEN Decided(text, call.size) ELSE <<>>

Asks == ~(call.kind = "verify" /\ call.size = 0)
IsCli == setup.config.provider \in Clis

\* A verification of no findings asks nothing.
AskNothing ==
    /\ phase = IF IsCli THEN "new" ELSE "built"
    /\ ~Asks
    /\ phase' = "done" /\ status' = "ok"
    /\ UNCHANGED <<setup, call, attempt, answer, error, waited, result>>

\* provider_from_config: the provider is built before anything is asked.
Build ==
    /\ phase = "new" /\ ~IsCli
    /\ IF ConstructionError(setup) = None
       THEN phase' = "built" /\ UNCHANGED <<error, status, result>>
       ELSE Raise(ConstructionError(setup))
    /\ UNCHANGED <<setup, call, attempt, answer, waited>>

\* transport.request: one request, whose outcome is still open.
Send ==
    /\ phase = "built" /\ Asks
    /\ phase' = "sent"
    /\ attempt' = attempt + 1
    /\ UNCHANGED <<setup, call, answer, error, waited, status, result>>

\* The tail of an attempt: give up, or sleep before the next one.
Settle(e) ==
    IF ~e.retryable \/ attempt > MaxRetries
    THEN Raise(e)
    ELSE phase' = "failed" /\ error' = e /\ UNCHANGED <<status, result>>

\* An answer arrives and fails the attempt.
Fail(a) ==
    /\ phase = "sent"
    /\ Says(Protocol(setup.config), a)
    /\ ErrorOf(a) # None
    /\ answer' = a
    /\ Settle(ErrorOf(a))
    /\ UNCHANGED <<setup, call, attempt, waited>>

\* Variant: the parser's error is raised as it is.
AnswerRaw(a, text) ==
    /\ phase = "sent"
    /\ Says(Protocol(setup.config), a)
    /\ ErrorOf(a) = None
    /\ answer' = a
    /\ IF ParseError(text, call.size) # None THEN Raise(ParseError(text, call.size)) ELSE Finish(text)
    /\ UNCHANGED <<setup, call, attempt, waited>>

\* An answer with text ends the call: what fails from here is malformed
\* output, whatever the message says.
Answer(a, text) ==
    /\ phase = "sent"
    /\ Says(Protocol(setup.config), a)
    /\ ErrorOf(a) = None
    /\ answer' = a
    /\ IF ParseError(text, call.size) # None THEN Raise(Failure("malformed")) ELSE Finish(text)
    /\ UNCHANGED <<setup, call, attempt, waited>>

Least(x, y) == IF x < y THEN x ELSE y

\* _retry_delay: as told by the answer, else any part of the growing backoff;
\* in both cases no longer than the maximum.
Delays(e) ==
    IF e.retryAfter # None
    THEN {Least(e.retryAfter, RetryMax)}
    ELSE 0 .. Least(Backoff * 2 ^ (attempt - 1), RetryMax)

Sleep ==
    /\ phase = "failed"
    /\ \E d \in Delays(error) : waited' = waited + d
    /\ phase' = "built"
    /\ answer' = None /\ error' = None
    /\ UNCHANGED <<setup, call, attempt, status, result>>

-----------------------------------------------------------------------------
(* CLI providers.  A program that is missing, writes no output or fails has  *)
(* a message of its own, as has an error in the envelope of Claude's output; *)
(* one that overruns the timeout makes subprocess.run raise TimeoutExpired,  *)
(* which is no provider error and is known by its text.                      *)

CliErrors ==
    [category : {None}, retryable : {FALSE}, retryAfter : {None}, words : SUBSET {"timeout", "quota", "rate"}]

Run(text) ==
    /\ attempt' = attempt + 1
    /\ \/ \E e \in CliErrors : Raise(e)
       \/ LET e == ParseError(text, call.size)
          IN IF e # None THEN Raise(e) ELSE Finish(text)

\* Codex has no effort "max", and is not run then.
RunCodex(text) ==
    /\ phase = "new" /\ Asks
    /\ setup.config.provider = "codex_cli"
    /\ IF setup.config.effort = "max" THEN Raise(Failure(None)) /\ UNCHANGED attempt ELSE Run(text)
    /\ UNCHANGED <<setup, call, answer, waited>>

RunClaude(text) ==
    /\ phase = "new" /\ Asks
    /\ setup.config.provider = "claude_code_cli"
    /\ Run(text)
    /\ UNCHANGED <<setup, call, answer, waited>>

Next ==
    \/ AskNothing \/ Build \/ Send \/ Sleep
    \/ \E a \in Answers(setup) : Fail(a)
    \/ \E a \in Answers(setup), text \in Bodies : Answer(a, text)
    \/ \E text \in Bodies : RunCodex(text) \/ RunClaude(text)

Spec == Init /\ [][Next]_vars

-----------------------------------------------------------------------------

TypeOK ==
    /\ setup \in Setups /\ call \in Calls
    /\ phase \in {"new", "built", "sent", "failed", "done"}
    /\ attempt \in Nat /\ waited \in Nat
    /\ IF phase = "done" THEN status \in Statuses \union {"ok"} ELSE status = None

\* A verification that is returned decides each finding exactly once: an
\* index that is out of range, repeated or left out fails the call instead
\* (parse_verification_batch_response).
EveryFindingDecided ==
    status = "ok" /\ call.kind = "verify" /\ call.size > 0 =>
        /\ DOMAIN result = Indexes(call.size)
        /\ \A i \in DOMAIN result : Cardinality(result[i]) = 1

\* A failure that a repetition cannot cure, by what the answer says and not
\* by how the code classifies it.
Incurable(a) ==
    \/ a.status = 401
    \/ a.exact /\ "terminal" \in a.code
    \/ /\ a.status # 0 /\ a.status < 500 /\ a.status \notin {408, 409, 425, 429}
       /\ "rate" \notin a.code \union a.message /\ a.body # "interrupted"
    \/ a.status = 0 /\ a.body \notin {"late", "network"}

\* A call makes at most MaxRetries + 1 requests and sleeps at most RetryMax between
\* two of them, whatever Retry-After an answer names and however far the doubling has
\* come; and only transient failures of the network, of rate limits and of servers
\* are repeated (_request_with_retries with _http_error; docs/providers.md).
RetriesOnlyTransient ==
    /\ attempt <= MaxRetries + 1 /\ waited <= MaxRetries * RetryMax
    /\ phase = "failed" => ~Incurable(answer)

\* An API call is recorded as out of quota or not authenticated, which stops
\* all other calls of its route, only when the provider says so or the key
\* is missing: a malformed output that quotes such words does not count
\* (APILLMProvider._http_error, _malformed_response_error).
FaithfulStatus ==
    phase = "done" /\ ~IsCli =>
        LET said == IF answer = None THEN {} ELSE answer.code \union answer.message
        IN /\ status = "quota" => said \intersect {"terminal", "quota"} # {}
           /\ status = "auth" =>
                IF attempt = 0 THEN Key(setup.config, setup.env) = "unset"
                ELSE answer.status \in {401, 403} \/ "auth" \in said
=============================================================================
