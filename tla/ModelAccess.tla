----------------------------- MODULE ModelAccess -----------------------------
(***************************************************************************)
(* How the language model gets its credentials (internal/llm/llm_auth.go). *)
(* The libraries of the providers look for a key in the environment of the *)
(* process: a use of the model puts the configured credential there, makes *)
(* the model, and puts back what it found when it is done.  The lookups of *)
(* "H", a fetch, the accepted jobs' enrichment and a resume use the model  *)
(* in goroutines of their own, each with a configuration it has read from  *)
(* the file, and nothing orders what they do to the environment.           *)
(*                                                                         *)
(* A file that turns the model off has no uses.  Credentials, variables    *)
(* and providers stand for themselves; blanks around a credential and the  *)
(* models per task are left out.                                           *)
(***************************************************************************)
EXTENDS Naturals

CONSTANTS
    Credentials, \* what a variable may hold or a command print, if not nothing
    Accesses     \* who uses the model, how often, with which files and environments, see access

VARIABLES
    access,  \* one of Accesses, fixed: [callers, limit (bound: uses begun), files, environments]
    env,     \* the environment: per variable its value, Unset if it is not there
    use,     \* per caller: its use of the model, see NoUse
    uses,    \* uses begun
    found,   \* history: the environment when the last use began beside no other
    given,   \* history: per variable, the credentials put there since then
    crossed  \* history: whether a use has begun beside another since then

accessVars == <<access, env, use, uses, found, given, crossed>>

Callers == UNION {a.callers : a \in Accesses}

\* "openai" stands for the providers whose library looks at the environment again
\* (openai, anthropic), "gemini" for those whose key is handed to the library
\* (gemini, openrouter, cheaperinference).
Providers == {"openai", "gemini", "ollama"}
Unset == "unset"
Missing == {"", Unset}
Values == Credentials \cup Missing

\* envVarForProvider; Gemini's is the one of a provider nobody knows, as "auto".
KeyVariable(provider) ==
    CASE provider = "openai" -> "OPENAI_API_KEY"
      [] provider = "ollama" -> ""
      [] OTHER -> "GEMINI_API_KEY"
Variables == {"OPENAI_API_KEY", "GEMINI_API_KEY", "OWN_KEY"}
Environments == [Variables -> Values]

-----------------------------------------------------------------------------
(* The configured credential: none, the value of a variable, a literal, or *)
(* what a command prints (nothing if it fails).                            *)

NoAuth == [none |-> FALSE, mode |-> "", variable |-> "", value |-> ""]
FromEnvironment(variable) == [NoAuth EXCEPT !.mode = "env", !.variable = variable]
DefaultAuth(provider) ==
    IF provider = "ollama" THEN [NoAuth EXCEPT !.none = TRUE] ELSE FromEnvironment(KeyVariable(provider))

\* normalizeLLMProviderConfig
NormalAuth(provider, auth) ==
    LET mode == IF auth.mode = "" THEN "env" ELSE auth.mode
    IN  IF auth.none THEN [auth EXCEPT !.mode = "", !.variable = ""]
        ELSE [auth EXCEPT !.mode = mode,
                          !.variable = IF mode = "env" /\ @ = "" THEN KeyVariable(provider) ELSE @]

Auths ==
    [none: BOOLEAN, mode: {"", "env", "literal", "command"}, variable: Variables \cup {""},
     value: Credentials \cup {""}]

\* What a file says: the provider, the first one to try with "auto", the credential at
\* the top and those of the providers.
Files ==
    [provider: Providers \cup {"auto"}, first: Providers, top: Auths, own: [Providers -> Auths]]

ASSUME AccessAssumption ==
    \A a \in Accesses : a.environments \subseteq Environments /\ a.files \subseteq Files

\* A provider the file says nothing about gets its default.
Filled(provider, auth) ==
    IF ~auth.none /\ auth.mode = "" /\ auth.variable = "" THEN DefaultAuth(provider) ELSE auth

\* legacyTopLevelAuthBelongsToDifferentProvider: the variable is another provider's.
BelongsElsewhere(provider, top) ==
    /\ top.mode \in {"", "env"} /\ top.variable # ""
    /\ \E other \in Providers \ {provider} : top.variable = KeyVariable(other)

\* shouldApplyLegacyTopLevelAuth: files used to have one credential, for the provider
\* that is selected; it counts where the provider has none of its own.
LegacyApplies(provider, own, top) ==
    /\ top # NoAuth
    /\ ~own.none
    /\ own = NoAuth \/ (provider \in Providers /\ NormalAuth(provider, own) = DefaultAuth(provider))

\* normalizeLLMConfig
Normalized(file, legacy) ==
    LET p == file.provider
        own == [q \in Providers \cup {p} |->
                  IF q \in Providers THEN Filled(q, file.own[q])
                  ELSE IF q \in DOMAIN file.own THEN file.own[q] ELSE NoAuth]
        auth == NormalAuth(p, IF legacy /\ LegacyApplies(p, own[p], file.top) THEN file.top ELSE own[p])
    IN  [file EXCEPT !.own = [own EXCEPT ![p] = auth], !.top = auth]

\* The configuration as it is read (config/llm_normalize.go) and as the package of the
\* model takes it, which normalises it again with a copy of those functions in which a
\* credential that belongs elsewhere is no exception.
Loaded(file) == Normalized(file, ~BelongsElsewhere(file.provider, file.top))
Effective(file) ==
    LET config == Normalized(Loaded(file), TRUE)
        p == IF file.provider = "auto" THEN file.first ELSE file.provider
    IN  [provider |-> p, auth |-> NormalAuth(p, config.own[p])]

-----------------------------------------------------------------------------
(* A use.                                                                  *)

Stages == {"off", "resolving", "finding", "putting", "making", "connecting", "using", "undoing"}
Uses ==
    [at: Stages, provider: Providers, auth: Auths, value: Values, previous: Values, key: Values]
NoUse == [at |-> "off", provider |-> "ollama", auth |-> NoAuth, value |-> "", previous |-> Unset, key |-> Unset]

AccessTypeOK ==
    /\ access \in Accesses
    /\ env \in Environments /\ found \in Environments
    /\ use \in [Callers -> Uses]
    /\ uses \in Nat
    /\ given \in [Variables -> SUBSET Values]
    /\ crossed \in BOOLEAN

AccessInit ==
    /\ access \in Accesses
    /\ env \in access.environments
    /\ use = [u \in Callers |-> NoUse]
    /\ uses = 0
    /\ found = env
    /\ given = [v \in Variables |-> {}]
    /\ crossed = FALSE

Unused == \A u \in Callers : use[u].at = "off"
Variable(u) == KeyVariable(use[u].provider)
Moves(u, new) == use' = [use EXCEPT ![u] = new]
Kept == UNCHANGED <<access, uses, found, crossed>>

Begin(u, file) ==
    /\ u \in access.callers /\ use[u].at = "off" /\ uses < access.limit
    /\ Moves(u, [NoUse EXCEPT !.at = "resolving", !.provider = Effective(file).provider,
                              !.auth = Effective(file).auth])
    /\ uses' = uses + 1
    /\ IF Unused THEN found' = env /\ given' = [v \in Variables |-> {}] /\ crossed' = FALSE
                 ELSE crossed' = TRUE /\ UNCHANGED <<found, given>>
    /\ UNCHANGED <<access, env>>

\* resolveLLMAuth: without a credential where one is wanted the use fails, with nothing done.
Credential(auth) ==
    IF auth.mode \in {"literal", "command"} THEN auth.value
    ELSE IF auth.variable = "" \/ env[auth.variable] = Unset THEN "" ELSE env[auth.variable]

Resolve(u) ==
    LET value == Credential(use[u].auth)
    IN  /\ use[u].at = "resolving"
        /\ \/ use[u].auth.none /\ Moves(u, [use[u] EXCEPT !.at = "making"])
           \/ ~use[u].auth.none /\ value = "" /\ Moves(u, NoUse)
           \/ ~use[u].auth.none /\ value # "" /\ Moves(u, [use[u] EXCEPT !.at = "finding", !.value = value])
        /\ Kept /\ UNCHANGED <<env, given>>

\* applyResolvedLLMAuth: what is there is remembered, then the credential is put
\* there; a provider without a variable cannot be given one.
Find(u) ==
    /\ use[u].at = "finding"
    /\ IF Variable(u) = "" THEN Moves(u, NoUse)
       ELSE Moves(u, [use[u] EXCEPT !.at = "putting", !.previous = env[Variable(u)]])
    /\ Kept /\ UNCHANGED <<env, given>>

Put(u) ==
    /\ use[u].at = "putting"
    /\ env' = [env EXCEPT ![Variable(u)] = use[u].value]
    /\ given' = [given EXCEPT ![Variable(u)] = @ \cup {use[u].value}]
    /\ Moves(u, [use[u] EXCEPT !.at = "making"])
    /\ Kept

\* initLLM: the key has to be there; the library may fail for its own reasons, or
\* look at the environment again.
Make(u) ==
    /\ use[u].at = "making"
    /\ \/ Moves(u, [use[u] EXCEPT !.at = "undoing"])
       \/ Variable(u) = "" /\ Moves(u, [use[u] EXCEPT !.at = "using"])
       \/ /\ Variable(u) # "" /\ env[Variable(u)] \notin Missing
          /\ Moves(u, [use[u] EXCEPT !.at = IF use[u].provider = "openai" THEN "connecting" ELSE "using",
                                     !.key = env[Variable(u)]])
    /\ Kept /\ UNCHANGED <<env, given>>

Connect(u) ==
    /\ use[u].at = "connecting"
    /\ Moves(u, IF env[Variable(u)] \in Missing THEN [use[u] EXCEPT !.at = "undoing"]
                ELSE [use[u] EXCEPT !.at = "using", !.key = env[Variable(u)]])
    /\ Kept /\ UNCHANGED <<env, given>>

\* A search of the web asks the provider itself, with the key it finds there
\* once (executeGeminiWebSearch, executeOpenAIWebSearch).
Search(u) ==
    /\ use[u].at = "making" /\ Variable(u) # ""
    /\ Moves(u, IF env[Variable(u)] \in Missing THEN [use[u] EXCEPT !.at = "undoing"]
                ELSE [use[u] EXCEPT !.at = "using", !.key = env[Variable(u)]])
    /\ Kept /\ UNCHANGED <<env, given>>

\* cleanupConfiguredLLM and the end of a failed start: what was found is put back
\* (mutant: only by a use that worked).
ReturnedIfUsed(p) ==
    IF p.value = "" \/ p.at = "undoing" THEN env ELSE [env EXCEPT ![KeyVariable(p.provider)] = p.previous]
Returned(p) ==
    IF p.value = "" THEN env ELSE [env EXCEPT ![KeyVariable(p.provider)] = p.previous]

HandBack(u) ==
    /\ use[u].at \in {"using", "undoing"}
    /\ env' = Returned(use[u])
    /\ Moves(u, NoUse)
    /\ Kept /\ UNCHANGED given

AccessNext ==
    \E u \in Callers :
        \/ \E file \in access.files : Begin(u, file)
        \/ Resolve(u) \/ Find(u) \/ Put(u) \/ Make(u) \/ Connect(u) \/ Search(u) \/ HandBack(u)

AccessSpec == AccessInit /\ [][AccessNext]_accessVars

-----------------------------------------------------------------------------
(* Property.                                                               *)

\* The tests of llm_auth.go take one use at a time.  With several, (1) uses that came
\* one after the other, whether they worked or failed on the way, leave the environment
\* as they found it, and each has worked with the credential of its own; and (2) a
\* variable that was only given what was in it keeps its value however the uses overlap:
\* the default configuration, in which a provider's key is in its own variable, loses
\* no key.  Uses that overlap with other credentials may do both.
CredentialsAreOnesOwn ==
    /\ ~crossed =>
         /\ Unused => env = found
         /\ \A u \in Callers : use[u].at = "using" /\ use[u].value # "" => use[u].key = use[u].value
    /\ \A v \in Variables : given[v] \subseteq {found[v]} => env[v] = found[v]

=============================================================================
