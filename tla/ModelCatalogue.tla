---------------------------- MODULE ModelCatalogue ----------------------------
(***************************************************************************)
(* The models the program knows (src/models/model-store.ts), which plan    *)
(* may use which, and the fetcher that keeps both up to date               *)
(* (src/models/model-fetcher.ts, src/proxy/codex-models.ts).               *)
(*                                                                         *)
(* A fetch asks the backend once for each plan, through one account of the *)
(* plan; the answers are merged in the order in which they come.  Every    *)
(* merge starts a write of the cache file that nothing waits for.          *)
(*                                                                         *)
(* A model name is the sequence of its parts between dashes, as far as a   *)
(* service tier or a reasoning effort may be one of them.  Left out: a     *)
(* model's description and efforts.  Each plan has one account.  Bounds:   *)
(* the lists the backend goes through, MaxRetries (MAX_RETRIES), one      *)
(* immediate fetch at a time, MaxReloads reloads and restarts.             *)
(***************************************************************************)
EXTENDS Integers, Sequences, FiniteSets, SequencesExt, Functions

CONSTANTS
    Plan,
    Static,        \* models of models.yaml
    Alias,         \* function: name -> model, from models.yaml
    Lists,         \* function: plan -> the sequence of lists the backend has for it
    DefaultModel,  \* config model.default
    Tier, Effort,  \* SERVICE_TIER_SUFFIXES, EFFORT_SUFFIXES
    MaxRetries, MaxReloads

Model == Static \cup UNION {UNION {ToSet(list) : list \in ToSet(Lists[p])} : p \in Plan}

ASSUME ModelsAssumption ==
    /\ \A p \in Plan : Len(Lists[p]) \in Nat \ {0} /\ DOMAIN Lists[p] = 1 .. Len(Lists[p])
    /\ MaxRetries \in Nat /\ MaxReloads \in Nat

ASSUME NamesAssumption ==
    /\ Model \cup DOMAIN Alias \subseteq Seq(STRING) \ {<<>>}
    /\ Tier \cup Effort \subseteq STRING \ {"null"}
    /\ Tier \cap Effort = {}

VARIABLES
    catalog,       \* ModelStore.catalog: model -> source
    planLists,     \* planModelMap: fetched plan -> the list it was given
    cacheFile,     \* models-cache.yaml: its models, or Unreadable
    cacheWrites,   \* writes of it under way
    crossed,       \* history: writes overlapped, one failed or the models were reloaded
                   \* during one, since the file was last what is known
    offered,       \* the list the backend has for each plan at present
    slots,         \* max_concurrent_per_account
    refreshTimer,  \* none is set, or which: initial, retry or hourly
    attempt,
    fetches,       \* the fetch of the timer's chain and the immediate one
    hasFetched,
    reloads

storeVars == <<catalog, planLists, cacheFile, cacheWrites, crossed>>
fetcherVars == <<refreshTimer, attempt, fetches, hasFetched>>
modelVars == <<storeVars, fetcherVars, offered, slots, reloads>>

Source == {"static", "backend"}
Unreadable == {<<>>}

NoFetch == [kind |-> "none", since |-> <<>>, ok |-> FALSE]

Known == DOMAIN catalog

\* Requests a fetch has under way for plan p: it holds a slot of the plan's account.
Held(p) == Cardinality({f \in DOMAIN fetches : p \in DOMAIN fetches[f].since})

-----------------------------------------------------------------------------
(* Names, with the models K known *)

\* An effort may be called none; no tier or effort is null.
None == "null"

Recognised(K, n) == n \in DOMAIN Alias \/ n \in K

\* resolveModelId
Resolve(K, n) == IF n \in DOMAIN Alias THEN Alias[n] ELSE IF n \in K THEN n ELSE DefaultModel

Suffix(n, S) == IF Len(n) > 1 /\ Last(n) \in S THEN Last(n) ELSE None

Without(n, suffix) == IF suffix = None THEN n ELSE Front(n)

Parsed(K, base, tier, effort) == [model |-> Resolve(K, base), tier |-> tier, effort |-> effort]

\* Mutant: the suffixes are taken in the other order.
ParseEffortFirst(K, n) ==
    LET effort == Suffix(n, Effort)
        tier == Suffix(Without(n, effort), Tier)
    IN  IF Recognised(K, n) THEN Parsed(K, n, None, None)
        ELSE Parsed(K, Without(Without(n, effort), tier), tier, effort)

ParseModelName(K, n) ==
    LET tier == Suffix(n, Tier)
        effort == Suffix(Without(n, tier), Effort)
    IN  IF Recognised(K, n) THEN Parsed(K, n, None, None)
        ELSE Parsed(K, Without(Without(n, tier), effort), tier, effort)

BuildDisplayModelName(p) ==
    p.model \o (IF p.effort = None THEN <<>> ELSE <<p.effort>>)
            \o (IF p.tier = None THEN <<>> ELSE <<p.tier>>)

-----------------------------------------------------------------------------
(* The store *)

\* Mutant: what the backend does not list is dropped.
MergedBackendOnly(list) == [m \in Static \cup ToSet(list) |-> IF m \in ToSet(list) THEN "backend" ELSE "static"]

\* applyBackendModels: everything not in this list becomes "static".
Merged(list) ==
    [m \in Known \cup ToSet(list) |-> IF m \in ToSet(list) THEN "backend" ELSE "static"]

\* syncCache
SyncCache ==
    /\ cacheWrites' = cacheWrites \cup {DOMAIN catalog'}
    /\ crossed' = (crossed \/ cacheWrites # {})
    /\ UNCHANGED cacheFile

\* A write that met no other one leaves what it wrote.
CacheWritten(models) ==
    /\ models \in cacheWrites
    /\ cacheWrites' = cacheWrites \ {models}
    /\ \/ cacheFile' = models
       \/ crossed /\ cacheFile' = Unreadable
    /\ crossed' = (crossed /\ (cacheWrites' # {} \/ cacheFile' # Known))
    /\ UNCHANGED <<catalog, planLists, fetcherVars, offered, slots, reloads>>

CacheWriteFails(models) ==
    /\ models \in cacheWrites
    /\ cacheWrites' = cacheWrites \ {models}
    /\ cacheFile' \in {cacheFile, Unreadable}
    /\ crossed' = TRUE
    /\ UNCHANGED <<catalog, planLists, fetcherVars, offered, slots, reloads>>

\* loadStatic: the cache adds what models.yaml lacks; no plan is known any more.
LoadStatic ==
    /\ catalog' = [m \in Static \cup (IF cacheFile = Unreadable THEN {} ELSE cacheFile) |->
                      IF m \in Static THEN "static" ELSE "backend"]
    /\ planLists' = <<>>

-----------------------------------------------------------------------------
(* The fetcher *)

\* Mutant: a second fetch may use an account that has no slot free.
FetchBeginsAnyway(f, kind, plans) ==
    /\ fetches[f] = NoFetch
    /\ fetches' = [fetches EXCEPT ![f] = [kind |-> kind, since |-> [p \in plans |-> offered[p]],
                                          ok |-> FALSE]]

\* getDistinctPlanAccounts: plans whose account is active and has a slot free.
FetchBegins(f, kind, plans) ==
    /\ fetches[f] = NoFetch
    /\ \A p \in plans : Held(p) < slots
    /\ fetches' = [fetches EXCEPT ![f] = [kind |-> kind, since |-> [p \in plans |-> offered[p]],
                                          ok |-> FALSE]]

\* The timer of the chain: initial, retry or hourly.
ChainFetch(plans) ==
    /\ refreshTimer # "unset"
    /\ FetchBegins("chain", refreshTimer, plans)
    /\ refreshTimer' = "unset"
    /\ UNCHANGED <<storeVars, attempt, hasFetched, offered, slots, reloads>>

\* triggerImmediate, from the admin route.
ImmediateFetch(plans) ==
    /\ FetchBegins("immediate", "immediate", plans)
    /\ UNCHANGED <<storeVars, refreshTimer, attempt, hasFetched, offered, slots, reloads>>

AnsweredFor(f, p) == [fetches[f] EXCEPT !.since = Restrict(@, DOMAIN @ \ {p})]

\* applyBackendModelsForPlan, with the list as it was at some moment of the call.
Answer(f, p, i) ==
    /\ p \in DOMAIN fetches[f].since
    /\ i \in fetches[f].since[p] .. offered[p]
    /\ catalog' = Merged(Lists[p][i])
    /\ planLists' = [q \in DOMAIN planLists \cup {p} |-> IF q = p THEN i ELSE planLists[q]]
    /\ SyncCache
    /\ fetches' = [fetches EXCEPT ![f] = [AnsweredFor(f, p) EXCEPT !.ok = TRUE]]
    /\ UNCHANGED <<refreshTimer, attempt, hasFetched, offered, slots, reloads>>

\* All endpoints failed or listed nothing: what is known stays.
NoAnswer(f, p) ==
    /\ p \in DOMAIN fetches[f].since
    /\ fetches' = [fetches EXCEPT ![f] = AnsweredFor(f, p)]
    /\ UNCHANGED <<storeVars, refreshTimer, attempt, hasFetched, offered, slots, reloads>>

\* Mutant: after the last retry the chain ends.
FetchEndsForGood(f) ==
    LET fetch == fetches[f]
        retried == fetch.kind \in {"initial", "retry"} /\ ~fetch.ok /\ attempt < MaxRetries
    IN  /\ fetch # NoFetch /\ fetch.since = <<>>
        /\ fetches' = [fetches EXCEPT ![f] = NoFetch]
        /\ refreshTimer' = IF f = "immediate" \/ ~fetch.ok THEN refreshTimer ELSE "hourly"
        /\ hasFetched' = (hasFetched \/ fetch.ok)
        /\ UNCHANGED <<storeVars, attempt, offered, slots, reloads>>

\* The first fetches are tried again MAX_RETRIES times, then the next is an hour later.
FetchEnds(f) ==
    LET fetch == fetches[f]
        retried == fetch.kind \in {"initial", "retry"} /\ ~fetch.ok /\ attempt < MaxRetries
    IN  /\ fetch # NoFetch /\ fetch.since = <<>>
        /\ fetches' = [fetches EXCEPT ![f] = NoFetch]
        /\ refreshTimer' = IF f = "immediate" THEN refreshTimer ELSE IF retried THEN "retry" ELSE "hourly"
        /\ attempt' = IF f = "chain" /\ retried THEN attempt + 1 ELSE attempt
        /\ hasFetched' = (hasFetched \/ (fetch.ok /\ fetch.kind # "hourly"))
        /\ UNCHANGED <<storeVars, offered, slots, reloads>>

\* reloadAllConfigs: loadStatic, then an immediate fetch if none is under way here.
Reload(plans) ==
    /\ reloads < MaxReloads
    /\ LoadStatic
    /\ IF fetches["immediate"] = NoFetch THEN FetchBegins("immediate", "immediate", plans)
       ELSE plans = {} /\ UNCHANGED fetches
    /\ reloads' = reloads + 1
    /\ crossed' = (crossed \/ cacheWrites # {})
    /\ UNCHANGED <<cacheFile, cacheWrites, refreshTimer, attempt, hasFetched, offered, slots>>

\* Writes under way end with the process, half done or not.
RestartFetcher ==
    /\ reloads < MaxReloads
    /\ cacheFile' \in {cacheFile} \cup (IF cacheWrites = {} THEN {} ELSE {Unreadable})
    /\ catalog' = [m \in Static \cup (IF cacheFile' = Unreadable THEN {} ELSE cacheFile') |->
                      IF m \in Static THEN "static" ELSE "backend"]
    /\ planLists' = <<>>
    /\ crossed' = (crossed \/ cacheWrites # {})
    /\ cacheWrites' = {}
    /\ refreshTimer' = "initial" /\ attempt' = 0 /\ hasFetched' = FALSE
    /\ fetches' = [f \in DOMAIN fetches |-> NoFetch]
    /\ reloads' = reloads + 1
    /\ UNCHANGED <<offered, slots>>

BackendChanges(p) ==
    /\ offered[p] < Len(Lists[p])
    /\ offered' = [offered EXCEPT ![p] = @ + 1]
    /\ UNCHANGED <<storeVars, fetcherVars, slots, reloads>>

ModelInit ==
    /\ catalog = [m \in Static |-> "static"]
    /\ planLists = <<>>
    /\ cacheFile = {} /\ cacheWrites = {} /\ crossed = FALSE
    /\ offered = [p \in Plan |-> 1]
    /\ slots \in {1, 2}
    /\ refreshTimer = "initial" /\ attempt = 0 /\ hasFetched = FALSE
    /\ fetches = [f \in {"chain", "immediate"} |-> NoFetch]
    /\ reloads = 0

ModelNext ==
    \/ \E plans \in SUBSET Plan : ChainFetch(plans) \/ ImmediateFetch(plans) \/ Reload(plans)
    \/ \E f \in DOMAIN fetches :
          \/ FetchEnds(f)
          \/ \E p \in Plan :
                NoAnswer(f, p) \/ \E i \in 1 .. Len(Lists[p]) : Answer(f, p, i)
    \/ \E models \in SUBSET Model : CacheWritten(models) \/ CacheWriteFails(models)
    \/ RestartFetcher
    \/ \E p \in Plan : BackendChanges(p)

ModelSpec == ModelInit /\ [][ModelNext]_modelVars

-----------------------------------------------------------------------------
(* Properties *)

\* Every variable keeps its type.
ModelTypeOK ==
    /\ Known \subseteq Model /\ Range(catalog) \subseteq Source
    /\ DOMAIN planLists \subseteq Plan
    /\ \A p \in DOMAIN planLists : planLists[p] \in 1 .. Len(Lists[p])
    /\ cacheFile \subseteq Model \cup Unreadable /\ cacheWrites \subseteq SUBSET Model
    /\ crossed \in BOOLEAN /\ hasFetched \in BOOLEAN
    /\ refreshTimer \in {"unset", "initial", "retry", "hourly"} /\ attempt \in 0 .. MaxRetries
    /\ \A f \in DOMAIN fetches : DOMAIN fetches[f].since \subseteq Plan

\* The chain of fetches never dies and never doubles, whatever fails, is triggered or
\* reloaded meanwhile: its timer is set or its fetch is under way, not both.
ChainGoesOn == (refreshTimer = "unset") <=> (fetches["chain"] # NoFetch)

\* With one slot for an account no answer replaces a newer one of the same plan: the
\* slot a fetch holds keeps the next one from asking for the plan meanwhile.
NewestListStays ==
    [][\A p \in Plan :
         slots = 1 /\ p \in DOMAIN planLists /\ p \in DOMAIN planLists'
         => planLists'[p] >= planLists[p]]_modelVars

\* Once the cache is written, a reload or a restart loses no model: the file has all
\* that models.yaml lacks.  Only writes that overlap or fail break this, and reloads
\* during a write: what they load from the file, the write takes out of it.
CacheKeepsTheCatalogue == cacheWrites = {} /\ ~crossed => Known \subseteq Static \cup cacheFile

\* What a name the program lists stands for changes only when models are loaded anew:
\* a refresh adds models and takes none away (model-store.ts:172).
ListedNamesKeepTheirMeaning ==
    [][reloads' = reloads =>
         \A n \in Known \cup DOMAIN Alias : ParseModelName(Known', n) = ParseModelName(Known, n)
      ]_modelVars

NameEndings == {<<>>} \cup [1 .. 1 -> Tier \cup Effort] \cup [1 .. 2 -> Tier \cup Effort]

Names == {b \o s : b \in Model \cup DOMAIN Alias, s \in NameEndings}

\* No name is a known model's and more, none stands for another model than itself, and
\* those that names stand for do not end like an effort.
Unambiguous(K) ==
    /\ \A m \in K, n \in K \cup DOMAIN Alias : m # n => ~IsPrefix(m, n)
    /\ \A m \in K \cap DOMAIN Alias : Alias[m] = m
    /\ \A m \in K \cap (Range(Alias) \cup {DefaultModel}) : Suffix(m, Effort) = None

\* Whatever models are known, the name a response carries asks for the same model,
\* effort and tier again (openai routes answer with buildDisplayModelName).
DisplayNameAsksTheSame ==
    \A K \in {S \in SUBSET Model : Static \subseteq S /\ Unambiguous(S)}, n \in Names :
        LET p == ParseModelName(K, n)
        IN  p.model \in K => ParseModelName(K, BuildDisplayModelName(p)) = p

\* What holds at every moment: the types, the chain of fetches, the cache and the names.
CatalogueKept ==
    ModelTypeOK /\ ChainGoesOn /\ CacheKeepsTheCatalogue /\ DisplayNameAsksTheSame

\* What no step takes back: a newer list of a plan, and the meaning of a listed name.
NothingTakenBack == NewestListStays /\ ListedNamesKeepTheirMeaning

\* "Where this model entry came from" (model-store.ts:33): what models.yaml lacks came
\* from the backend.  A list of another plan relabels it.
SourceIsTrue == \A m \in Known \ Static : catalog[m] = "backend"
=============================================================================
