---------------------------- MODULE ModelRouter -----------------------------
(***************************************************************************)
(* ModelRouter (llm/router.py): a role is resolved to a chain of providers *)
(* that is built once, cached for the life of the process and shared by    *)
(* all audits; a call goes down its chain until a provider answers.  The   *)
(* callers are the agents' invoke_structured and the aggregate node, any   *)
(* number of them at a time.                                               *)
(*                                                                         *)
(* A use is what a caller asks for: [role, schema], the schema being ""    *)
(* for plain text.  get_chat_model has no await, so it is one step.        *)
(***************************************************************************)
EXTENDS Naturals, Sequences, FiniteSets, SequencesExt, FiniteSetsExt

CONSTANTS
  Uses,     \* the uses the agents make of the router
  Retries,  \* per provider: how often its client tries again by itself
  Names,    \* the names of models that answers carry
  NamesOf,  \* per provider: the names that its answers may carry
  Words,    \* per name: which of the words in _infer_provider it contains
  Priced,   \* the names in PRICE_TABLE; any other one costs nothing
  Callers   \* the calls that may be under way at a time

\* DEFAULT_ROLE_TABLE: the providers of a role, in order of preference.
RoleTable == [
  deep_reasoning |-> <<"anthropic", "google", "ollama">>,
  broad_review   |-> <<"google", "anthropic", "ollama">>,
  triage         |-> <<"ollama", "google", "anthropic">>,
  summarize      |-> <<"google", "ollama", "anthropic">>]

Providers == {"anthropic", "google", "ollama"}
Schemas == {"FindingsBatch", "SecretTriageBatch", ""}

ASSUME RouterAssumption ==
  /\ Uses # {} /\ Uses \subseteq [role : DOMAIN RoleTable, schema : Schemas]
  /\ Retries \in [Providers -> Nat]
  /\ NamesOf \in [Providers -> SUBSET Names] /\ {"unknown", ""} \cap Names = {}
  /\ Words \in [Names \cup {"unknown"} -> SUBSET {"claude", "gemini"}]
  /\ Words["unknown"] = {}
  /\ Priced \subseteq Names /\ \A m \in Priced : Words[m] # {}

VARIABLES
  broken,  \* the providers whose client cannot be constructed now
  down,    \* those whose calls raise now
  cache,   \* per key: the chain in _cache, or <<>>
  call     \* per caller: its call

vars == <<broken, down, cache, call>>

\* Mutant of Key: only the schema makes the key.
KeyBySchema(u) == <<"", u.schema>>

Key(u) == <<u.role, u.schema>>

Over == {"parsed", "unparsed", "failed"}

(***************************************************************************)
(* `pc` is where the call is or how it came out, `at` the provider of its  *)
(* chain that is being called, `retry` the attempts that provider's client *)
(* has used up, `raised` the providers that have raised to this call, and  *)
(* `event` its TokenUsageEvent: the provider and the model it names.       *)
(***************************************************************************)
Event == [provider : Providers \cup {""}, model : Names \cup {"unknown", ""}]

NoEvent == [provider |-> "", model |-> ""]

Call == [pc : {"idle", "calling"} \cup Over, use : Uses, chain : Seq(Providers),
         at : Nat \ {0}, retry : Nat, raised : SUBSET Providers,
         event : Event]

NoCall == [pc |-> "idle", use |-> CHOOSE u \in Uses : TRUE, chain |-> <<>>,
           at |-> 1, retry |-> 0, raised |-> {}, event |-> NoEvent]

Init ==
  /\ broken \in SUBSET Providers /\ down \in SUBSET Providers
  /\ cache = [k \in {Key(u) : u \in Uses} |-> <<>>]
  /\ call = [c \in Callers |-> NoCall]

-----------------------------------------------------------------------------
\* Mutant of Built: the first client that cannot be constructed ends the loop.
BuiltUpToBroken(u) ==
  LET table == RoleTable[u.role]
      bad == {i \in DOMAIN table : table[i] \in broken}
  IN  IF bad = {} THEN table ELSE SubSeq(table, 1, Min(bad) - 1)

\* One round of its loop: the client, or a warning in the log.
Tried(built, p) == IF p \in broken THEN built ELSE Append(built, p)

\* _resolve_models: the providers whose client can be constructed, of the three.
Built(u) ==
  LET table == RoleTable[u.role] IN Tried(Tried(Tried(<<>>, table[1]), table[2]), table[3])

\* Mutant of GetChatModel: that no provider could be built is cached as well.
GetChatModelCachesNone(c, u) ==
  /\ call[c].pc = "idle"
  /\ LET found == IF cache[Key(u)] # <<>> THEN cache[Key(u)] ELSE Built(u)
         none == found = <<>> \/ found[1] = "none" IN
       /\ cache' = [cache EXCEPT ![Key(u)] = IF none THEN <<"none">> ELSE found]
       /\ call' = [call EXCEPT ![c] =
            [NoCall EXCEPT !.use = u, !.chain = IF none THEN <<>> ELSE found,
                           !.pc = IF none THEN "failed" ELSE "calling"]]
  /\ UNCHANGED <<broken, down>>

\* The cached chain, or a new one.  No provider at all is a ValueError, which
\* the caller degrades on; it is not cached.
GetChatModel(c, u) ==
  /\ call[c].pc = "idle"
  /\ LET found == IF cache[Key(u)] # <<>> THEN cache[Key(u)] ELSE Built(u) IN
       /\ cache' = [cache EXCEPT ![Key(u)] = found]
       /\ call' = [call EXCEPT ![c] =
            [NoCall EXCEPT !.use = u, !.chain = found,
                           !.pc = IF found = <<>> THEN "failed" ELSE "calling"]]
  /\ UNCHANGED <<broken, down>>

Calling(c) == call[c].pc = "calling"
Called(c) == call[c].chain[call[c].at]

\* Mutant of AfterRaise: the client does not count its attempts.
AfterRaiseUncounted(k, p) ==
  IF Retries[p] > 0                THEN k
  ELSE IF k.at < Len(k.chain)      THEN [k EXCEPT !.at = @ + 1, !.retry = 0]
  ELSE [k EXCEPT !.pc = "failed"]

\* The client tries again; then with_fallbacks goes on to the next provider, if
\* there is one.
AfterRaise(k, p) ==
  IF k.retry < Retries[p]          THEN [k EXCEPT !.retry = @ + 1]
  ELSE IF k.at < Len(k.chain)      THEN [k EXCEPT !.at = @ + 1, !.retry = 0]
  ELSE [k EXCEPT !.pc = "failed"]

\* The provider raises or times out.
Raises(c) ==
  /\ Calling(c) /\ Called(c) \in down
  /\ call' = [call EXCEPT ![c] =
       AfterRaise([call[c] EXCEPT !.raised = @ \cup {Called(c)}], Called(c))]
  /\ UNCHANGED <<broken, down, cache>>

\* _infer_provider.
InferProvider(model) ==
  IF "claude" \in Words[model] THEN "anthropic"
  ELSE IF "gemini" \in Words[model] THEN "google" ELSE "ollama"

\* Mutant of UsageEvents: the provider is the one that the role prefers.
UsageEventsOfPrimary(c) ==
  {NoEvent} \cup {[provider |-> Head(call[c].chain), model |-> m] :
                     m \in NamesOf[Called(c)] \cup {"unknown"}}

\* usage_event_from_message: an answer may come without usage_metadata, which makes
\* no event, or without a name of its model, which is then "unknown".
UsageEvents(c) ==
  {NoEvent} \cup {[provider |-> InferProvider(m), model |-> m] :
                     m \in NamesOf[Called(c)] \cup {"unknown"}}

\* The provider answers.  include_raw turns an answer that does not parse into a
\* value, so no fallback follows; the text of a plain call needs no parsing.
Answers(c, how) ==
  /\ Calling(c) /\ Called(c) \notin down
  /\ how = "unparsed" => call[c].use.schema # ""
  /\ \E e \in UsageEvents(c) :
       call' = [call EXCEPT ![c] = [@ EXCEPT !.pc = how, !.event = e]]
  /\ UNCHANGED <<broken, down, cache>>

\* The caller goes on with what it has got; another one may take its place.
Leaves(c) ==
  /\ call[c].pc \in Over
  /\ call' = [call EXCEPT ![c] = NoCall]
  /\ UNCHANGED <<broken, down, cache>>

\* Keys, networks and providers fail and recover.
Weather ==
  /\ \E p \in Providers : \/ broken' = SymDiff(broken, {p}) /\ UNCHANGED down
                          \/ down' = SymDiff(down, {p}) /\ UNCHANGED broken
  /\ UNCHANGED <<cache, call>>

Attempt(c) == Raises(c) \/ \E how \in {"parsed", "unparsed"} : Answers(c, how)

Next == \/ Weather
        \/ \E c \in Callers : \/ \E u \in Uses : GetChatModel(c, u)
                              \/ Attempt(c) \/ Leaves(c)

Spec == Init /\ [][Next]_vars

\* A call to a provider ends within the client's timeout, and its caller goes on.
\* Nobody has to call, and nothing has to recover.
FairSpec == Spec /\ \A c \in Callers : WF_vars(Attempt(c)) /\ WF_vars(Leaves(c))

-----------------------------------------------------------------------------
(***************************************************************************)
(* Properties.                                                             *)
(***************************************************************************)

TypeOK ==
  /\ broken \subseteq Providers /\ down \subseteq Providers
  /\ cache \in [{Key(u) : u \in Uses} -> Seq(Providers)]
  /\ call \in [Callers -> Call]

Before(p, s) == {s[i] : i \in 1..(Min({j \in DOMAIN s : s[j] = p}) - 1)}

\* A call is answered by the provider its role prefers, less those that raised to
\* this very call and those that its chain lacks since it was built: whatever the
\* roles with the same schema, and the calls before, have got.
PreferenceKept ==
  \A c \in Callers : call[c].pc \in {"parsed", "unparsed"} =>
    \A p \in Before(Called(c), RoleTable[call[c].use.role]) :
      p \in call[c].raised \/ p \notin ToSet(cache[Key(call[c].use)])

\* README: the cost is estimated per provider, which from_events sums by the name
\* in the event.  Whatever costs anything is charged to the provider that answered,
\* however far the call fell back.  An answer is put down to another provider only
\* as ollama's, for want of a name that says more, and then costs nothing.
CostGoesToAnswerer ==
  \A c \in Callers : LET e == call[c].event IN
    e # NoEvent /\ e.provider # Called(c) => e.provider = "ollama" /\ e.model \notin Priced

\* The comment in _resolve_models: one broken provider must not stop the others.
\* While there is a provider that can be constructed and answers, no call of any
\* role fails, whatever the other two do.
OneHealthyIsEnough ==
  \A p \in Providers :
    [](p \notin broken \cup down) => [](\A c \in Callers : call[c].pc # "failed")

\* An outage leaves nothing behind: once no call raises, and some provider can be
\* constructed, calls fail only for a while, although chains built during the
\* outage stay in the cache.
Recovers ==
  <>[](down = {} /\ broken # Providers) => <>[](\A c \in Callers : call[c].pc # "failed")

\* Every call comes to an end, however the providers fail meanwhile.
CallsEnd == \A c \in Callers : Calling(c) ~> call[c].pc \in Over
=============================================================================
