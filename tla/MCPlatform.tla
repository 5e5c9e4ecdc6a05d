----------------------------- MODULE MCPlatform ------------------------------
(***************************************************************************)
(* The parts that have a task of their own in the background, and the      *)
(* parts around prompts, models, chat and knowledge that share no state    *)
(* with them or with one another, checked in one run: a behaviour is that  *)
(* of one of them, chosen at the start.                                    *)
(***************************************************************************)
EXTENDS BackgroundTasks, TLC

CONSTANTS
    o, MaxDepth, Failed, Stems, Texts, FixedKeys, TarKeys, SarKeys, VarKeys,
    Environment, MaxVersions, SearchIds, Whole, SearchRuns, SearchWrites, ScoreUnit, RrfK,
    Hosts, TopK, ModelCallIds, Fragments, MaxVendorEvents, Temperature,
    MaxAnswerFrames, MaxChatTurns, MaxPieces

VARIABLES
    input, stage, messages, expanded, muted, boxes, unresolved, rendered, prompt_before,
    files, cache, snapshot, watching, mtime, slipped,
    versions, search_of, search_cache, search_raced, answers, fusedHits,
    request_format, stream_stream, open_ids, open_calls, stream_frames, said, error,
    sessions, route_stage, request, route_loaded, asked, text, calls, route_told, results,
    made, route_turns,
    toolcalls_text, policy, outcomes, pieces

Priorities == o :> "low"

Interchangeable == Permutations(Signals)

\* What prompts are made of: two cards that name one another, a variable that brings a
\* toolbox, values that mention others, one that mentions itself and one that fails; and
\* two messages of two references and one.
Word(name) == [ns |-> "word", name |-> name]
Ref(ns, name) == [ns |-> ns, name |-> name]
Marker == Word("marker")
PromptCards ==
    [A |-> [body |-> <<Word("A"), Ref("bare", "V"), Ref("agent", "B"), Ref("toolbox", "X")>>,
            skills |-> <<"S">>],
     B |-> [body |-> <<Word("B"), Ref("bare", "A"), Ref("tool", "Y")>>, skills |-> <<>>]]
PromptVariables == [V |-> <<Word("V"), Ref("toolbox", "X")>>]
PromptSkills == [S |-> [body |-> <<Word("S"), Ref("tool", "Y")>>, usable |-> TRUE]]
StaticValues ==
    Ref("default", "U") :> <<Word("U"), Ref("toolbox", "X"), Ref("toolbox", "X")>>
    @@ Ref("tool", "Y") :> <<Word("Y"), Ref("none", "Y")>>
Resolvers ==
    [toolbox |-> [X |-> <<Word("X"), Ref("tool", "Y")>>],
     tool    |-> [Z |-> <<Ref("tool", "Z")>>],
     vector  |-> [Z |-> Failed]]
Tokens ==
    {Ref("agent", "A"), Ref("agent", "B"), Ref("bare", "A"), Ref("bare", "V"), Ref("bare", "U"),
     Ref("toolbox", "X"), Ref("tool", "Z"), Ref("vector", "Z")}
MessagesOf(texts) ==
    [role : {"system", "user"}, content : texts]
    \cup {[role |-> "user", content |-> <<Marker>> \o t] : t \in texts}
Short == {<<>>} \cup {<<t>> : t \in Tokens}
Long == {<<t, u>> : t, u \in Tokens}
PromptInputs ==
    {[messages |-> <<a, b>>, single_agent_gate |-> TRUE] :
        a \in MessagesOf(Long), b \in MessagesOf(Short)}
    \cup {[messages |-> <<a>>, single_agent_gate |-> FALSE] : a \in MessagesOf(Long)}

\* A fixed key that looks like a Tar key, and one key of each other kind.
StemOf == [TarFixed |-> "f", TarA |-> "f", SarP1 |-> "g", VarA |-> "g"]
Gates == [SarP1 |-> {"gpt"}]

\* Chunks in two namespaces, with a tag, with one below it, and one still to be stored; a
\* filter, a subtree, a boost and each kind of search.  Hosts number their documents, and
\* the second is a remote one that may name one twice.
SearchCorpus ==
    <<[ns |-> "general", tags |-> {"a.b"}], [ns |-> "consolidated", tags |-> {"a"}],
      [ns |-> "general", tags |-> {"a"}], None>>
Subtrees == [a |-> {"a", "a.b"}]
ByNearness == <<2, 3, 1>>
ByWords == <<3, 2, 4>>
EpaFactors == 1 :> 3 @@ 3 :> 1
RequestOf(k, wanted) ==
    [kind |-> k, filter |-> None, tag_subtree |-> None, namespaces |-> wanted,
     boosted |-> FALSE, rerank_enabled |-> FALSE, top_k |-> 1, overfetch_multiplier |-> 2]
BoostedRequest == [RequestOf("hybrid", {"general"}) EXCEPT !.boosted = TRUE]
SearchRequests ==
    <<{[RequestOf("hybrid", {"general"}) EXCEPT !.rerank_enabled = TRUE,
            !.filter = [required |-> {"a"}, any_of |-> {}, excluded |-> {"a.b"}]],
       [BoostedRequest EXCEPT !.tag_subtree = "a"], RequestOf("dense", None),
       RequestOf("sparse", None), RequestOf("host", {"general"}), RequestOf("rag", None)},
      {BoostedRequest}>>
HostAnswers == <<{<<1>>, <<1, 2>>, <<2, 1>>}, {<<1>>, <<1, 1>>, <<2, 1>>}>>

\* What is rebuilt from: a file of two pieces, and one of none.
Markdown == <<[path |-> "a.md", pieces |-> <<"x", "y">>], [path |-> "b.md", pieces |-> <<>>]>>

\* A plain request by an alias whose header names another session, a stream to Anthropic with
\* two texts of the system and a tool's, a stream of nobody's model in the second session
\* with a role nobody knows, and a channel's message with files.
Asks(what, transport, model, named, temperature, attached) ==
    [messages |-> what, transport |-> transport, model |-> model, body_key |-> named[1],
     header_key |-> named[2], temperature |-> temperature, attachments |-> attached]
Says(role, words) == [role |-> role, content |-> <<[type |-> "text", of |-> words]>>]
File(type, of) == [kind |-> type, holds |-> of]
ChatRequests ==
    {Asks(<<Says("user", "u")>>, "request", "fast", <<"a", "b">>, 0, <<>>),
     Asks(<<Says("system", "s"), Says("user", "u"), Says("tool", "t"), Says("system", "r"),
            Says("user", "v")>>, "sse", "m2", <<None, "a">>, 7, <<>>),
     Asks(<<Says("odd", "o")>>, "sse", "zz", <<None, "b">>, None, <<>>),
     Asks(<<Says("user", "c")>>, "channel", "m2", <<None, None>>, None,
          <<File("image", "i"), File("file", "f"), File("image", None)>>)}
Redirection == [aliases |-> [fast |-> "m1"], known_models |-> {"m1", "m2", "m3"}, default |-> "m3"]
Vendors == [m1 |-> "openai", m2 |-> "anthropic", m3 |-> "google"]

\* An envelope in four pieces, so that it may break off or hold a fence; a whole and a broken
\* fence, a payload without one, and a whole envelope for a tool of the other protocol.
Key(k) == [t |-> "key", of |-> k]
Spelt(w) == [t |-> "word", of |-> w]
Payload(n) == [t |-> "json", of |-> n]
Lexeme(t) == [t |-> t]
TextPieces ==
    {<<Lexeme("open"), Key("tool_name"), Spelt("both"), Lexeme("end")>>, <<Key("count")>>,
     <<Spelt("1"), Lexeme("end")>>, <<Lexeme("close")>>, <<Payload("fc")>>,
     <<Lexeme("fence"), Payload("both"), Lexeme("unfence")>>, <<Lexeme("fence"), Payload("fc")>>,
     <<Lexeme("open"), Key("tool_name"), Spelt("fc"), Lexeme("end"), Lexeme("close")>>}
TextPolicy(enabled, fallback, order) ==
    [block_enabled |-> enabled, fallback_to_function_call |-> fallback, preference_order |-> order]
TextPolicies ==
    {TextPolicy(TRUE, TRUE, <<"openai_function", "block">>),
     TextPolicy(TRUE, FALSE, <<"block", "openai_function">>),
     TextPolicy(FALSE, FALSE, <<"block", "openai_function">>)}
TextTools ==
    [both |-> [protocols |-> {"block", "openai_function"}, types |-> [count |-> "integer"]],
     fc |-> [protocols |-> {"openai_function"}, types |-> [count |-> "object"]]]

Prompt == INSTANCE PromptAssembly WITH
    before <- prompt_before, Inputs <- PromptInputs, Cards <- PromptCards,
    Variables <- PromptVariables, Skills <- PromptSkills, Static <- StaticValues,
    Dynamic <- Resolvers, Inject <- Marker, Stem <- StemOf, Allowed <- Gates
Search == INSTANCE HybridSearch WITH
    cache <- search_cache, raced <- search_raced, Ids <- SearchIds, Corpus <- SearchCorpus,
    Below <- Subtrees, Nearest <- ByNearness, Wordiest <- ByWords, Epa <- EpaFactors,
    Searches <- SearchRuns, Requests <- SearchRequests, MaxWrites <- SearchWrites,
    Unit <- ScoreUnit, K <- RrfK, Answers <- HostAnswers, Null <- None
Stream == INSTANCE ModelStream WITH
    stream <- stream_stream, frames <- stream_frames, CallIds <- ModelCallIds,
    MaxEvents <- MaxVendorEvents, Nil <- None
Route == INSTANCE ChatRoute WITH
    stage <- route_stage, loaded <- route_loaded, told <- route_told, turns <- route_turns,
    Requests <- ChatRequests, Redirect <- Redirection, VendorOf <- Vendors,
    Texts <- Fragments, MaxFrames <- MaxAnswerFrames, MaxTurns <- MaxChatTurns, Nil <- None
ToolCalls == INSTANCE ToolCallText WITH
    text <- toolcalls_text, Pieces <- TextPieces, Policies <- TextPolicies,
    Tools <- TextTools, Nil <- None

\* Every key of a file names one of the files.
ASSUME FilesAssumption ==
    \A k \in FixedKeys \cup TarKeys \cup SarKeys \cup VarKeys : StemOf[k] \in Stems

Machines ==
    {"observer", "telegram", "canvas", "index", "migration", "bucket", "session", "persona",
     "traits", "prompt", "files", "search", "federation", "store", "decay", "stream",
     "route", "toolcalls"}

promptVars ==
    <<input, stage, messages, expanded, muted, boxes, unresolved, rendered, prompt_before>>
filesVars == <<files, cache, snapshot, watching, mtime, slipped>>
searchVars == <<versions, search_of, search_cache, search_raced>>
federationVars == <<answers, fusedHits>>
streamVars ==
    <<request_format, stream_stream, open_ids, open_calls, stream_frames, said, error>>
routeVars ==
    <<sessions, route_stage, request, route_loaded, asked, text, calls, route_told, results,
      made, route_turns>>
toolcallsVars == <<toolcalls_text, policy, outcomes, pieces>>

otherVars ==
    <<promptVars, filesVars, searchVars, federationVars, streamVars, routeVars, toolcallsVars>>
allVars == <<backgroundVars, otherVars>>

MCInit ==
    /\ machine \in Machines
    /\ BackgroundInit
    /\ machine # "prompt" => input = CHOOSE i \in PromptInputs : TRUE
    /\ Prompt!Init
    /\ Search!Init
    /\ machine # "stream" => request_format = "openai_compatible"
    /\ Stream!Init
    /\ Route!Init
    /\ machine # "toolcalls" => policy = CHOOSE p \in TextPolicies : TRUE
    /\ ToolCalls!Init

AnswerSteps(m) ==
    /\ machine = m /\ UNCHANGED backgroundVars
    /\ m # "prompt" => UNCHANGED promptVars
    /\ m # "files" => UNCHANGED filesVars
    /\ m # "search" => UNCHANGED searchVars
    /\ m # "federation" => UNCHANGED federationVars
    /\ m # "stream" => UNCHANGED streamVars
    /\ m # "route" => UNCHANGED routeVars
    /\ m # "toolcalls" => UNCHANGED toolcallsVars

MCNext ==
    \/ BackgroundNext /\ UNCHANGED otherVars
    \/ AnswerSteps("prompt") /\ Prompt!PromptNext
    \/ AnswerSteps("files") /\ Prompt!FileNext
    \/ AnswerSteps("search") /\ Search!SearchNext
    \/ AnswerSteps("federation") /\ Search!FederationNext
    \/ AnswerSteps("stream") /\ Stream!Next
    \/ AnswerSteps("route") /\ Route!Next
    \/ AnswerSteps("toolcalls") /\ ToolCalls!Next

MCSpec == MCInit /\ [][MCNext]_allVars

-----------------------------------------------------------------------------
(* The components' properties under the names of their modules.            *)

\* The observer keeps to its types; Telegram forgets no update that was not taken, one
\* life of the process answers an update once at most, and a taken one is lost only to a
\* restart, a stop or a failed send (telegram/service.rs); what a canvas client was sent
\* accounts for every frame since it joined, and after the end comes nothing (canvas.rs);
\* the sweeper changes no answer (sweep_stale) and no stretch of time has more admissions
\* than burst and refill allow (check); a variable's file is served as it is on disk, but
\* for an edit the watcher cannot see (hot_reload.py).
FrontEndsHold ==
    CASE machine = "observer" -> TypeOK
      [] machine = "telegram" -> /\ Telegram!TypeOK /\ Telegram!ForgottenWasTaken
                                 /\ Telegram!OncePerLife /\ Telegram!NoneIsDropped
      [] machine = "canvas"   -> Canvas!TypeOK /\ Canvas!StreamsAccount /\ Canvas!EndIsTheEnd
      [] machine = "bucket"   -> Bucket!TypeOK /\ Bucket!SweepIsInvisible /\ Bucket!WindowBudget
      [] machine = "files"    -> Prompt!FileTypeOK /\ Prompt!ServesTheFile
      [] OTHER                -> TRUE

\* A dirty index has a saver on its way and a key that was marked is saved, through
\* evictions and reloads (usearch_index.rs); the schema version claims nothing that is
\* not there, and going up loses no tag, whichever migrators overlap (migration.rs); rows
\* are numbered in the order of their appends, a trim leaves the newest rows
\* (session_sqlite.rs) and a turn sees the turns the client was told of (chat.rs).  Nobody
\* recovers faster than time passes and a reset row stays away (corlinman-persona); a trait
\* stands between the readings of it that were weighed, names the sessions it was read in
\* and nothing personal, however distillations and prunes overlap (distiller.py); however
\* rebuilds, upserts and backfills overlap a vector or a projection is its own chunk's
\* (vector.rs, epa_backfill.py).
StorageHolds ==
    CASE machine = "index"     -> Index!TypeOK /\ Index!DirtyIsSeen /\ Index!MarkedKeysLast
      [] machine = "migration" -> /\ Migration!TypeOK /\ Migration!VersionIsNotAhead
                                  /\ Migration!TagsSurviveUpgrades
      [] machine = "session"   -> /\ Session!TypeOK /\ Session!NumbersFollowAppends
                                  /\ Session!NewestSurvive /\ Session!ReadYourTurns
      [] machine = "persona"   -> Persona!PersonaTypeOK /\ Persona!RecoversInTime /\ Persona!ResetStays
      [] machine = "traits"    -> /\ Persona!TraitsTypeOK /\ Persona!WeighedReadings
                                  /\ Persona!SessionsAreKept
      [] machine = "store"     -> Kb!TypeOK /\ Kb!DerivedIsItsOwn /\ Kb!RebuildAgrees
      [] OTHER                 -> TRUE

\* However cards, variables, skills and messages mention one another, one card speaks, a
\* toolbox is mentioned once and never by what the user wrote, rendering is replacing every
\* reference until none resolves, fails for a reason, and reports what it leaves
\* (context_assembler.py, expander.py, placeholder.rs).  A search returns what had the tags,
\* was in the namespace and was there, the better first, whatever is written meanwhile, and
\* hosts take turns (hybrid.rs, federation.rs); a chunk fades and revives (decay.rs).  The
\* frames of a round carry what the model said to each of its calls, and errors keep their
\* names (reasoning_loop.py, agent_servicer.py); a session's rows are its turns as their
\* callers heard them, a caller is told one end, and the vendor is asked everything
\* (chat.rs); no part of a text is two tool calls and no whole one is lost (dispatcher.rs).
AnswersHold ==
    CASE machine = "prompt"   -> /\ Prompt!TypeOK /\ Prompt!OneCardSpeaks /\ Prompt!ToolboxOnce
                                 /\ Prompt!RenderedFully /\ Prompt!FailsForAReason
                                 /\ Prompt!LeftoversAreReported
      [] machine \in {"search", "federation"} ->
            Search!TypeOK /\ Search!HitsWereAllowed /\ Search!BetterGoesFirst /\ Search!HostsTakeTurns
      [] machine = "decay"    -> Kb!TypeOK /\ Kb!FadesAndRevives
      [] machine = "stream"   -> Stream!TypeOK /\ Stream!AnswerSurvives /\ Stream!ErrorsAreTold
      [] machine = "route"    -> /\ Route!TypeOK /\ Route!RowsAreTheTurns /\ Route!OneEnd
                                 /\ Route!NothingIsUnsaid
      [] machine = "toolcalls" -> /\ ToolCalls!TypeOK /\ ToolCalls!CallsAreApart
                                  /\ ToolCalls!NothingWholeIsLost
      [] OTHER                -> TRUE
=============================================================================
