--------------------------- MODULE PromptAssembly ----------------------------
(***************************************************************************)
(* How a turn's messages become a prompt (context_assembler.py): agent     *)
(* cards are expanded, variables and skills put in, toolboxes muted or     *)
(* stripped, and what is privileged is rendered by the gateway's           *)
(* placeholder engine over gRPC.  A text is a sequence of tokens: words    *)
(* and references {{ns.name}}, those of namespace "bare" without a dot.    *)
(***************************************************************************)
EXTENDS Integers, Sequences, SequencesExt, FiniteSetsExt

CONSTANTS
    Inputs,         \* [messages, single_agent_gate] to assemble
    Cards,          \* agent -> [body, skills]
    Variables,      \* bare name -> text: what the cascade resolves
    Skills,         \* skill -> [body, usable]
    Static,         \* reference -> text (with_static)
    Dynamic,        \* namespace -> [name -> text or Failed] (with_dynamic)
    MaxDepth,
    Inject,         \* the token of a system-inject marker
    None, Failed

VARIABLES
    input, stage,
    messages,       \* [role, content]
    expanded, muted,            \* what the single-agent gate let through and what not
    boxes,          \* expanded_toolboxes, muted_toolboxes and stripped_toolboxes
    unresolved,     \* the keys the caller is told of
    rendered,       \* how many messages have been looked at by the last stage
    before          \* the messages as they were when rendering began (history)

promptVars == <<input, stage, messages, expanded, muted, boxes, unresolved, rendered, before>>

Tokens == [ns : STRING, name : STRING]

IsRef(t) == t.ns # "word"
HasRef(text) == \E i \in DOMAIN text : IsRef(text[i])
Refs(text) == {t \in ToSet(text) : IsRef(t)}
Concat(texts) == FoldLeft(LAMBDA acc, t : acc \o t, <<>>, texts)

_is_privileged(m) ==
    \/ m.role = "system"
    \/ m.role = "user" /\ m.content # <<>> /\ Head(m.content) = Inject

-----------------------------------------------------------------------------
(* Stage 1: AgentExpander.  The gate g goes through all messages; out is   *)
(* the text so far.                                                        *)

GateStates == [first : STRING \cup {None}, muted : Seq(STRING), cycle : BOOLEAN, out : Seq(Tokens)]

Put(g, t) == [g EXCEPT !.out = Append(@, t)]

_resolve_one[g \in GateStates, t \in Tokens, stack \in SUBSET DOMAIN Cards] ==
    CASE t.name \notin DOMAIN Cards -> Put(g, [ns |-> "agent", name |-> t.name])
      [] OTHER ->
         IF input.single_agent_gate /\ g.first \notin {None, t.name}
         THEN [g EXCEPT !.muted = Append(@, t.name)]
         ELSE LET claimed == IF g.first = None THEN [g EXCEPT !.first = t.name] ELSE g IN
              IF t.name \in stack THEN [claimed EXCEPT !.cycle = TRUE]
              ELSE FoldLeft(LAMBDA acc, u : IF acc.cycle THEN acc
                                            ELSE IF u.ns = "agent"
                                            THEN _resolve_one[acc, u, stack \cup {t.name}]
                                            ELSE Put(acc, u),
                            claimed, Cards[t.name].body)

\* First the references by namespace, then the bare names that are cards, of what came out.
_expand_text(g, text) ==
    LET Pass(h, body, Mine(_)) ==
            FoldLeft(LAMBDA acc, t : IF acc.cycle THEN acc
                                     ELSE IF Mine(t) THEN _resolve_one[acc, t, {}] ELSE Put(acc, t),
                     [h EXCEPT !.out = <<>>], body)
        named == Pass(g, text, LAMBDA t : t.ns = "agent")
    IN Pass(named, named.out, LAMBDA t : t.ns = "bare" /\ t.name \in DOMAIN Cards)

NextGate(g) == g

expand(msgs) ==
    FoldLeft(LAMBDA acc, m :
                IF _is_privileged(m) /\ ~acc.gate.cycle
                THEN LET g == _expand_text(NextGate(acc.gate), m.content) IN
                     [gate |-> g, msgs |-> Append(acc.msgs, [m EXCEPT !.content = g.out])]
                ELSE [acc EXCEPT !.msgs = Append(@, m)],
             [gate |-> [first |-> None, muted |-> <<>>, cycle |-> FALSE, out |-> <<>>], msgs |-> <<>>],
             msgs)

Agents ==
    /\ stage = "agents"
    /\ LET e == expand(messages) IN
       IF e.gate.cycle
       THEN stage' = "failed" /\ UNCHANGED <<messages, expanded, muted>>
       ELSE /\ stage' = "variables" /\ messages' = e.msgs
            /\ expanded' = e.gate.first /\ muted' = e.gate.muted
    /\ UNCHANGED <<input, boxes, unresolved, rendered, before>>

-----------------------------------------------------------------------------
(* Stages 2 and 3: the variables of every message, the skills of the card. *)

Substituted(text) ==
    Concat([i \in DOMAIN text |-> IF text[i].ns = "bare" /\ text[i].name \in DOMAIN Variables
                                  THEN Variables[text[i].name] ELSE <<text[i]>>])

Bare(text) == {t \in ToSet(text) : t.ns = "bare"}

_apply_cascade ==
    /\ stage = "variables"
    /\ messages' = [i \in DOMAIN messages |-> [messages[i] EXCEPT !.content = Substituted(@)]]
    /\ unresolved' = UNION {{t \in Bare(messages[i].content) : t.name \notin DOMAIN Variables}
                            : i \in DOMAIN messages}
    /\ stage' = "skills"
    /\ UNCHANGED <<input, expanded, muted, boxes, rendered, before>>

\* A skill that is missing, or lacks what it requires, is only noted.
check_requirements(s) == s \in DOMAIN Skills /\ Skills[s].usable

Section(card) == Concat([i \in DOMAIN SelectSeq(card.skills, check_requirements) |->
                            Skills[SelectSeq(card.skills, check_requirements)[i]].body])

_inject_skills ==
    /\ stage = "skills"
    /\ LET section == IF expanded = None THEN <<>> ELSE Section(Cards[expanded])
           systems == {i \in DOMAIN messages : messages[i].role = "system"}
           first == IF systems = {} THEN 1 ELSE Min(systems)
           alone == [role |-> "system", content |-> section] IN
       messages' = IF section = <<>> THEN messages
                   ELSE IF systems = {} \/ messages[first].content = <<>>
                   THEN InsertAt(messages, first, alone)
                   ELSE [messages EXCEPT ![first].content = section \o @]
    /\ stage' = "toolboxes"
    /\ UNCHANGED <<input, expanded, muted, boxes, unresolved, rendered, before>>

-----------------------------------------------------------------------------
(* Stage 3.5: a toolbox once, and never for what the user wrote.           *)

_strip_toolboxes(acc, t) == [acc EXCEPT !.stripped = Append(@, t.name)]

_dedup_toolboxes(acc, t) ==
    IF t.name \in acc.expanded THEN [acc EXCEPT !.muted = Append(@, t.name)]
    ELSE [acc EXCEPT !.expanded = @ \cup {t.name}, !.out = Append(@, t)]

Boxed(acc, m) ==
    LET done == FoldLeft(LAMBDA a, t : IF t.ns # "toolbox" THEN Put(a, t)
                                       ELSE IF _is_privileged(m) THEN _dedup_toolboxes(a, t)
                                       ELSE _strip_toolboxes(a, t),
                         [acc.boxes EXCEPT !.out = <<>>], m.content)
    IN [boxes |-> done, msgs |-> Append(acc.msgs, [m EXCEPT !.content = done.out])]

Toolboxes ==
    /\ stage = "toolboxes"
    /\ LET done == FoldLeft(Boxed, [boxes |-> boxes, msgs |-> <<>>], messages) IN
       messages' = done.msgs /\ before' = done.msgs /\ boxes' = [done.boxes EXCEPT !.out = <<>>]
    /\ stage' = "render"
    /\ UNCHANGED <<input, expanded, muted, unresolved, rendered>>

-----------------------------------------------------------------------------
(* Stage 4: PlaceholderEngine, for one privileged message at a time.       *)

Default(t) == [ns |-> "default", name |-> t.name]

\* The exact key, then the default namespace, then whoever is registered for the namespace.
resolve_once(t) ==
    LET ns == IF t.ns = "bare" THEN "default" ELSE t.ns IN
    IF t \in DOMAIN Static THEN Static[t]
    ELSE IF t.ns = "bare" /\ Default(t) \in DOMAIN Static THEN Static[Default(t)]
    ELSE IF ns \in DOMAIN Dynamic THEN Dynamic[ns][t.name] ELSE None

\* Mutant: a key stays in flight when its value has been expanded.
Inside_keeps(r, in_flight, t) == r

Inside(r, in_flight, t) == [r EXCEPT !.in_flight = in_flight]

Ok(text, in_flight) == [error |-> "none", text |-> text, in_flight |-> in_flight]
Err(kind) == [error |-> kind, text |-> <<>>, in_flight |-> {}]

render_inner[text \in Seq(Tokens), in_flight \in SUBSET Tokens, depth \in Nat] ==
    LET Expand(acc, t) ==
            LET v == IF IsRef(t) THEN resolve_once(t) ELSE None IN
            IF acc.error # "none" THEN acc
            ELSE IF v = Failed THEN Err("resolver")
            ELSE IF v = None THEN [acc EXCEPT !.text = Append(@, t)]
            ELSE IF ~HasRef(v) \/ MaxDepth = 0 THEN [acc EXCEPT !.text = @ \o v]
            ELSE IF t \in acc.in_flight THEN Err("cycle")
            ELSE LET r == render_inner[v, acc.in_flight \cup {t}, depth + 1] IN
                 IF r.error # "none" THEN r
                 ELSE [Inside(r, acc.in_flight, t) EXCEPT !.text = acc.text \o r.text]
    IN IF depth > MaxDepth THEN Err("depth")
       ELSE FoldLeft(Expand, Ok(<<>>, in_flight), text)

collect_unresolved(text) == Refs(text)

Unchanged == UNCHANGED <<input, expanded, muted, boxes, before>>

Pass ==
    /\ stage = "render" /\ rendered < Len(messages)
    /\ LET m == messages[rendered + 1] IN ~_is_privileged(m) \/ m.content = <<>>
    /\ rendered' = rendered + 1
    /\ Unchanged /\ UNCHANGED <<stage, messages, unresolved>>

Render ==
    /\ stage = "render" /\ rendered < Len(messages)
    /\ LET m == messages[rendered + 1]
           r == render_inner[m.content, {}, 0] IN
       /\ _is_privileged(m) /\ m.content # <<>>
       /\ IF r.error # "none" THEN stage' = "failed" /\ UNCHANGED <<messages, unresolved, rendered>>
          ELSE /\ messages' = [messages EXCEPT ![rendered + 1].content = r.text]
               /\ unresolved' = unresolved \cup collect_unresolved(r.text)
               /\ rendered' = rendered + 1 /\ UNCHANGED stage
    /\ Unchanged

\* The call to the gateway may fail, too: no prompt then.
Unavailable ==
    /\ stage = "render" /\ rendered < Len(messages)
    /\ _is_privileged(messages[rendered + 1]) /\ messages[rendered + 1].content # <<>>
    /\ stage' = "failed"
    /\ Unchanged /\ UNCHANGED <<messages, unresolved, rendered>>

_emit_preprocessed ==
    /\ stage = "render" /\ rendered = Len(messages)
    /\ stage' = "done"
    /\ Unchanged /\ UNCHANGED <<messages, unresolved, rendered>>

PromptInit ==
    /\ input \in Inputs
    /\ stage = "agents" /\ messages = input.messages
    /\ expanded = None /\ muted = <<>> /\ unresolved = {} /\ rendered = 0 /\ before = <<>>
    /\ boxes = [expanded |-> {}, muted |-> <<>>, stripped |-> <<>>, out |-> <<>>]

PromptNext == Agents \/ _apply_cascade \/ _inject_skills \/ Toolboxes \/ Pass \/ Render \/ Unavailable
        \/ _emit_preprocessed

-----------------------------------------------------------------------------
(* Properties.                                                             *)

PromptTypeOK ==
    /\ stage \in {"agents", "variables", "skills", "toolboxes", "render", "done", "failed"}
    /\ rendered \in 0 .. Len(messages) /\ Len(messages) - Len(input.messages) \in {0, 1}

CardWords(a) == {t \in ToSet(Cards[a].body) : ~IsRef(t)}

\* However messages and cards mention one another, with the gate no two cards speak, and
\* a muted card has not spoken.
OneCardSpeaks ==
    input.single_agent_gate => \A a \in DOMAIN Cards \ {expanded}, i \in DOMAIN messages :
        CardWords(a) \cap ToSet(messages[i].content) = {}

BoxRefs(m) == SelectSeq(m.content, LAMBDA t : t.ns = "toolbox")

\* What goes to the engine mentions a toolbox once at most, in all messages together, and
\* none that is not privileged does, whatever cards, variables and skills brought in.
ToolboxOnce ==
    before # <<>> =>
        /\ IsInjective(Concat([i \in DOMAIN before |-> BoxRefs(before[i])]))
        /\ \A i \in DOMAIN before : ~_is_privileged(before[i]) => BoxRefs(before[i]) = <<>>

OnePass(text) ==
    Concat([i \in DOMAIN text |-> LET v == IF IsRef(text[i]) THEN resolve_once(text[i]) ELSE None
                                  IN IF v \in {None, Failed} THEN <<text[i]>> ELSE v])
Passes(text, n) == FoldLeft(LAMBDA acc, i : OnePass(acc), text, [i \in 1 .. n |-> i])

\* A message that was rendered is what replacing every reference at once, again and again,
\* comes to: nothing is left that could be resolved, nothing else changed, and a key that
\* is met twice is not taken for a cycle.
RenderedFully ==
    stage \in {"render", "done"} => \A i \in 1 .. rendered :
        IF ~_is_privileged(before[i]) THEN messages[i] = before[i]
        ELSE /\ messages[i].content = Passes(before[i].content, MaxDepth + 1)
             /\ MaxDepth > 0 => \A t \in Refs(messages[i].content) : resolve_once(t) = None

\* Rendering fails only when replacing would never end, is not done at the depth that is
\* allowed, or meets a resolver that fails.
FailsForAReason ==
    LET m == messages[rendered + 1]
        Left(n) == {resolve_once(t) : t \in Refs(Passes(m.content, n))} \ {None} IN
    (stage = "render" /\ rendered < Len(messages) /\ _is_privileged(m)) =>
        LET error == render_inner[m.content, {}, 0].error IN
        /\ error = "cycle"    => Left(2 * MaxDepth + 2) # {}
        /\ error = "depth"    => Left(MaxDepth) # {}
        /\ error = "resolver" => \E n \in 0 .. MaxDepth : Failed \in Left(n)

\* The caller is told of every reference a privileged message is left with.
LeftoversAreReported ==
    stage = "done" => \A i \in DOMAIN messages :
        _is_privileged(before[i]) => Refs(messages[i].content) \subseteq unresolved

-----------------------------------------------------------------------------
(***************************************************************************)
(* The variables of prompts (corlinman-agent, variables/): a cascade of    *)
(* fixed resolvers, Tar, Sar and Var keys, whose texts come from files     *)
(* that a loader reads once, and the hot-reload watcher that compares the  *)
(* files' times once a second and evicts what changed.                     *)
(***************************************************************************)
CONSTANTS
    Stems,          \* of files in the three directories
    Texts,
    FixedKeys, TarKeys, SarKeys, VarKeys,   \* what a key looks like
    Stem,           \* key -> the stem it is read from
    Environment,    \* keys of VarKeys that are set, to the stem they name
    Allowed,        \* [key |-> models] of SarKeys whose gate is set
    MaxVersions

VARIABLES
    files,          \* stem -> None or [text, mtime]
    cache,          \* DirLoader._cache
    snapshot,       \* HotReloadWatcher._snapshots
    watching,
    mtime,          \* the file system's clock
    slipped         \* edited after they were loaded and before they were in a snapshot (history)

cascadeVars == <<files, cache, snapshot, watching, mtime, slipped>>

FileInit ==
    /\ files = [s \in Stems |-> None]
    /\ cache = [s \in Stems |-> None] /\ snapshot = [s \in Stems |-> None]
    /\ watching = FALSE /\ mtime = 0 /\ slipped = {}

-----------------------------------------------------------------------------
(* The operator edits the directory.                                       *)

Unseen(s) == ~watching \/ snapshot[s] = None

Changes(s) == slipped' = IF cache[s] # None /\ Unseen(s) THEN slipped \cup {s} ELSE slipped

EditFile(s, text) ==
    /\ mtime < MaxVersions
    /\ mtime' = mtime + 1
    /\ files' = [files EXCEPT ![s] = [text |-> text, mtime |-> mtime']]
    /\ Changes(s)
    /\ UNCHANGED <<cache, snapshot, watching>>

RemoveFile(s) ==
    /\ files[s] # None
    /\ files' = [files EXCEPT ![s] = None]
    /\ Changes(s)
    /\ UNCHANGED <<cache, snapshot, watching, mtime>>

-----------------------------------------------------------------------------
(* DirLoader and the cascade.                                              *)

Found(s) == IF cache[s] # None THEN cache[s] ELSE IF files[s] # None THEN files[s].text ELSE None

\* A miss is not remembered.
load(s) ==
    /\ cache' = [cache EXCEPT ![s] = Found(s)]
    /\ slipped' = IF cache[s] = None THEN slipped \ {s} ELSE slipped

\* The tiers in their order, each key in the first that fits; "" is what a Sar key whose gate
\* is shut, or whose file is missing, stands for.
resolved(key, model) ==
    CASE key \in FixedKeys -> "now"
      [] key \in TarKeys \ FixedKeys -> Found(Stem[key])
      [] key \in SarKeys \ (TarKeys \cup FixedKeys) ->
            IF key \in DOMAIN Allowed /\ model \in Allowed[key] /\ Found(Stem[key]) # None
            THEN Found(Stem[key]) ELSE ""
      [] key \in VarKeys \ (SarKeys \cup TarKeys \cup FixedKeys) ->
            IF key \notin Environment THEN None
            ELSE IF Found(Stem[key]) # None THEN Found(Stem[key]) ELSE "env"
      [] OTHER -> None

\* Which file the cascade reads for a key.
Reads(key, model) ==
    /\ key \notin FixedKeys
    /\ \/ key \in TarKeys
       \/ key \in SarKeys /\ key \in DOMAIN Allowed /\ model \in Allowed[key]
       \/ key \in VarKeys /\ key \in Environment

resolve(key, model) ==
    /\ Reads(key, model)
    /\ load(Stem[key])
    /\ UNCHANGED <<files, snapshot, watching, mtime>>

-----------------------------------------------------------------------------
(* HotReloadWatcher.                                                       *)

snapshot_mtimes == [s \in Stems |-> IF files[s] = None THEN None ELSE files[s].mtime]

Changed(s) == snapshot[s] # None /\ snapshot_mtimes[s] # snapshot[s]

\* What was loaded before the watch begins is not evicted by it, nor what changed since
\* the last tick of the watch before.
start_watching ==
    /\ ~watching
    /\ watching' = TRUE /\ snapshot' = snapshot_mtimes
    /\ slipped' = slipped \cup {s \in Stems : cache[s] # None /\ Changed(s)}
    /\ UNCHANGED <<files, cache, mtime>>

stop_watching ==
    /\ watching
    /\ watching' = FALSE
    /\ UNCHANGED <<files, cache, snapshot, mtime, slipped>>

_tick ==
    /\ watching
    /\ cache' = [s \in Stems |-> IF Changed(s) THEN None ELSE cache[s]]
    /\ slipped' = {s \in slipped : ~Changed(s)}
    /\ snapshot' = snapshot_mtimes
    /\ UNCHANGED <<files, watching, mtime>>

Models == UNION {Allowed[k] : k \in DOMAIN Allowed} \cup {None}
Keys == FixedKeys \cup TarKeys \cup SarKeys \cup VarKeys

FileNext ==
    \/ \E s \in Stems : (\E t \in Texts : EditFile(s, t)) \/ RemoveFile(s)
    \/ \E k \in Keys, m \in Models : resolve(k, m)
    \/ start_watching \/ stop_watching \/ _tick

-----------------------------------------------------------------------------
(* Properties.                                                             *)

FileTypeOK ==
    /\ \A s \in Stems : cache[s] \in Texts \cup {None}
    /\ slipped \subseteq {s \in Stems : cache[s] # None}

\* While the watch runs, a key is served what its file says, if the file did not change
\* since the last tick; except when it was edited after it was loaded and before it was in
\* a snapshot: that copy is served until it is edited again.  A gate that is shut gives
\* nothing, whatever is cached (hot_reload.py, cascade.py).
ServesTheFile ==
    /\ watching => \A s \in Stems \ slipped : cache[s] # None =>
          Changed(s) \/ (files[s] # None /\ cache[s] = files[s].text)
    /\ \A k \in SarKeys \ (FixedKeys \cup TarKeys), m \in Models :
          resolved(k, m) # "" => k \in DOMAIN Allowed /\ m \in Allowed[k]

-----------------------------------------------------------------------------
(* Both.                                                                  *)

Init == PromptInit /\ FileInit
Next == (PromptNext /\ UNCHANGED cascadeVars) \/ (FileNext /\ UNCHANGED promptVars)
Spec == Init /\ [][Next]_<<promptVars, cascadeVars>>

TypeOK == PromptTypeOK /\ FileTypeOK
=============================================================================
