---- MODULE AdminConfig ----
(***************************************************************************)
(* The admin handlers of [providers], [models.aliases] and [embedding]: a  *)
(* request clones the live configuration, checks and changes the clone,    *)
(* writes config.toml, swaps the clone in and rewrites py-config.json,     *)
(* which the Python server reads again whenever its mtime has moved.  That *)
(* config.toml has a temporary of its own is ConfigStore's subject; here   *)
(* writing it is one step, and the temporary of py-config.json is shared.  *)
(***************************************************************************)
EXTENDS Naturals

CONSTANTS MaxRequests,  \* bound: requests, which may overlap
          Slots,        \* the provider names ProvidersConfig has a field for
          Custom,       \* a provider name it has no field for
          Names,        \* aliases
          Absent

VARIABLES live,         \* AdminState::config
          disk,         \* config.toml
          request,      \* one record per handler
          pyFile,       \* py-config.json: [mtime, content]
          pyTmp,        \* py-config.json.new, or Absent
          clock,        \* mtimes handed out
          poll,         \* an mtime Python has read and not loaded yet
          loaded,       \* what Python's registry was built from: [mtime, content]
          overlapped,   \* two requests were ever open at once
          failed,       \* a py-config rewrite was ever lost
          careless      \* an alias was ever put for an undeclared provider

\* Requests are numbered in the order they are accepted.
Handlers == 1 .. MaxRequests

pyVars == <<pyFile, pyTmp, clock>>
pythonVars == <<poll, loaded>>
ghostVars == <<overlapped, failed, careless>>
vars == <<live, disk, request, pyVars, pythonVars, ghostVars>>

\* A slot is absent, switched off or on; an alias is absent, a shorthand (no
\* provider) or the provider it names; [embedding] names a provider.
Switch == {"off", "on"}
Configs == [providers : [Slots -> Switch \cup {Absent}],
            aliases : [Names -> {Absent, "shorthand"} \cup Slots \cup {Custom}],
            embedding : Slots \cup {Absent}]

Declared(cfg, p) == p \in Slots /\ cfg.providers[p] # Absent

Upserts == [op : {"upsert"}, provider : Slots \cup {Custom}, switch : Switch]
Patches == [op : {"patch"}, provider : Slots, switch : Switch]
Deletes == [op : {"delete"}, provider : Slots]
AliasPuts == [op : {"alias"}, name : Names, to : {"shorthand"} \cup Slots \cup {Custom}]
AliasDrops == [op : {"unalias"}, name : Names]
Bulks == [op : {"bulk"}, names : SUBSET Names]
Embeddings == [op : {"embed"}, provider : Slots]
Changes == Upserts \cup Patches \cup Deletes \cup AliasPuts \cup AliasDrops \cup Bulks \cup Embeddings

detect_references(cfg, p) == cfg.embedding = p \/ \E n \in Names : cfg.aliases[n] = p

\* What a handler refuses before it writes anything.
Accepted(e, cfg) ==
    CASE e.op \in {"patch", "embed"} -> Declared(cfg, e.provider)
      [] e.op = "delete"  -> Declared(cfg, e.provider) /\ ~detect_references(cfg, e.provider)
      [] e.op = "unalias" -> cfg.aliases[e.name] # Absent
      [] OTHER            -> TRUE

\* place_provider drops a name it has no field for.
Changed(e, cfg) ==
    CASE e.op \in {"upsert", "patch"} /\ e.provider \in Slots ->
             [cfg EXCEPT !.providers[e.provider] = e.switch]
      [] e.op = "upsert" /\ e.provider = Custom -> cfg
      [] e.op = "delete"  -> [cfg EXCEPT !.providers[e.provider] = Absent]
      [] e.op = "alias"   -> [cfg EXCEPT !.aliases[e.name] = e.to]
      [] e.op = "unalias" -> [cfg EXCEPT !.aliases[e.name] = Absent]
      [] e.op = "bulk"    -> [cfg EXCEPT !.aliases = [n \in Names |-> IF n \in e.names THEN "shorthand" ELSE Absent]]
      [] e.op = "embed"   -> [cfg EXCEPT !.embedding = e.provider]

\* Mutant: the change is made to what is live when the file is written.
Clone_late(h) == live

\* The clone a request changes: what was live when it was checked.
Clone(h) == request[h].read

\* Python gets the providers and the aliases that name one.
render_py_config(cfg) ==
    [providers |-> cfg.providers,
     aliases |-> [n \in Names |-> IF cfg.aliases[n] = "shorthand" THEN Absent ELSE cfg.aliases[n]],
     embedding |-> cfg.embedding]

Nothing == [providers |-> [p \in Slots |-> Absent], aliases |-> [n \in Names |-> Absent], embedding |-> Absent]
_load_config(content) == IF content = Absent THEN Nothing ELSE content

Idle == [at |-> "idle", edit |-> Absent, read |-> Absent, fd |-> Absent]

\* The gateway has written both files at boot.
Init ==
    /\ \E cfg \in Configs :
          /\ \A n \in Names : cfg.aliases[n] \in Slots => Declared(cfg, cfg.aliases[n])
          /\ \A n \in Names : cfg.aliases[n] # Custom
          /\ cfg.embedding # Absent => Declared(cfg, cfg.embedding)
          /\ live = cfg /\ disk = cfg
          /\ pyFile = [mtime |-> 1, content |-> render_py_config(cfg)]
    /\ request = [h \in Handlers |-> Idle]
    /\ pyTmp = Absent /\ clock = 1 /\ poll = Absent
    /\ loaded = [mtime |-> 0, content |-> Nothing]
    /\ overlapped = FALSE /\ failed = FALSE /\ careless = FALSE

Answered == [Idle EXCEPT !.at = "answered"]

\* The body is checked against the live configuration, which is cloned.
Accept(h, e) ==
    /\ request[h].at = "idle" /\ \A g \in 1 .. h - 1 : request[g].at # "idle"
    /\ Accepted(e, live)
    /\ request' = [request EXCEPT ![h] = [at |-> "ready", edit |-> e, read |-> live, fd |-> Absent]]
    /\ overlapped' = (overlapped \/ \E g \in Handlers : request[g].at \notin {"idle", "answered"})
    /\ careless' = (careless \/ (e.op = "alias" /\ e.to \notin {"shorthand"} /\ ~Declared(live, e.to)))
    /\ UNCHANGED <<live, disk, pyVars, pythonVars, failed>>

WriteConfig(h) ==
    /\ request[h].at = "ready"
    /\ disk' = Changed(request[h].edit, Clone(h))
    /\ request' = [request EXCEPT ![h] = [@ EXCEPT !.at = "written", !.edit = Absent, !.read = disk']]
    /\ UNCHANGED <<live, pyVars, pythonVars, ghostVars>>

\* 500 write_failed: nothing is swapped in.
WriteFails(h) ==
    /\ request[h].at = "ready"
    /\ request' = [request EXCEPT ![h] = Answered]
    /\ UNCHANGED <<live, disk, pyVars, pythonVars, ghostVars>>

\* The swap; rewrite_py_config then loads what is live and starts its file.
Store(h) ==
    /\ request[h].at = "written"
    /\ live' = request[h].read
    /\ request' = [request EXCEPT ![h].at = "stored", ![h].read = Absent]
    /\ UNCHANGED <<disk, pyVars, pythonVars, ghostVars>>

\* fs::write opens the temporary and truncates it, whoever made it: what is
\* half written is Absent to a reader, who cannot parse it.
Truncate(h) ==
    /\ request[h].at = "stored"
    /\ request' = [request EXCEPT ![h].at = "writing", ![h].read = live, ![h].fd = "tmp"]
    /\ clock' = clock + 1
    /\ pyTmp' = [mtime |-> clock + 1, content |-> Absent]
    /\ UNCHANGED <<live, disk, pyFile, pythonVars, ghostVars>>

\* It writes to the inode it has opened, which may have been renamed since.
Fill(h) ==
    /\ request[h].at = "writing"
    /\ clock' = clock + 1
    /\ LET text == [mtime |-> clock + 1, content |-> render_py_config(request[h].read)] IN
       /\ pyTmp' = IF request[h].fd = "tmp" THEN text ELSE pyTmp
       /\ pyFile' = IF request[h].fd = "file" THEN text ELSE pyFile
    /\ request' = [request EXCEPT ![h].at = "filled", ![h].read = Absent]
    /\ UNCHANGED <<live, disk, pythonVars, ghostVars>>

\* The name moves; a descriptor of the temporary is now one of the file.
Rename(h) ==
    /\ request[h].at = "filled" /\ pyTmp # Absent
    /\ pyFile' = pyTmp /\ pyTmp' = Absent
    /\ request' = [g \in Handlers |->
         IF g = h THEN Answered
         ELSE [request[g] EXCEPT !.fd = CASE @ = "tmp" -> "file" [] @ = "file" -> "gone" [] OTHER -> @]]
    /\ UNCHANGED <<live, disk, clock, pythonVars, ghostVars>>

\* Logged and forgotten: another rewrite renamed the temporary, or I/O failed.
RewriteFails(h) ==
    /\ request[h].at \in {"stored", "writing", "filled"}
    /\ request' = [request EXCEPT ![h] = Answered]
    /\ failed' = TRUE
    /\ UNCHANGED <<live, disk, pyVars, pythonVars, overlapped, careless>>

\* _reload_if_changed: stat first, then read.
Stat ==
    /\ poll = Absent /\ pyFile.mtime # loaded.mtime
    /\ poll' = pyFile.mtime
    /\ UNCHANGED <<live, disk, request, pyVars, loaded, ghostVars>>

LoadConfig ==
    /\ poll # Absent
    /\ loaded' = [mtime |-> poll, content |-> _load_config(pyFile.content)]
    /\ poll' = Absent
    /\ UNCHANGED <<live, disk, request, pyVars, ghostVars>>

\* ProviderRegistry.resolve of an alias: its provider, or a KeyError.
Resolve(n) ==
    LET p == loaded.content.aliases[n] IN
    IF p \in Slots /\ loaded.content.providers[p] = "on" THEN p ELSE "KeyError"

Next ==
    \/ \E h \in Handlers :
          \/ \E e \in Changes : Accept(h, e)
          \/ WriteConfig(h) \/ WriteFails(h) \/ Store(h)
          \/ Truncate(h) \/ Fill(h) \/ Rename(h) \/ RewriteFails(h)
    \/ Stat \/ LoadConfig

Spec == Init /\ [][Next]_vars

TypeOK ==
    /\ live.aliases \in [Names -> {Absent, "shorthand"} \cup Slots \cup {Custom}]
    /\ live.providers \in [Slots -> Switch \cup {Absent}]
    /\ \A h \in Handlers : request[h].fd \in {Absent, "tmp", "file", "gone"}
    /\ pyFile.mtime \in 1 .. clock /\ loaded.mtime \in 0 .. clock

\* However requests overlap, a configuration that is live, on disk or with
\* Python never names an embedding provider it does not declare, nor, unless
\* somebody put one, an alias of an undeclared provider: the check and the
\* change are made on one clone, and clones are swapped whole.
ReferencesAreDeclared ==
    \A cfg \in {live, disk, loaded.content} :
        /\ cfg.embedding # Absent => Declared(cfg, cfg.embedding)
        /\ careless \/ \A n \in Names :
              cfg.aliases[n] \in {Absent, "shorthand"} \/ Declared(cfg, cfg.aliases[n])

Quiet == \A h \in Handlers : request[h].at \in {"idle", "answered"}

\* When requests took turns and nothing failed, the two files say what is live.
FilesAgree ==
    Quiet /\ ~overlapped /\ ~failed => pyFile.content = render_py_config(live)

\* A registry whose mtime is the file's was built from what the file says.
LoadedIsCurrent ==
    poll = Absent /\ loaded.mtime = pyFile.mtime => loaded.content = _load_config(pyFile.content)

\* Then an alias of a provider that is switched on resolves to it.
AliasesResolve ==
    Quiet /\ ~overlapped /\ ~failed /\ poll = Absent /\ loaded.mtime = pyFile.mtime
    => \A n \in Names : live.aliases[n] \in Slots
          => Resolve(n) = IF live.providers[live.aliases[n]] = "on" THEN live.aliases[n] ELSE "KeyError"
====
