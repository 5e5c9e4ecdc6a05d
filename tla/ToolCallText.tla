---------------------------- MODULE ToolCallText ----------------------------
(***************************************************************************)
(* Tool calls in the text a model writes (corlinman-plugins, protocol/):   *)
(* envelopes of keys and values, the block protocol, and JSON in a fence,  *)
(* the function-call one; a text may hold both, one inside another, or     *)
(* break off anywhere, and the dispatcher makes one list of outcomes of    *)
(* it.  A text is a sequence of lexemes: the four marks, a key with its    *)
(* opening quote, a closing quote, a word, and a JSON payload, whose own   *)
(* text holds no mark.                                                     *)
(***************************************************************************)
EXTENDS Integers, Sequences, SequencesExt, FiniteSetsExt, Functions

CONSTANTS
    Pieces,     \* of which a text is written: sequences of lexemes
    Policies,   \* ProtocolPolicy: [block_enabled, fallback_to_function_call, preference_order]
    Tools,      \* name -> [protocols, types], what a PluginRegistryView resolves
    MaxPieces,
    Nil

VARIABLES
    text,
    policy,
    outcomes,   \* what dispatch makes of the text
    pieces      \* bound: of which the text is made

textVars == <<text, policy, outcomes, pieces>>

Mark(t) == [t |-> t]

\* The first place from i at which a lexeme of a kind is, or 0.
Find(s, i, kind) ==
    LET places == {j \in i .. Len(s) : s[j].t = kind} IN IF places = {} THEN 0 ELSE Min(places)

-----------------------------------------------------------------------------
(* block.rs                                                                *)

\* The keys and values of an envelope, up to what is neither.  A value goes on to the next
\* closing quote, whatever is in between.
Entries(body) ==
    LET from[i \in 1 .. Len(body) + 1] ==
            IF i > Len(body) \/ body[i].t # "key" THEN <<>>
            ELSE LET end == Find(body, i + 1, "end") IN
                 IF end = 0 THEN <<[key |-> body[i].of, value |-> Nil]>>
                 ELSE <<[key |-> body[i].of, value |-> SubSeq(body, i + 1, end - 1)]>> \o from[end + 1] IN
    from[1]

\* The last value of a key counts.
CallOf(entries) ==
    LET keys == {entries[n].key : n \in DOMAIN entries}
        value == [k \in keys |-> entries[Max({n \in DOMAIN entries : entries[n].key = k})].value] IN
    IF \E n \in DOMAIN entries : entries[n].value = Nil THEN [error |-> "unterminated argument"]
    ELSE IF "tool_name" \notin keys THEN [error |-> "missing tool name"]
    ELSE [error |-> Nil, name |-> value["tool_name"], args |-> Restrict(value, keys \ {"tool_name"})]

parse_body(body) == CallOf(Entries(body))

\* One after another; an envelope that does not end is the last.
parse_all(s) ==
    LET from[i \in 1 .. Len(s) + 1] ==
            LET open == Find(s, i, "open")
                close == IF open = 0 THEN 0 ELSE Find(s, open + 1, "close") IN
            IF open = 0 THEN <<>>
            ELSE IF close = 0 THEN <<[error |-> "unterminated envelope"]>>
            ELSE <<parse_body(SubSeq(s, open + 1, close - 1)) @@ [span |-> <<open, close + 1>>]>> \o from[close + 1] IN
    from[1]

\* What a value of a type has to be; a type nobody knows is a string.
Coerces(type, value) ==
    CASE type = "integer" -> value = <<[t |-> "word", of |-> "1"]>>
      [] type = "object"  -> Len(value) = 1 /\ value[1].t = "json"
      [] OTHER            -> TRUE

coerce_args(args, types) ==
    \A k \in DOMAIN args : k \in DOMAIN types => Coerces(types[k], args[k])

-----------------------------------------------------------------------------
(* dispatcher.rs                                                           *)

Outcome(call, origin) == [call |-> call, origin |-> origin]
Refused(why, origin) == Outcome([error |-> why], origin)
DispatchedCall(protocol, tool, span) == Outcome([error |-> Nil, protocol |-> protocol, tool |-> tool, span |-> span], span)

\* Arguments are coerced before the protocols are compared.
resolve_block_call(c, p) ==
    LET name == IF Len(c.name) = 1 /\ c.name[1].t = "word" THEN c.name[1].of ELSE Nil IN
    IF name \notin DOMAIN Tools THEN Refused("unknown tool", c.span)
    ELSE IF ~coerce_args(c.args, Tools[name].types) THEN Refused("coercion", c.span)
    ELSE IF "block" \in Tools[name].protocols THEN DispatchedCall("block", name, c.span)
    ELSE IF p.fallback_to_function_call /\ "openai_function" \in Tools[name].protocols
    THEN DispatchedCall("openai_function", name, c.span)
    ELSE Refused("not advertised", c.span)

dispatch_blocks(found, p) ==
    [n \in DOMAIN found |->
        IF found[n].error = Nil THEN resolve_block_call(found[n], p) ELSE Refused(found[n].error, Nil)]

resolve_function_call(name, origin) ==
    IF name \notin DOMAIN Tools THEN Refused("unknown tool", origin)
    ELSE IF "openai_function" \notin Tools[name].protocols THEN Refused("not advertised", origin)
    ELSE DispatchedCall("openai_function", name, origin)

\* A fence holds one payload and nothing else.
Fenced(s, open, close) ==
    IF close = open + 2 /\ s[open + 1].t = "json" THEN resolve_function_call(s[open + 1].of, <<open, close + 1>>)
    ELSE Refused("bad payload", <<open, close + 1>>)

\* Without a fence the whole text may be a payload.
dispatch_function_calls_from_text(s) ==
    LET from[i \in 1 .. Len(s) + 1] ==
            LET open == Find(s, i, "fence")
                close == IF open = 0 THEN 0 ELSE Find(s, open + 1, "unfence") IN
            IF open = 0 THEN <<>>
            ELSE IF close = 0 THEN <<Refused("unterminated fence", <<open, Len(s) + 1>>)>>
            ELSE <<Fenced(s, open, close)>> \o from[close + 1] IN
    IF from[1] = <<>> /\ Len(s) = 1 /\ s[1].t = "json" THEN <<resolve_function_call(s[1].of, Nil)>>
    ELSE from[1]

By(protocol, s, p) ==
    CASE protocol = "block" -> IF p.block_enabled THEN dispatch_blocks(parse_all(s), p) ELSE <<>>
      [] protocol = "openai_function" -> dispatch_function_calls_from_text(s)
      [] OTHER -> <<>>

spans_overlap(a, b) == a[1] < b[2] /\ b[1] < a[2]

IsCall(o) == o.call.error = Nil
Spans(some) == {o.call.span : o \in {q \in Range(some) : IsCall(q)}} \ {Nil}

\* Calls claim their text in the order of preference; what was claimed is dropped.
Claim(all) ==
    LET Keep(kept, o) ==
            IF IsCall(o) /\ o.call.span # Nil /\ \E c \in Spans(kept) : spans_overlap(c, o.call.span)
            THEN kept ELSE Append(kept, o) IN
    FoldLeft(Keep, <<>>, all)

\* Outcomes without a place come last.
InOrder(kept, end) ==
    LET Key(n) == IF kept[n].origin = Nil THEN end ELSE kept[n].origin[1]
        order == SetToSortSeq(DOMAIN kept, LAMBDA m, n : Key(m) < Key(n) \/ (Key(m) = Key(n) /\ m < n)) IN
    [n \in DOMAIN kept |-> kept[order[n]]]

merge_by_preference(found, end) == InOrder(Claim(FlattenSeq(found)), end)

dispatch(s, p) ==
    merge_by_preference([n \in DOMAIN p.preference_order |-> By(p.preference_order[n], s, p)], Len(s) + 1)

-----------------------------------------------------------------------------

Init == text = <<>> /\ policy \in Policies /\ outcomes = <<>> /\ pieces = 0

\* The model goes on writing.
Write(piece) ==
    /\ pieces < MaxPieces /\ pieces' = pieces + 1
    /\ text' = text \o piece
    /\ outcomes' = dispatch(text', policy)
    /\ UNCHANGED policy

Next == \E piece \in Pieces : Write(piece)

Spec == Init /\ [][Next]_textVars

-----------------------------------------------------------------------------
(* Properties.                                                             *)

TypeOK == \A o \in Range(outcomes) : IsCall(o) => o.call.tool \in DOMAIN Tools

\* Where a construct between two marks stands: its opening mark is not inside another of
\* its kind, and its closing mark is the first after it.
Constructs(open, close) ==
    LET Closes(i, j) ==
            /\ i < j /\ text[i].t = open /\ text[j].t = close
            /\ \A m \in i + 1 .. j - 1 : text[m].t # close
            /\ \A h \in 1 .. i - 1 : text[h].t = open => \E m \in h .. i : text[m].t = close IN
    {<<p[1], p[2] + 1>> : p \in {q \in (DOMAIN text) \X (DOMAIN text) : Closes(q[1], q[2])}}

Places(span) == span[1] .. span[2] - 1

\* No part of a text is two calls, and outcomes come in the order of the text; every call
\* is a whole envelope or fence of it for a tool that advertises the protocol it goes by,
\* and a block goes as a function call by the policy only (dispatch).
CallsAreApart ==
    LET placed == {n \in DOMAIN outcomes : outcomes[n].origin # Nil}
        claimed == {n \in DOMAIN outcomes : IsCall(outcomes[n]) /\ outcomes[n].call.span # Nil} IN
    /\ \A m, n \in placed : m < n => outcomes[m].origin[1] <= outcomes[n].origin[1]
    /\ \A m, n \in claimed : m # n => Places(outcomes[m].call.span) \cap Places(outcomes[n].call.span) = {}
    /\ \A n \in claimed :
        LET c == outcomes[n].call IN
        /\ c.protocol \in Tools[c.tool].protocols
        /\ \/ c.span \in Constructs("fence", "unfence") /\ c.protocol = "openai_function"
           \/ /\ c.span \in Constructs("open", "close") /\ policy.block_enabled
              /\ c.protocol = "block" \/ policy.fallback_to_function_call

WholeBlock(i, name) == SubSeq(text, i + 1, i + 3) = 
        <<[t |-> "key", of |-> "tool_name"], [t |-> "word", of |-> name], Mark("end")>>

\* A whole envelope that names a tool of the block protocol, with no other keys, and a whole
\* fence around one payload are called, or another call claims their text; and a part that
\* is broken takes nothing that is whole before it (parse_all, merge_by_preference).
NothingWholeIsLost ==
    LET Claimed(span) == \E c \in Spans(outcomes) : Places(c) \cap Places(span) # {} IN
    /\ policy.block_enabled =>
        \A p \in Constructs("open", "close") : \A name \in DOMAIN Tools :
            "block" \in Tools[name].protocols /\ p[2] = p[1] + 5 /\ WholeBlock(p[1], name) => Claimed(p)
    /\ \A p \in Constructs("fence", "unfence") :
            /\ p[2] = p[1] + 3 /\ text[p[1] + 1].t = "json"
            /\ \E name \in DOMAIN Tools :
                text[p[1] + 1].of = name /\ "openai_function" \in Tools[name].protocols
            => Claimed(p)
=============================================================================
