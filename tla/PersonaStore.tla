---------------------------- MODULE PersonaStore -----------------------------
(***************************************************************************)
(* One agent's row of agent_persona_state and who writes it: turns that    *)
(* move its mood, fatigue and topics, the scheduled decay-once, the seeder *)
(* and the operator's reset.  Every statement commits on its own; what a   *)
(* writer puts in, the row or the time of its stamp, it has read before,   *)
(* each in a step of its own and in the order of the code.  The clock never*)
(* goes back.                                                              *)
(***************************************************************************)
EXTENDS Integers, Sequences, Functions, SequencesExt, FiniteSetsExt

CONSTANTS Writers, Topics, Null,
          MaxFatigue,       \* 1.0, in units of what an hour recovers
          Tired,            \* tired_to_neutral_below, in these units
          Day,              \* hours
          RECENT_TOPICS_CAP,
          MaxHours, MaxWrites

Moods == {"neutral", "tired"}

VARIABLES row,          \* the row, or Null
          now,
          at,           \* where each writer is
          read,         \* the row it read, the clock it read, and the ideal then (history)
          stale,        \* the writers under whom the row was written since they began to read
          writes,       \* bound: statements so far
          ideal,        \* fatigue if every hour were recovered as it passes (history)
          overlapped,   \* a statement wrote what another had overtaken
          resurrected   \* a reset row was written back

rowVars == <<row, now, writes, ideal>>
writerVars == <<at, read, stale>>
ghostVars == <<overlapped, resurrected>>
personaVars == <<rowVars, writerVars, ghostVars>>

Clamp(f) == IF f < 0 THEN 0 ELSE IF f > MaxFatigue THEN MaxFatigue ELSE f

\* What a sequence has at some places, in order.
Kept(seq, places) ==
    [n \in 1 .. Cardinality(places) |->
        seq[CHOOSE i \in places : Cardinality({j \in places : j <= i}) = n]]

\* The last occurrence of each topic, and the newest of these.
_dedup_cap(topics) ==
    LET last == {i \in DOMAIN topics : \A j \in i + 1 .. Len(topics) : topics[j] # topics[i]}
    IN  Kept(topics, {i \in last : Cardinality({j \in last : j >= i}) <= RECENT_TOPICS_CAP})

apply_decay(s, hours) ==
    LET fatigue == Clamp(s.fatigue - hours) IN
    IF hours <= 0 THEN s ELSE
    [s EXCEPT !.fatigue = fatigue,
              !.mood = IF @ = "tired" /\ fatigue < Tired THEN "neutral" ELSE @,
              !.topics = SubSeq(@, (hours \div Day) + 1, Len(@))]

Card == [mood |-> "neutral", fatigue |-> 0, topics |-> <<>>]

\* What writer w puts in is stamped with the clock it read.
Stamped(w, s) ==
    [mood |-> s.mood, fatigue |-> s.fatigue, topics |-> s.topics, updated |-> read[w].when]

PersonaInit ==
    /\ row = Null /\ now = 0 /\ writes = 0 /\ ideal = 0
    /\ at = [w \in Writers |-> "idle"] /\ read = [w \in Writers |-> Null]
    /\ stale = {} /\ overlapped = FALSE /\ resurrected = FALSE

Writes ==
    /\ writes < MaxWrites /\ writes' = writes + 1
    /\ stale' = {w \in Writers : at'[w] # "idle"}

\* The clock, and what an hour does to the ideal.
Tick ==
    /\ now < MaxHours /\ now' = now + 1
    /\ ideal' = Clamp(ideal - 1)
    /\ UNCHANGED <<row, writes, writerVars, ghostVars>>

Begins(w, what, seen) ==
    /\ at[w] = "idle" /\ at' = [at EXCEPT ![w] = what]
    /\ read' = [read EXCEPT ![w] = [row |-> seen, when |-> now, base |-> ideal]]
    /\ stale' = stale \ {w}
    /\ UNCHANGED <<rowVars, ghostVars>>

\* update_mood, update_fatigue and decay-once read the clock before anything else.
Clock(w, what) == Begins(w, what, Null)

\* push_recent_topic and the seeder read the row first: one needs it, the other does not.
Get(w, what) == (row = Null) = (what = "absent") /\ Begins(w, what, row)

\* Then these two read the clock, for the statement that writes.
Stamp(w) ==
    /\ at[w] \in {"topics", "absent"}
    /\ at' = [at EXCEPT ![w] = IF @ = "topics" THEN "pushing" ELSE "seeding"]
    /\ read' = [read EXCEPT ![w].when = now]
    /\ UNCHANGED <<rowVars, stale, ghostVars>>

\* decay-once has its clock when it opens the store and lists the rows.
list_all(w) ==
    /\ at[w] = "sweeping"
    /\ at' = [at EXCEPT ![w] = IF row = Null THEN "idle" ELSE "decaying"]
    /\ read' = [read EXCEPT ![w] = IF row = Null THEN Null ELSE [@ EXCEPT !.row = row]]
    /\ UNCHANGED <<rowVars, stale, ghostVars>>

Ends(w) ==
    /\ at' = [at EXCEPT ![w] = "idle"] /\ read' = [read EXCEPT ![w] = Null]
    /\ overlapped' = (overlapped \/ w \in stale)

\* UPDATE: nothing happens if there is no row.
update_mood(w, mood) ==
    /\ at[w] = "mood" /\ Ends(w) /\ Writes
    /\ row' = IF row = Null THEN Null ELSE Stamped(w, [row EXCEPT !.mood = mood])
    /\ UNCHANGED <<now, ideal, resurrected>>

\* For the ideal the change counts from the time it is stamped with.
update_fatigue(w, delta) ==
    /\ at[w] = "fatigue" /\ Ends(w) /\ Writes
    /\ row' = IF row = Null THEN Null
              ELSE Stamped(w, [row EXCEPT !.fatigue = Clamp(@ + delta)])
    /\ ideal' = IF row = Null THEN ideal
                ELSE Clamp(Clamp(read[w].base + delta) - (now - read[w].when))
    /\ UNCHANGED <<now, resurrected>>

\* The list that was read goes back with one topic more, into whatever row there is.
push_recent_topic(w, topic) ==
    /\ at[w] = "pushing" /\ Ends(w) /\ Writes
    /\ row' = IF row = Null THEN Null
              ELSE Stamped(w, [row EXCEPT !.topics = _dedup_cap(Append(read[w].row.topics, topic))])
    /\ UNCHANGED <<now, ideal, resurrected>>

\* INSERT .. ON CONFLICT: the whole row is written back, whatever it is now, and with the
\* clock of the sweep, which may be older than the stamp of the row that was listed.
_run_decay(w) ==
    /\ at[w] = "decaying" /\ Ends(w) /\ Writes
    /\ LET s == read[w].row
           hours == IF read[w].when > s.updated THEN read[w].when - s.updated ELSE 0 IN
       row' = Stamped(w, apply_decay(s, hours))
    /\ resurrected' = (resurrected \/ row = Null)
    /\ ideal' = IF row = Null THEN row'.fatigue ELSE ideal
    /\ UNCHANGED now

seed_from_card(w) ==
    /\ at[w] = "seeding" /\ Ends(w) /\ Writes
    /\ row' = Stamped(w, Card) /\ ideal' = 0
    /\ UNCHANGED <<now, resurrected>>

reset ==
    /\ row # Null /\ UNCHANGED <<at, read>> /\ Writes
    /\ row' = Null /\ ideal' = 0
    /\ UNCHANGED <<now, ghostVars>>

PersonaNext ==
    \/ Tick \/ reset
    \/ \E w \in Writers :
          \/ \E what \in {"mood", "fatigue", "sweeping"} : Clock(w, what)
          \/ \E what \in {"topics", "absent"} : Get(w, what)
          \/ Stamp(w) \/ list_all(w)
          \/ \E mood \in Moods : update_mood(w, mood)
          \/ \E delta \in {-1, 2} : update_fatigue(w, delta)
          \/ \E topic \in Topics : push_recent_topic(w, topic)
          \/ _run_decay(w) \/ seed_from_card(w)

\* The clamp is in SQL so that writers cannot race the bounds, and what the prompt
\* is filled from never has a topic twice or too many of them, whoever overtakes whom.
PersonaTypeOK ==
    /\ row # Null => /\ row.fatigue \in 0 .. MaxFatigue /\ row.mood \in Moods
                     /\ row.updated \in 0 .. now
                     /\ IsInjective(row.topics) /\ Len(row.topics) <= RECENT_TOPICS_CAP
    /\ \A w \in Writers : at[w] # "idle" => read[w].when <= now

\* As long as no write falls between what another writer reads first, be it the clock or
\* the row, and what that one writes, nobody recovers faster than the clock allows, however
\* decay runs and other writes follow each other (_run_decay, update_fatigue).
RecoversInTime == row # Null /\ ~overlapped => row.fatigue >= ideal

\* What was reset comes back only when a write had read it before (_run_decay).
ResetStays == resurrected => overlapped

-----------------------------------------------------------------------------
(***************************************************************************)
(* What a user is known to like (corlinman-user-model): runs of the        *)
(* distiller read a session, ask a model for traits, throw away what it    *)
(* should not have said and weigh the rest into user_traits, one SELECT    *)
(* and one INSERT or UPDATE each; the operator prunes.  One user, whom the *)
(* caller of distill_session names (the command line names none: there     *)
(* each session is a user of its own), and one kind of trait.  Entries of  *)
(* an answer that are no traits at all are left out.  Confidences are      *)
(* counted in tenths.                                                      *)
(***************************************************************************)
CONSTANTS
    Runs,           \* of distill_session, each of which happens once
    Sessions,
    MinTurns,       \* distill_after_session_turns
    Values, Personal,
    Readings,       \* confidences the model may state
    Floor,          \* trait_confidence_floor
    PruneFloor

VARIABLES
    traits,         \* user_traits
    ids,            \* AUTOINCREMENT
    turns,          \* how many turns each session has
    run,
    clock,
    observed,       \* readings that are weighed into the rows (history)
    raced           \* a row that was read had changed when it was written (history)

traitVars == <<traits, ids, turns, run, clock, observed, raced>>

Idle == [at |-> "idle", session |-> Null, todo |-> <<>>, stamp |-> 0, found |-> Null]

TraitsInit ==
    /\ traits = {} /\ ids = 0
    /\ turns = [s \in Sessions |-> 0]
    /\ run = [r \in Runs |-> Idle]
    /\ clock = 0
    /\ observed = {} /\ raced = FALSE

AddTurn(s) ==
    /\ turns[s] < MinTurns
    /\ turns' = [turns EXCEPT ![s] = @ + 1]
    /\ UNCHANGED <<traits, ids, run, clock, observed, raced>>

-----------------------------------------------------------------------------
(* distill_session.                                                        *)

LongEnough(s) == turns[s] >= MinTurns

\* A session that is too short is skipped.
read_session_turns(r, s) ==
    /\ run[r].at = "idle"
    /\ run' = [run EXCEPT ![r] = IF LongEnough(s) THEN [Idle EXCEPT !.at = "asking", !.session = s]
                                 ELSE [Idle EXCEPT !.at = "done"]]
    /\ UNCHANGED <<traits, ids, turns, clock, observed, raced>>

_trait_value_has_pii(value) == value \in Personal

\* "The model's output is not a security boundary; this filter is."
_parse_llm_response(answer) ==
    Kept(answer, {i \in DOMAIN answer : /\ answer[i].confidence >= Floor
                                        /\ ~_trait_value_has_pii(answer[i].value)})

\* One clock reading for all of an answer.
Answered(r, answer) ==
    /\ run[r].at = "asking"
    /\ clock' = clock + 1
    /\ LET parsed == _parse_llm_response(answer) IN
       run' = [run EXCEPT ![r] = IF parsed = <<>> THEN [Idle EXCEPT !.at = "done"]
                                 ELSE [@ EXCEPT !.at = "reading", !.todo = parsed, !.stamp = clock']]
    /\ UNCHANGED <<traits, ids, turns, observed, raced>>

\* The call or a statement fails, or the process ends: distill-recent goes on with the next.
Fails(r) ==
    /\ run[r].at \in {"asking", "reading", "writing"}
    /\ run' = [run EXCEPT ![r] = [Idle EXCEPT !.at = "done"]]
    /\ UNCHANGED <<traits, ids, turns, clock, observed, raced>>

-----------------------------------------------------------------------------
(* upsert_trait: there is no UNIQUE key, so it asks first.                 *)

RowsOf(value) == {t \in traits : t.value = value}
FirstRow(value) ==
    IF RowsOf(value) = {} THEN Null
    ELSE CHOOSE t \in RowsOf(value) : \A u \in RowsOf(value) : t.id <= u.id

SelectRow(r) ==
    /\ run[r].at = "reading"
    /\ run' = [run EXCEPT ![r].at = "writing", ![r].found = FirstRow(Head(run[r].todo).value)]
    /\ UNCHANGED <<traits, ids, turns, clock, observed, raced>>

Written(r) ==
    /\ run' = [run EXCEPT ![r] = IF Len(@.todo) = 1 THEN [Idle EXCEPT !.at = "done"]
                                 ELSE [@ EXCEPT !.at = "reading", !.todo = Tail(run[r].todo), !.found = Null]]
    /\ raced' = (raced \/ FirstRow(Head(run[r].todo).value) # run[r].found)
    /\ UNCHANGED <<turns, clock>>

_clamp_confidence(c) == IF c > 10 THEN 10 ELSE IF c < 0 THEN 0 ELSE c

Observe(r) ==
    observed' = observed \cup {[value |-> Head(run[r].todo).value, session |-> run[r].session,
                                confidence |-> _clamp_confidence(Head(run[r].todo).confidence)]}

InsertRow(r) ==
    /\ run[r].at = "writing" /\ run[r].found = Null
    /\ LET e == Head(run[r].todo) IN
       traits' = traits \cup {[id |-> ids + 1, value |-> e.value,
                               confidence |-> _clamp_confidence(e.confidence),
                               first |-> run[r].stamp, last |-> run[r].stamp,
                               sessions |-> <<run[r].session>>]}
    /\ ids' = ids + 1
    /\ Observe(r) /\ Written(r)

Noted(sessions, s) == IF s \in ToSet(sessions) THEN sessions ELSE Append(sessions, s)

Weighed(old, new) == _clamp_confidence((7 * old + 3 * new) \div 10)

\* What was read is written back by id; a row that was pruned meanwhile stays away.
UpdateRow(r) ==
    /\ run[r].at = "writing" /\ run[r].found # Null
    /\ LET e == Head(run[r].todo)
           found == run[r].found
           hit == {t \in traits : t.id = found.id} IN
       /\ traits' = (traits \ hit) \cup
              {[t EXCEPT !.confidence = Weighed(found.confidence, e.confidence),
                         !.last = run[r].stamp,
                         !.sessions = Noted(found.sessions, run[r].session)] : t \in hit}
       /\ IF hit = {} THEN UNCHANGED observed ELSE Observe(r)
    /\ Written(r) /\ UNCHANGED ids

prune_low_confidence ==
    /\ \E t \in traits : t.confidence < PruneFloor
    /\ traits' = {t \in traits : t.confidence >= PruneFloor}
    /\ observed' = {o \in observed : \E t \in traits' : t.value = o.value}
    /\ UNCHANGED <<ids, turns, run, clock, raced>>

Entries == [value : Values, confidence : Readings]
Answers == {<<>>} \cup {<<e>> : e \in Entries} \cup {<<e, f>> : e, f \in Entries}

TraitsNext ==
    \/ \E s \in Sessions : AddTurn(s)
    \/ \E r \in Runs :
          \/ \E s \in Sessions : read_session_turns(r, s)
          \/ \E a \in Answers : Answered(r, a)
          \/ Fails(r) \/ SelectRow(r) \/ InsertRow(r) \/ UpdateRow(r)
    \/ prune_low_confidence

-----------------------------------------------------------------------------
(* Properties.                                                             *)

TraitsTypeOK ==
    /\ \A t \in traits : t.id \in 1 .. ids /\ t.value \in Values /\ IsInjective(t.sessions)
    /\ \A r \in Runs : run[r].at \in {"idle", "asking", "reading", "writing", "done"}

ReadingsOf(value) == {o.confidence : o \in {p \in observed : p.value = value}}

\* Nothing personal is stored whatever the model says, and however runs overlap a
\* trait stands between the least and the greatest of what was read about it: so it
\* stays at the floor or above, and a prune below the floor never finds anything.
WeighedReadings ==
    \A t \in traits :
        /\ t.value \notin Personal
        /\ ReadingsOf(t.value) # {}
        /\ t.confidence \in Floor .. 10
        /\ t.confidence \in Min(ReadingsOf(t.value)) .. Max(ReadingsOf(t.value))

\* A trait names only sessions it was read in; and unless a run wrote over what another
\* had changed, there is one row of it, with all of them, failures and prunes included.
SessionsAreKept ==
    \A t \in traits :
        LET seenIn == {o.session : o \in {p \in observed : p.value = t.value}} IN
        /\ ToSet(t.sessions) \subseteq seenIn
        /\ ~raced => RowsOf(t.value) = {t} /\ ToSet(t.sessions) = seenIn

-----------------------------------------------------------------------------
(* Both.                                                                  *)

Init == PersonaInit /\ TraitsInit
Next == (PersonaNext /\ UNCHANGED traitVars) \/ (TraitsNext /\ UNCHANGED personaVars)
Spec == Init /\ [][Next]_<<personaVars, traitVars>>

TypeOK == PersonaTypeOK /\ TraitsTypeOK
=============================================================================
