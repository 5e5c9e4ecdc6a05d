----------------------------- MODULE ChatSession -----------------------------
(***************************************************************************)
(* The turns of one chat session and the rows the gateway keeps of them    *)
(* (gateway, routes/chat.rs; corlinman-core, session_sqlite.rs).  A turn   *)
(* loads the history, runs the agent's stream to its end, appends the      *)
(* user's message and the assistant's, tells the client, and leaves a trim *)
(* behind as a task of its own.  An append reads the last number and       *)
(* inserts in one transaction; SQLite refuses the insert of a transaction  *)
(* whose snapshot is no longer the newest.  A row is <<turn, role>>; what  *)
(* the stream carries is left out.                                         *)
(***************************************************************************)
EXTENDS Integers, Sequences, FiniteSetsExt

CONSTANTS
    Turns,
    KeepLast    \* session_max_messages

Roles == {"user", "assistant"}

VARIABLES
    rows,       \* the session's rows: number -> row
    turn,       \* where each turn is
    streamed,   \* the turns whose client asked for a stream
    number,     \* the number an append is about to use
    newest,     \* whether the snapshot that append read is still the newest
    trimming,   \* the turns whose trim is still to run
    history,    \* the rows each turn loaded
    log,        \* all rows that were appended, in order (history)
    lost,       \* the rows whose append failed (history)
    before      \* the rows appended when a turn loaded, and the turns told by then (history)

rowVars == <<rows, log>>
appendVars == <<number, newest>>
loadVars == <<streamed, history, before>>
sessionVars == <<rowVars, turn, appendVars, trimming, loadVars, lost>>

Init ==
    /\ rows = [n \in {} |-> 0] /\ log = <<>>
    /\ turn = [t \in Turns |-> "idle"]
    /\ streamed = {}
    /\ number = [t \in Turns |-> 0] /\ newest = [t \in Turns |-> FALSE]
    /\ trimming = {} /\ lost = {}
    /\ history = [t \in Turns |-> {}]
    /\ before = [t \in Turns |-> [length |-> 0, told |-> {}]]

At(t, from, to) == turn[t] = from /\ turn' = [turn EXCEPT ![t] = to]
Appended == {log[i] : i \in DOMAIN log}
Told == {t \in Turns : turn[t] = "told"}

\* A load that fails is an empty history.
LoadHistory(t) ==
    /\ At(t, "idle", "streaming")
    /\ streamed' \in {streamed, streamed \cup {t}}
    /\ history' = [history EXCEPT ![t] = {rows[n] : n \in DOMAIN rows}]
    /\ before' = [before EXCEPT ![t] = [length |-> Len(log), told |-> Told]]
    /\ UNCHANGED <<rowVars, appendVars, trimming, lost>>

StreamEnds(t) ==
    /\ At(t, "streaming", "user")
    /\ UNCHANGED <<rowVars, appendVars, trimming, loadVars, lost>>

\* A streamed turn keeps what came before the error; the other keeps nothing.
StreamFails(t) ==
    /\ At(t, "streaming", IF t \in streamed THEN "user" ELSE "failed")
    /\ UNCHANGED <<rowVars, appendVars, trimming, loadVars, lost>>

NextNumber == IF DOMAIN rows = {} THEN 0 ELSE Max(DOMAIN rows) + 1

Inserting(role) == IF role = "user" THEN "insert_user" ELSE "insert_assistant"
After(role) == IF role = "user" THEN "assistant" ELSE "appended"

ReadNumber(t, role) ==
    /\ At(t, role, Inserting(role))
    /\ number' = [number EXCEPT ![t] = NextNumber]
    /\ newest' = [newest EXCEPT ![t] = TRUE]
    /\ UNCHANGED <<rowVars, trimming, loadVars, lost>>

\* Every commit makes the snapshots of the other transactions old.
Outdate == newest' = [t \in Turns |-> FALSE]

InsertRow(t, role) ==
    /\ newest[t]
    /\ At(t, Inserting(role), After(role))
    /\ rows' = [n \in DOMAIN rows \cup {number[t]} |-> IF n = number[t] THEN <<t, role>> ELSE rows[n]]
    /\ log' = Append(log, <<t, role>>)
    /\ Outdate
    /\ UNCHANGED <<number, trimming, loadVars, lost>>

\* An old snapshot, a busy or a broken database: a warning, and the turn goes on.
AppendFails(t, role) ==
    /\ \/ At(t, Inserting(role), After(role)) \/ At(t, role, After(role))
    /\ lost' = lost \cup {<<t, role>>}
    /\ UNCHANGED <<rowVars, appendVars, trimming, loadVars>>

\* [DONE], or the response.
TellClient(t) ==
    /\ At(t, "appended", "told")
    /\ trimming' = trimming \cup {t}
    /\ UNCHANGED <<rowVars, appendVars, loadVars, lost>>

\* The client goes away; a transaction that was open is rolled back.
Disconnect(t) ==
    /\ turn[t] \notin {"idle", "appended", "told", "failed", "gone"}
    /\ turn' = [turn EXCEPT ![t] = "gone"]
    /\ UNCHANGED <<rowVars, appendVars, trimming, loadVars, lost>>

\* Below the last one that stays, when there are as many.
Cutoff(n) == Cardinality({m \in DOMAIN rows : m > n}) >= KeepLast

\* A keep of none deletes the session; numbers start again at 0.
Trim(t) ==
    /\ t \in trimming
    /\ trimming' = trimming \ {t}
    /\ \/ /\ rows' = [n \in {m \in DOMAIN rows : ~Cutoff(m)} |-> rows[n]]
          /\ IF rows' # rows THEN Outdate ELSE UNCHANGED newest
       \/ UNCHANGED <<rows, newest>>
    /\ UNCHANGED <<turn, number, loadVars, log, lost>>

\* A turn of another session commits to the same database.
OtherCommits ==
    /\ \E t \in Turns : newest[t]
    /\ Outdate
    /\ UNCHANGED <<rowVars, turn, number, trimming, loadVars, lost>>

Next ==
    \/ \E t \in Turns :
        \/ LoadHistory(t) \/ StreamEnds(t) \/ StreamFails(t)
        \/ \E role \in Roles : ReadNumber(t, role) \/ InsertRow(t, role) \/ AppendFails(t, role)
        \/ TellClient(t) \/ Disconnect(t) \/ Trim(t)
    \/ OtherCommits

Spec == Init /\ [][Next]_sessionVars

-----------------------------------------------------------------------------
TypeOK ==
    /\ DOMAIN rows \subseteq Nat
    /\ \A n \in DOMAIN rows : rows[n] \in Appended
    /\ turn \in [Turns -> {"idle", "streaming", "failed", "user", "insert_user", "assistant",
                           "insert_assistant", "appended", "told", "gone"}]
    /\ log \in Seq(Turns \X Roles)

\* The rows are in the order in which they were appended, and none takes the number
\* of another, however turns of one session overlap (append).
NumbersFollowAppends ==
    \A m, n \in DOMAIN rows : m < n =>
        \E i, j \in DOMAIN log : i < j /\ log[i] = rows[m] /\ log[j] = rows[n]

\* A trim that runs while turns append leaves the newest rows (trim, persist_turn).
NewestSurvive ==
    \A i \in DOMAIN log : i > Len(log) - KeepLast => \E n \in DOMAIN rows : rows[n] = log[i]

\* A turn that begins after a client was told of an earlier one loads its rows, but
\* for those whose append failed and those that KeepLast newer ones pushed out
\* (handle_chat, the tail of build_sse_stream).
ReadYourTurns ==
    \A u \in Turns : \A t \in before[u].told : \A role \in Roles :
        \/ <<t, role>> \in lost \cup history[u]
        \/ \E i \in 1 .. (before[u].length - KeepLast) : log[i] = <<t, role>>
=============================================================================
