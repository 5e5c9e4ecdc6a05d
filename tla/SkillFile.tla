------------------------------ MODULE SkillFile ------------------------------
(***************************************************************************)
(* One skill file under apply_skill_update and revert_skill_update         *)
(* (corlinman-gateway/src/evolution_applier.rs).  An apply appends its     *)
(* hunk to the content it read and records that content; a revert writes   *)
(* what its apply recorded.  Both write `<file>.tmp`, one name for all     *)
(* requests, and rename it over the file.                                  *)
(***************************************************************************)
EXTENDS Naturals, Sequences, SequencesExt

CONSTANTS
    Updates,        \* skill_update proposals on the file
    MaxFailures,    \* requests that end early
    None

VARIABLES
    inodes,     \* what each inode holds: hunks, or Partial while it is written
    file, temp, \* the inodes the two names are bound to
    update,     \* the request on each proposal
    fileLog,    \* the renames that changed the file: <<apply or revert, proposal>>
    met,        \* the inodes that two writers had open together
    collided,   \* were two requests ever in progress together
    failures

skillVars == <<inodes, file, temp, update, fileLog, met, collided, failures>>

\* What a writer leaves that has not written all.
Partial == <<None>>

Idle == {"approved", "applied", "reverted"}
Reverting == {"unwrite", "unswap", "undone"}

Init ==
    /\ inodes = <<(<<>>)>> /\ file = 1 /\ temp = None
    /\ update = [u \in Updates |->
         [at |-> "approved", read |-> <<>>, prior |-> <<>>, fd |-> None]]
    /\ fileLog = <<>> /\ met = {} /\ collided = FALSE /\ failures = 0

\* The request on `u` goes on; `collided` notes another that is in progress.
Goes(u, request) ==
    /\ update' = [update EXCEPT ![u] = request]
    /\ collided' = (\/ collided
                    \/ /\ request.at \notin Idle
                       /\ \E v \in Updates \ {u} : update[v].at \notin Idle)

\* A request that finds the file cut short reads that.
ReadPrior(u) ==
    /\ update[u].at = "approved"
    /\ Goes(u, [update[u] EXCEPT !.at = "write", !.read = inodes[file]])
    /\ UNCHANGED <<inodes, file, temp, fileLog, met, failures>>

BeginRevert(u) ==
    /\ update[u].at = "applied"
    /\ Goes(u, [update[u] EXCEPT !.at = "unwrite"])
    /\ UNCHANGED <<inodes, file, temp, fileLog, met, failures>>

\* fs::write creates or truncates the file and then writes it.
OpenTmp(u) ==
    LET shared == temp # None
        inode == IF shared THEN temp ELSE Len(inodes) + 1
    IN /\ update[u].at \in {"write", "unwrite"} /\ update[u].fd = None
       /\ temp' = inode
       /\ inodes' = IF shared THEN [inodes EXCEPT ![inode] = Partial]
                    ELSE Append(inodes, Partial)
       /\ met' = met \cup {i \in {inode} : \E v \in Updates : update[v].fd = i}
       /\ Goes(u, [update[u] EXCEPT !.fd = inode])
       /\ UNCHANGED <<file, fileLog, failures>>

\* The content depends on that read, which may itself have been cut short.
NewContent(u) ==
    IF update[u].at = "unwrite" THEN update[u].prior
    ELSE IF update[u].read = Partial THEN Partial
    ELSE Append(update[u].read, u)

WriteTmp(u) ==
    LET inode == update[u].fd IN
    /\ update[u].at \in {"write", "unwrite"} /\ inode # None
    /\ inodes' = [inodes EXCEPT ![inode] = IF inode \in met THEN Partial ELSE NewContent(u)]
    /\ Goes(u, [update[u] EXCEPT !.fd = None,
                                 !.at = IF @ = "write" THEN "swap" ELSE "unswap"])
    /\ UNCHANGED <<file, temp, fileLog, met, failures>>

RenameTmp(u) ==
    /\ update[u].at \in {"swap", "unswap"} /\ temp # None
    /\ file' = temp /\ temp' = None
    /\ fileLog' = Append(fileLog, <<IF update[u].at = "swap" THEN "apply" ELSE "revert", u>>)
    /\ Goes(u, [update[u] EXCEPT !.at = IF @ = "swap" THEN "commit" ELSE "undone"])
    /\ UNCHANGED <<inodes, met, failures>>

\* commit_evolution_tx records the content that was read.
CommitApply(u) ==
    /\ update[u].at = "commit"
    /\ Goes(u, [update[u] EXCEPT !.at = "applied", !.prior = update[u].read])
    /\ UNCHANGED <<inodes, file, temp, fileLog, met, failures>>

RevertDone(u) ==
    /\ update[u].at = "undone"
    /\ Goes(u, [update[u] EXCEPT !.at = "reverted"])
    /\ UNCHANGED <<inodes, file, temp, fileLog, met, failures>>

\* An error (the rename finds no tmp file, the commit fails), a dropped handler or a
\* crash: the proposal keeps its status and its request can be repeated.
RequestEnds(u) ==
    /\ update[u].at \notin Idle /\ failures < MaxFailures
    /\ Goes(u, [update[u] EXCEPT !.fd = None,
                                 !.at = IF @ \in Reverting THEN "applied" ELSE "approved"])
    /\ failures' = failures + 1
    /\ UNCHANGED <<inodes, file, temp, fileLog, met>>

Next == \E u \in Updates :
    \/ ReadPrior(u) \/ BeginRevert(u) \/ OpenTmp(u) \/ WriteTmp(u) \/ RenameTmp(u)
    \/ CommitApply(u) \/ RevertDone(u) \/ RequestEnds(u)

Spec == Init /\ [][Next]_skillVars

-----------------------------------------------------------------------------
Content == {Partial} \cup SeqOf(Updates, Cardinality(Updates) + MaxFailures)

TypeOK ==
    /\ inodes \in Seq(Content) /\ file \in DOMAIN inodes
    /\ temp \in {None} \cup DOMAIN inodes /\ met \subseteq DOMAIN inodes
    /\ \A u \in Updates :
         /\ update[u].at \in Idle \cup Reverting \cup {"write", "swap", "commit"}
         /\ update[u].read \in Content /\ update[u].prior \in Content
         /\ update[u].fd \in {None} \cup DOMAIN inodes
    /\ failures \in 0..MaxFailures

\* Failures and crashes never leave a cut-short skill file: that takes two requests
\* in progress together ("A crash mid-write leaves the .tmp orphan but the live skill
\* file untouched").
CutShortByCollision == inodes[file] = Partial => collided

Applies(u) == {n \in DOMAIN fileLog : fileLog[n] = <<"apply", u>>}
Reverts(u) == {n \in DOMAIN fileLog : fileLog[n] = <<"revert", u>>}
InFile(u) == \E n \in DOMAIN inodes[file] : inodes[file][n] = u

\* Where requests take turns, an applied hunk leaves the file only with a revert of its
\* own or of an update applied before it, and the hunk of a reverted update is back only
\* if it was written twice (the first apply was not committed) or an update applied
\* after it was reverted after it: reverts in the reverse order of the applies lose
\* nothing and bring nothing back, whatever failed in between.
HunksFollowReverts ==
    ~ collided /\ (\A u \in Updates : update[u].at \in Idle) =>
        \A u \in Updates :
          /\ update[u].at = "applied" /\ ~InFile(u) =>
               \E v \in Updates : \E i \in Applies(v), j \in Reverts(v) :
                 /\ \E k \in Applies(u) : i <= k
                 /\ \A k \in Applies(u) : k < j
          /\ update[u].at = "reverted" /\ InFile(u) =>
               \/ Cardinality(Applies(u)) > 1
               \/ \E v \in Updates \ {u} : \E i \in Applies(v), j \in Reverts(v) :
                    /\ \E k \in Applies(u) : k < i
                    /\ \E r \in Reverts(u) : r < j

\* A skill file is whole and holds what was applied and not reverted.
SkillsHold == CutShortByCollision /\ HunksFollowReverts
=============================================================================
