--------------------------- MODULE AuditProvenance ---------------------------
(***************************************************************************)
(* An audit of one Git revision while somebody edits the working tree and  *)
(* moves HEAD: data/audit.py, evaluation/audit.py, statistics/audit.py and *)
(* rewards/audit.py.                                                       *)
(*                                                                         *)
(* Each audit reads HEAD, fingerprints its files against it, loads its     *)
(* inputs and reports; they differ in what they read again, what they      *)
(* compare it with and in which order.  The paths are taken to be tracked  *)
(* (git ls-files), and to be in every revision.                            *)
(* Bytes stand for their SHA-256, a revision for the files it holds.       *)
(***************************************************************************)
EXTENDS Naturals, Sequences, FiniteSets

CONSTANTS
    Files,       \* the paths an audit is bound to: implementation, lock, inputs
    Inputs,      \* the paths among them that it loads and computes with
    Early,       \* the inputs the data audit loads before it reads HEAD
    Bytes,       \* what a file may hold
    Revisions,   \* commits: functions from Files to Bytes
    Kinds,       \* the audits: a subset of {"data", "evaluation", "statistics", "verifier"}
    Nothing,     \* not read
    MaxChanges   \* bounds edits and moves of HEAD

ASSUME ProvenanceAssumption ==
    /\ Inputs \subseteq Files
    /\ Early \subseteq Inputs
    /\ Kinds \subseteq {"data", "evaluation", "statistics", "verifier"}
    /\ Revisions \subseteq [Files -> Bytes]
    /\ Nothing \notin Bytes
    /\ Nothing \notin Revisions
    /\ MaxChanges \in Nat

VARIABLES
    worktree,  \* the files as they are
    HEAD,      \* the revision HEAD names
    changes,   \* how often somebody changed either since the audit began
    kind,      \* which audit runs
    step,      \* where it is, or "reported" or "refused"
    todo,      \* the files the step has still to read
    revision,  \* git_revision
    base,      \* the revision the files are compared with
    digests,   \* tracked_files_sha256
    consumed,  \* the bytes its loaders returned
    clean      \* at the start, the worktree was that of HEAD

vars == <<worktree, HEAD, changes, kind, step, todo, revision, base, digests, consumed, clean>>
repository == <<worktree, HEAD, changes>>

\* An audit's first step.  The verifier's CLI loads its corpus before anything
\* else, the data audit its transform registry, since it names further files.
First(k) ==
    CASE k = "verifier" -> "load"
      [] k = "data" -> "early"
      [] k \in {"evaluation", "statistics"} -> "head"

\* The step that follows: the verifier's audit hashes its sources and then asks
\* git diff about all of its files; the data audit ends once all is loaded; the
\* others read HEAD and the files again, before they load and before they end.
After(k, s) ==
    CASE s = "early" -> "head"
      [] s = "head" -> IF k = "verifier" THEN "hash" ELSE "collect"
      [] s = "hash" -> "resolve"
      [] s = "resolve" -> "diff"
      [] s = "diff" -> "reported"
      [] s = "collect" -> IF k = "data" THEN "load" ELSE "head again"
      [] s = "head again" -> "recheck"
      [] s = "recheck" -> "load"
      [] s = "load" -> IF k = "verifier" THEN "head"
                       ELSE IF k = "data" THEN "compare" ELSE "recheck at the end"
      [] s = "compare" -> "reported"
      [] s = "recheck at the end" -> "head at the end"
      [] s = "head at the end" -> "reported"

\* What a step reads, one file after the other.
Reads(k, s) ==
    CASE s = "early" -> Early
      [] s = "load" -> IF k = "data" THEN Inputs \ Early ELSE Inputs
      [] s = "hash" -> Files \ Inputs
      [] s \in {"collect", "diff", "recheck", "recheck at the end"} -> Files
      [] OTHER -> {}

Unread == [f \in Files |-> Nothing]

Init ==
    /\ HEAD \in Revisions
    /\ worktree \in [Files -> Bytes]
    /\ clean = (worktree = HEAD)
    /\ changes = 0
    /\ kind \in Kinds
    /\ step = First(kind)
    /\ todo = Reads(kind, First(kind))
    /\ revision = Nothing
    /\ base = Nothing
    /\ digests = Unread
    /\ consumed = Unread

\* Somebody edits a file.
Edit(f, b) ==
    /\ step \notin {"reported", "refused"}
    /\ changes < MaxChanges
    /\ worktree[f] # b
    /\ worktree' = [worktree EXCEPT ![f] = b]
    /\ changes' = changes + 1
    /\ UNCHANGED <<HEAD, kind, step, todo, revision, base, digests, consumed, clean>>

\* Somebody commits or resets: HEAD names another revision, the files stay.
MoveHead(r) ==
    /\ step \notin {"reported", "refused"}
    /\ changes < MaxChanges
    /\ HEAD # r
    /\ HEAD' = r
    /\ changes' = changes + 1
    /\ UNCHANGED <<worktree, kind, step, todo, revision, base, digests, consumed, clean>>

\* The step reads a file.
Read(f) ==
    /\ todo' = todo \ {f}
    /\ UNCHANGED <<repository, kind, step, revision, base, clean>>

\* It has read them all.
Advance ==
    /\ todo = {}
    /\ step' = After(kind, step)
    /\ todo' = Reads(kind, After(kind, step))
    /\ UNCHANGED <<repository, kind, digests, consumed, clean>>

Refuse ==
    /\ step' = "refused"
    /\ todo' = {}
    /\ UNCHANGED <<repository, kind, revision, base, digests, consumed, clean>>

\* git rev-parse HEAD.
ReadHead ==
    /\ step = "head"
    /\ revision' = HEAD
    /\ base' = HEAD
    /\ Advance

\* git diff resolves HEAD by itself.
Resolve ==
    /\ step = "resolve"
    /\ base' = HEAD
    /\ revision' = revision
    /\ Advance

\* A file is read and, but in the verifier's audit, compared with the recorded
\* revision's.
Fingerprint(f) ==
    /\ step \in {"hash", "collect"} /\ f \in todo
    /\ step = "collect" => worktree[f] = base[f]
    /\ digests' = [digests EXCEPT ![f] = worktree[f]]
    /\ consumed' = consumed
    /\ Read(f)

\* git diff --quiet HEAD.
Diff(f) ==
    /\ step = "diff" /\ f \in todo
    /\ worktree[f] = base[f]
    /\ UNCHANGED <<digests, consumed>>
    /\ Read(f)

\* _assert_inputs_unchanged.
Recheck(f) ==
    /\ step \in {"recheck", "recheck at the end"} /\ f \in todo
    /\ worktree[f] = digests[f]
    /\ UNCHANGED <<digests, consumed>>
    /\ Read(f)

\* Slip: the loaders' digests are not compared with the provenance's.
LoadUnchecked(f) ==
    /\ step \in {"early", "load"} /\ f \in todo
    /\ consumed' = [consumed EXCEPT ![f] = worktree[f]]
    /\ digests' = digests
    /\ Read(f)

\* A loader reads an input; the evaluation and statistics audits compare what
\* it read with the provenance at once (_assert_consumed_digest).
Load(f) ==
    /\ step \in {"early", "load"} /\ f \in todo
    /\ kind \in {"evaluation", "statistics"} => worktree[f] = digests[f]
    /\ consumed' = [consumed EXCEPT ![f] = worktree[f]]
    /\ digests' = digests
    /\ Read(f)

\* A step that is through with its files.
Proceed ==
    /\ step \in {"early", "hash", "collect", "diff", "recheck", "load", "recheck at the end"}
    /\ UNCHANGED <<revision, base>>
    /\ Advance

\* HEAD is read again and is the recorded one.
ConfirmHead ==
    /\ step \in {"head again", "head at the end"}
    /\ HEAD = revision
    /\ UNCHANGED <<revision, base>>
    /\ Advance

\* The data audit compares what all its loaders read.
Compare ==
    /\ step = "compare"
    /\ \A f \in Inputs : consumed[f] = digests[f]
    /\ UNCHANGED <<revision, base>>
    /\ Advance

\* Slip: what a loader read before the collection is compared as well.
RefuseFileLoadedEarly(f) ==
    /\ f \in todo
    /\ \/ step \in {"collect", "diff"} /\ worktree[f] # base[f]
       \/ step \in {"recheck", "recheck at the end"} /\ worktree[f] # digests[f]
       \/ step \in {"early", "load"} /\ worktree[f] # digests[f]
    /\ Refuse

\* A comparison of a file fails.
RefuseFile(f) ==
    /\ f \in todo
    /\ \/ step \in {"collect", "diff"} /\ worktree[f] # base[f]
       \/ step \in {"recheck", "recheck at the end"} /\ worktree[f] # digests[f]
       \/ /\ step = "load" /\ kind \in {"evaluation", "statistics"}
          /\ worktree[f] # digests[f]
    /\ Refuse

RefuseHead ==
    /\ step \in {"head again", "head at the end"}
    /\ HEAD # revision
    /\ Refuse

RefuseLoaded ==
    /\ step = "compare"
    /\ \E f \in Inputs : consumed[f] # digests[f]
    /\ Refuse

Next ==
    \/ \E f \in Files, b \in Bytes : Edit(f, b)
    \/ \E r \in Revisions : MoveHead(r)
    \/ ReadHead \/ Resolve \/ ConfirmHead \/ Compare \/ Proceed
    \/ \E f \in Files : Fingerprint(f) \/ Diff(f) \/ Recheck(f) \/ Load(f) \/ RefuseFile(f)
    \/ RefuseHead \/ RefuseLoaded

Spec == Init /\ [][Next]_vars

-----------------------------------------------------------------------------

TypeOK ==
    /\ worktree \in [Files -> Bytes]
    /\ HEAD \in Revisions
    /\ changes \in 0..MaxChanges
    /\ kind \in Kinds
    /\ todo \subseteq Files
    /\ revision \in Revisions \cup {Nothing}
    /\ base \in Revisions \cup {Nothing}
    /\ digests \in [Files -> Bytes \cup {Nothing}]
    /\ consumed \in [Files -> Bytes \cup {Nothing}]
    /\ clean \in BOOLEAN

\* However files are edited and put back and HEAD is moved and moved back
\* between any two reads, what an audit of the data, the evaluator or the
\* statistics reports was computed from the files of the revision it names,
\* and the digests it lists are that revision's.
ReportIsOfRevision ==
    step = "reported" /\ kind # "verifier" =>
        /\ \A f \in Inputs : consumed[f] = revision[f]
        /\ \A f \in Files : digests[f] = revision[f]

\* An audit refuses only what somebody did: on a clean tree nobody touches,
\* every comparison of provenance holds.
OnlyChangesRefuse == step = "refused" => changes > 0 \/ ~ clean

\* docs/algorithms/EXACT_MATH_VERIFIER.md:104: the formal audit of the verifier
\* requires the implementation, the lock and the corpus of this run to be
\* exactly those of the recorded revision.
VerifierReportIsOfRevision ==
    step = "reported" /\ kind = "verifier" =>
        \A f \in Inputs : consumed[f] = revision[f]

==============================================================================
