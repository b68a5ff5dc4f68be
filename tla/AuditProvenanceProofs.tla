------------------------- MODULE AuditProvenanceProofs -------------------------
(***************************************************************************)
(* What an audit reports is of the revision it names, and only changes     *)
(* make it refuse, for any files, revisions and number of changes.         *)
(***************************************************************************)
EXTENDS AuditProvenance, TLAPS

Comparing == {"evaluation", "statistics"}

\* The steps of each audit.
Course(k) ==
    {"head", "reported", "refused"} \cup
    IF k = "verifier" THEN {"load", "hash", "resolve", "diff"}
    ELSE IF k = "data" THEN {"early", "collect", "load", "compare"}
    ELSE {"collect", "head again", "recheck", "load", "recheck at the end", "head at the end"}

\* The steps after all files have been fingerprinted.
Recorded ==
    {"head again", "recheck", "load", "compare", "recheck at the end", "head at the end",
     "reported"}

Final == {"recheck at the end", "head at the end", "reported"}

Values ==
    /\ worktree \in [Files -> Bytes]
    /\ HEAD \in Revisions
    /\ changes \in 0..MaxChanges
    /\ kind \in Kinds
    /\ todo \subseteq Files
    /\ revision \in Revisions \cup {Nothing}
    /\ base \in Revisions \cup {Nothing}
    /\ digests \in [Files -> Bytes \cup {Nothing}]
    /\ consumed \in [Files -> Bytes \cup {Nothing}]

OnCourse == step \in Course(kind)

\* The revision is compared with, its files are the digests, as far as they
\* have been read, and the digests are what was consumed.
Bound ==
    kind # "verifier" =>
        /\ step \in {"collect"} \cup Recorded => base = revision
        /\ step = "collect" => \A f \in Files \ todo : digests[f] = revision[f]
        /\ step \in Recorded => \A f \in Files : digests[f] = revision[f]
        /\ step = "load" /\ kind \in Comparing =>
               \A f \in Inputs \ todo : consumed[f] = digests[f]
        /\ step \in Final => \A f \in Inputs : consumed[f] = digests[f]

\* Nobody has changed anything, and there was nothing to commit.
Untouched == changes = 0 /\ clean

Undisturbed ==
    Untouched =>
        /\ worktree = HEAD
        /\ kind # "verifier" /\ step \in {"collect"} \cup Recorded => revision = HEAD
        /\ step = "diff" => base = HEAD
        /\ kind = "data" =>
              /\ step = "early" => \A f \in Early \ todo : consumed[f] = worktree[f]
              /\ step \in {"head", "collect"} => \A f \in Early : consumed[f] = worktree[f]
              /\ step = "load" => \A f \in Inputs \ todo : consumed[f] = worktree[f]
              /\ step = "compare" => \A f \in Inputs : consumed[f] = worktree[f]
        /\ step # "refused"

-----------------------------------------------------------------------------

\* There are four audits, of which two compare what they load at once.
LEMMA KindsOfAudits == ASSUME NEW k \in Kinds PROVE k \in Comparing \cup {"verifier", "data"}
  BY ProvenanceAssumption DEF Comparing

\* A step reads some of the bound files.
LEMMA ReadsFiles == ASSUME NEW k, NEW s PROVE Reads(k, s) \subseteq Files
  BY ProvenanceAssumption DEF Reads

\* The step after one of an audit is one of the same audit.
LEMMA StepsStayOnCourse ==
    ASSUME NEW k \in Kinds, NEW s \in Course(k), s \notin {"reported", "refused"}
    PROVE  After(k, s) \in Course(k)
  <1>1. CASE k = "verifier"
    BY <1>1 DEF Course, After
  <1>2. CASE k = "data"
    <2>1. s \in {"head", "early", "collect", "load", "compare"}
      BY <1>2 DEF Course
    <2> QED BY <1>2, <2>1 DEF Course, After
  <1>3. CASE k \in Comparing
    <2>1. s \in {"head", "collect", "head again", "recheck", "load", "recheck at the end",
                 "head at the end"}
      BY <1>3 DEF Course, Comparing
    <2>2. k # "verifier" /\ k # "data"
      BY <1>3 DEF Comparing
    <2> QED BY <2>1, <2>2 DEF Course, After
  <1> QED BY <1>1, <1>2, <1>3, KindsOfAudits

\* An audit begins with a step of its own course.
LEMMA FirstOnCourse ==
    ASSUME NEW k \in Kinds
    PROVE  First(k) \in Course(k) \ {"reported", "refused"}
  BY KindsOfAudits DEF First, Course, Comparing

-----------------------------------------------------------------------------

IInv == Values /\ OnCourse /\ Bound /\ Undisturbed

\* The invariant holds before anything is read.
LEMMA InitiallyBound == ASSUME Init PROVE IInv
  <1> USE DEF Init
  <1>1. Values
    BY ProvenanceAssumption, ReadsFiles DEF Values, Unread
  <1>2. OnCourse /\ step \notin {"reported", "refused"}
    BY FirstOnCourse DEF OnCourse
  <1>3. kind # "verifier" => step \in {"early", "head"}
    BY KindsOfAudits DEF First, Comparing
  <1>4. kind = "verifier" => step = "load"
    BY DEF First
  <1>5. kind = "data" => step = "early" /\ todo = Early
    BY DEF First, Reads
  <1>6. Bound
    BY <1>3 DEF Bound, Recorded, Final
  <1>7. clean => worktree = HEAD
    BY Zenon
  <1>8. Undisturbed
    BY <1>2, <1>3, <1>4, <1>5, <1>7 DEF Undisturbed, Untouched, Recorded
  <1> QED BY <1>1, <1>2, <1>6, <1>8 DEF IInv

\* Whoever edits a file ends the undisturbed run, and binds nothing anew.
LEMMA EditBound == ASSUME IInv, NEW f \in Files, NEW b \in Bytes, Edit(f, b) PROVE IInv'
  <1> USE DEF IInv, Edit
  <1>1. Values'
    BY ProvenanceAssumption DEF Values
  <1>2. OnCourse'
    BY DEF OnCourse
  <1>3. Bound'
    BY DEF Bound
  <1>4. changes' # 0
    BY DEF Values
  <1>5. Undisturbed'
    BY <1>4 DEF Undisturbed, Untouched
  <1> QED BY <1>1, <1>2, <1>3, <1>5

\* So does whoever moves HEAD.
LEMMA MoveHeadBound == ASSUME IInv, NEW r \in Revisions, MoveHead(r) PROVE IInv'
  <1> USE DEF IInv, MoveHead
  <1>1. Values'
    BY ProvenanceAssumption DEF Values
  <1>2. OnCourse'
    BY DEF OnCourse
  <1>3. Bound'
    BY DEF Bound
  <1>4. changes' # 0
    BY DEF Values
  <1>5. Undisturbed'
    BY <1>4 DEF Undisturbed, Untouched
  <1> QED BY <1>1, <1>2, <1>3, <1>5

\* What remains to be read of the next step is the audit's own.
LEMMA AdvanceOnCourse ==
    ASSUME OnCourse, kind \in Kinds, Advance, step \notin {"reported", "refused"}
    PROVE  OnCourse' /\ todo' \subseteq Files
  <1>1. step' \in Course(kind)
    BY StepsStayOnCourse DEF OnCourse, Advance
  <1>2. todo' \subseteq Files
    BY ReadsFiles DEF Advance
  <1> QED BY <1>1, <1>2 DEF OnCourse, Advance, repository

\* The recorded revision is HEAD's, before any file is compared with it.
LEMMA ReadHeadBound == ASSUME IInv, ReadHead PROVE IInv'
  <1> USE DEF IInv, ReadHead
  <1>1. OnCourse' /\ todo' \subseteq Files
    BY AdvanceOnCourse DEF Values
  <1>2. Values'
    BY <1>1 DEF Values, Advance, repository
  <1>3. kind # "verifier" => step' = "collect" /\ todo' = Files
    BY DEF Advance, After, Reads
  <1>4. kind = "verifier" => step' = "hash"
    BY DEF Advance, After
  <1>5. Bound'
    BY <1>3, <1>4 DEF Bound, Advance, repository, Recorded, Final
  <1>6. Undisturbed'
    BY <1>3, <1>4 DEF Undisturbed, Untouched, Advance, repository, Recorded
  <1> QED BY <1>1, <1>2, <1>5, <1>6

\* Only the verifier's audit lets git resolve HEAD again.
LEMMA ResolveBound == ASSUME IInv, Resolve PROVE IInv'
  <1> USE DEF IInv, Resolve
  <1>1. OnCourse' /\ todo' \subseteq Files
    BY AdvanceOnCourse DEF Values
  <1>2. Values'
    BY <1>1 DEF Values, Advance, repository
  <1>3. kind = "verifier" /\ step' = "diff"
    BY KindsOfAudits DEF Advance, After, OnCourse, Course, Comparing, Values
  <1>4. Bound'
    BY <1>3 DEF Bound, Advance, repository
  <1>5. Undisturbed'
    BY <1>3 DEF Undisturbed, Untouched, Advance, repository
  <1> QED BY <1>1, <1>2, <1>4, <1>5

\* A HEAD that moved stops the audit; one that did not changes nothing.
LEMMA ConfirmHeadBound == ASSUME IInv, ConfirmHead PROVE IInv'
  <1> USE DEF IInv, ConfirmHead
  <1>1. OnCourse' /\ todo' \subseteq Files
    BY AdvanceOnCourse DEF Values
  <1>2. Values'
    BY <1>1 DEF Values, Advance, repository
  <1>3. kind \in Comparing
    BY KindsOfAudits DEF OnCourse, Course, Comparing, Values
  <1>4. \/ step = "head again" /\ step' = "recheck"
        \/ step = "head at the end" /\ step' = "reported"
    BY DEF Advance, After
  <1>5. Bound'
    BY <1>3, <1>4 DEF Bound, Advance, repository, Recorded, Final
  <1>6. Undisturbed'
    BY <1>3, <1>4 DEF Undisturbed, Untouched, Advance, repository, Recorded, Comparing
  <1> QED BY <1>1, <1>2, <1>5, <1>6

\* The data audit's last comparison binds what it loaded.
LEMMA CompareBound == ASSUME IInv, Compare PROVE IInv'
  <1> USE DEF IInv, Compare
  <1>1. OnCourse' /\ todo' \subseteq Files
    BY AdvanceOnCourse DEF Values
  <1>2. Values'
    BY <1>1 DEF Values, Advance, repository
  <1>3. kind = "data" /\ step' = "reported"
    BY KindsOfAudits DEF Advance, After, OnCourse, Course, Comparing, Values
  <1>4. Bound'
    BY <1>3 DEF Bound, Advance, repository, Recorded, Final
  <1>5. Undisturbed'
    BY <1>3 DEF Undisturbed, Untouched, Advance, repository, Recorded
  <1> QED BY <1>1, <1>2, <1>4, <1>5

\* A finished step has bound every file it was to read.
LEMMA ProceedBound == ASSUME IInv, Proceed PROVE IInv'
  <1> USE DEF IInv, Proceed
  <1>1. OnCourse' /\ todo' \subseteq Files
    BY AdvanceOnCourse DEF Values
  <1>2. Values'
    BY <1>1 DEF Values, Advance, repository
  <1>3. CASE kind = "verifier"
    <2>1. step' # "refused" /\ step' # "diff"
      BY <1>3 DEF Advance, After, OnCourse, Course
    <2>2. Bound' /\ Undisturbed'
      BY <1>3, <2>1 DEF Bound, Undisturbed, Untouched, Advance, repository
    <2> QED BY <1>1, <1>2, <2>2
  <1>4. CASE kind = "data"
    <2>1. \/ step = "early" /\ step' = "head"
          \/ step = "collect" /\ step' = "load" /\ todo' = Inputs \ Early
          \/ step = "load" /\ step' = "compare"
      BY <1>4 DEF Advance, After, Reads, OnCourse, Course
    <2>2. Bound'
      BY <1>4, <2>1 DEF Bound, Advance, repository, Recorded, Final, Comparing
    <2>3. Undisturbed'
      BY <1>4, <2>1 DEF Undisturbed, Untouched, Advance, repository, Recorded
    <2> QED BY <1>1, <1>2, <2>2, <2>3
  <1>5. CASE kind \in Comparing
    <2>1. kind # "data" /\ kind # "verifier"
      BY <1>5 DEF Comparing
    <2>2. \/ step = "collect" /\ step' = "head again"
          \/ step = "recheck" /\ step' = "load" /\ todo' = Inputs
          \/ step = "load" /\ step' = "recheck at the end"
          \/ step = "recheck at the end" /\ step' = "head at the end"
      BY <2>1 DEF Advance, After, Reads, OnCourse, Course
    <2>3. Bound'
      BY <1>5, <2>1, <2>2 DEF Bound, Advance, repository, Recorded, Final
    <2>4. Undisturbed'
      BY <2>1, <2>2 DEF Undisturbed, Untouched, Advance, repository, Recorded
    <2> QED BY <1>1, <1>2, <2>3, <2>4
  <1>6. kind \in Comparing \cup {"verifier", "data"}
    BY KindsOfAudits DEF Values
  <1> QED BY <1>3, <1>4, <1>5, <1>6

\* A collected digest is the recorded revision's.
LEMMA FingerprintBound == ASSUME IInv, NEW f \in Files, Fingerprint(f) PROVE IInv'
  <1> USE DEF IInv, Fingerprint, Read, repository
  <1>1. Values'
    BY DEF Values
  <1>2. OnCourse'
    BY DEF OnCourse
  <1>3. kind # "verifier" => step = "collect"
    BY DEF OnCourse, Course
  <1>4. \A g \in Files : digests'[g] = IF g = f THEN worktree[f] ELSE digests[g]
    BY DEF Values
  <1>5. Bound'
    BY <1>3, <1>4 DEF Bound, Recorded, Final
  <1>6. Undisturbed'
    BY DEF Undisturbed, Untouched
  <1> QED BY <1>1, <1>2, <1>5, <1>6

\* git diff records nothing.
LEMMA DiffBound == ASSUME IInv, NEW f \in Files, Diff(f) PROVE IInv'
  <1> USE DEF IInv, Diff, Read, repository
  <1>1. Values' /\ OnCourse'
    BY DEF Values, OnCourse
  <1>2. kind = "verifier"
    BY DEF OnCourse, Course
  <1>3. Bound' /\ Undisturbed'
    BY <1>2 DEF Bound, Undisturbed, Untouched
  <1> QED BY <1>1, <1>3

\* A recheck records nothing.
LEMMA RecheckBound == ASSUME IInv, NEW f \in Files, Recheck(f) PROVE IInv'
  <1> USE DEF IInv, Recheck, Read, repository
  <1>1. Values' /\ OnCourse'
    BY DEF Values, OnCourse
  <1>2. Bound'
    BY DEF Bound
  <1>3. Undisturbed'
    BY DEF Undisturbed, Untouched
  <1> QED BY <1>1, <1>2, <1>3

\* A loaded input is bound at once, or by the comparison that is to come.
LEMMA LoadBound == ASSUME IInv, NEW f \in Files, Load(f) PROVE IInv'
  <1> USE DEF IInv, Load, Read, repository
  <1>1. Values'
    BY DEF Values
  <1>2. OnCourse'
    BY DEF OnCourse
  <1>3. \A g \in Files : consumed'[g] = IF g = f THEN worktree[f] ELSE consumed[g]
    BY DEF Values
  <1>4. \A g \in Inputs : g \in Files
    BY ProvenanceAssumption
  <1>5. \A g \in Early : g \in Files
    BY ProvenanceAssumption
  <1>6. Bound'
    BY <1>3, <1>4 DEF Bound, Recorded, Final, Comparing
  <1>7. Undisturbed'
    BY <1>3, <1>4, <1>5 DEF Undisturbed, Untouched
  <1> QED BY <1>1, <1>2, <1>6, <1>7

\* A refusal means that somebody has changed something.
LEMMA RefuseBound == ASSUME IInv, Refuse, ~ Untouched PROVE IInv'
  <1> USE DEF IInv, Refuse, repository
  <1>1. Values' /\ OnCourse'
    BY DEF Values, OnCourse, Course
  <1>2. Bound'
    BY DEF Bound, Recorded, Final
  <1>3. Undisturbed'
    BY DEF Undisturbed, Untouched
  <1> QED BY <1>1, <1>2, <1>3

\* On an untouched clean tree no file differs.
LEMMA RefuseFileBound == ASSUME IInv, NEW f \in Files, RefuseFile(f) PROVE IInv'
  <1> USE DEF IInv
  <1>1. Refuse
    BY DEF RefuseFile
  <1>2. ASSUME Untouched PROVE FALSE
    <2>1. worktree = HEAD
      BY <1>2 DEF Undisturbed
    <2>2. CASE step = "diff" /\ worktree[f] # base[f]
      BY <1>2, <2>1, <2>2 DEF Undisturbed
    <2>3. CASE step = "collect" /\ worktree[f] # base[f]
      <3>1. kind # "verifier"
        BY <2>3 DEF OnCourse, Course
      <3> QED BY <1>2, <2>1, <2>3, <3>1 DEF Undisturbed, Bound
    <2>4. CASE step \in Recorded /\ kind # "verifier" /\ worktree[f] # digests[f]
      BY <1>2, <2>1, <2>4 DEF Undisturbed, Bound
    <2>5. \/ step = "diff" /\ worktree[f] # base[f]
          \/ step = "collect" /\ worktree[f] # base[f]
          \/ step \in Recorded /\ kind # "verifier" /\ worktree[f] # digests[f]
      BY DEF RefuseFile, Recorded, OnCourse, Course
    <2> QED BY <2>2, <2>3, <2>4, <2>5
  <1> QED BY <1>1, <1>2, RefuseBound

\* On an untouched tree HEAD is the recorded revision.
LEMMA RefuseHeadBound == ASSUME IInv, RefuseHead PROVE IInv'
  <1> USE DEF IInv
  <1>1. Refuse
    BY DEF RefuseHead
  <1>2. kind # "verifier"
    BY DEF RefuseHead, OnCourse, Course
  <1>3. ~ Untouched
    BY <1>2 DEF RefuseHead, Undisturbed, Recorded
  <1> QED BY <1>1, <1>3, RefuseBound

\* On an untouched tree what was loaded is what was fingerprinted.
LEMMA RefuseLoadedBound == ASSUME IInv, RefuseLoaded PROVE IInv'
  <1> USE DEF IInv
  <1>1. Refuse
    BY DEF RefuseLoaded
  <1>2. kind = "data"
    BY DEF RefuseLoaded, OnCourse, Course
  <1>3. PICK f \in Inputs : consumed[f] # digests[f]
    BY DEF RefuseLoaded
  <1>4. f \in Files /\ step = "compare"
    BY ProvenanceAssumption DEF RefuseLoaded
  <1>5. ~ Untouched
    BY <1>2, <1>3, <1>4 DEF Undisturbed, Bound, Recorded
  <1> QED BY <1>1, <1>5, RefuseBound

-----------------------------------------------------------------------------

\* Through any edits and moves of HEAD, the audit's state binds what it read.
THEOREM ProvenanceInvariant == Spec => []IInv
  <1>1. Init => IInv
    BY InitiallyBound
  <1>2. IInv /\ [Next]_vars => IInv'
    <2> SUFFICES ASSUME IInv, [Next]_vars PROVE IInv'
      OBVIOUS
    <2>1. ASSUME NEW f \in Files, NEW b \in Bytes, Edit(f, b) PROVE IInv'
      BY <2>1, EditBound
    <2>2. ASSUME NEW r \in Revisions, MoveHead(r) PROVE IInv'
      BY <2>2, MoveHeadBound
    <2>3. ASSUME NEW f \in Files,
                 Fingerprint(f) \/ Diff(f) \/ Recheck(f) \/ Load(f) \/ RefuseFile(f)
          PROVE  IInv'
      BY <2>3, FingerprintBound, DiffBound, RecheckBound, LoadBound, RefuseFileBound
    <2>4. CASE UNCHANGED vars
      BY <2>4 DEF vars, IInv, Values, OnCourse, Bound, Undisturbed, Untouched
    <2> QED BY <2>1, <2>2, <2>3, <2>4, ReadHeadBound, ResolveBound, ConfirmHeadBound,
               CompareBound, ProceedBound, RefuseHeadBound, RefuseLoadedBound DEF Next
  <1> QED BY <1>1, <1>2, PTL DEF Spec

\* What an audit of the data, the evaluator or the statistics reports was
\* computed from the files of the revision it names, whatever is edited and
\* moved while it runs.
THEOREM ReportsAreOfRevision == Spec => []ReportIsOfRevision
  <1>1. IInv => ReportIsOfRevision
    <2> SUFFICES ASSUME IInv, step = "reported", kind # "verifier"
                 PROVE  /\ \A f \in Inputs : consumed[f] = revision[f]
                        /\ \A f \in Files : digests[f] = revision[f]
      BY DEF ReportIsOfRevision
    <2>1. \A f \in Files : digests[f] = revision[f]
      BY DEF IInv, Bound, Recorded
    <2>2. \A f \in Inputs : consumed[f] = digests[f]
      BY DEF IInv, Bound, Final
    <2> QED BY <2>1, <2>2, ProvenanceAssumption
  <1> QED BY <1>1, ProvenanceInvariant, PTL

\* No audit refuses a clean tree that nobody touches.
THEOREM RefusalsHaveCauses == Spec => []OnlyChangesRefuse
  <1>1. IInv => OnlyChangesRefuse
    BY DEF IInv, Undisturbed, Untouched, OnlyChangesRefuse, Values
  <1> QED BY <1>1, ProvenanceInvariant, PTL

===============================================================================
