----------------------------- MODULE BundleStore -----------------------------
(***************************************************************************)
(* A generation bundle on disk: the records of a batch and the manifest    *)
(* that names them, two files in one directory, written one after the      *)
(* other by write_generation_bundle and read one after the other by        *)
(* load_generation_bundle in another process (evaluation/contracts.py).    *)
(*                                                                         *)
(* Each file is written to a temporary name, flushed with fsync and moved  *)
(* over the old one with os.replace; the directory is never flushed, so a  *)
(* power loss may undo the move of either file by itself.  The bytes of a  *)
(* records file stand for their SHA-256.                                   *)
(***************************************************************************)
EXTENDS Naturals, FiniteSets

CONSTANTS
    Batches,    \* the batches callers publish, over and over, at the same paths
    RecordsOf,  \* the bytes of the records file of each batch
    Absent,     \* no such file, or nothing loaded
    MaxFaults   \* bounds exceptions, deaths and power losses

Bytes == {RecordsOf[b] : b \in Batches}
Names == {"records", "manifest"}

\* What a name can refer to: a manifest is the batch it describes, which holds
\* the records_file_sha256 RecordsOf[b].
Contents(n) == IF n = "records" THEN Bytes ELSE Batches

ASSUME BundleAssumption ==
    /\ RecordsOf \in [Batches -> Bytes]
    /\ Absent \notin Batches \cup Bytes
    /\ MaxFaults \in Nat

VARIABLES
    writing,   \* the name being written by the generator process, or "none"
    batch,     \* the batch being published, or the last one
    ready,     \* the temporary file is complete and flushed
    seen,      \* what each name refers to
    kept,      \* what each name may refer to after a power loss
    litter,    \* temporary files nobody will remove
    manifest,  \* what the evaluator process has read, having yet to read the records
    loaded,    \* the bundle load_generation_bundle returned
    faults,    \* exceptions, deaths and power losses so far
    deaths,    \* the deaths and power losses among them
    offered,   \* history: batches whose manifest was ever moved into place
    broken     \* history: a publication was cut short after the last complete one

vars == <<writing, batch, ready, seen, kept, litter, manifest, loaded,
          faults, deaths, offered, broken>>

writer == <<writing, batch, ready, litter, offered, broken>>
reader == <<manifest, loaded>>
disk == <<seen, kept>>
toll == <<faults, deaths>>

Init ==
    /\ writing = "none"
    /\ batch \in Batches
    /\ ready = FALSE
    /\ seen = [n \in Names |-> Absent]
    /\ kept = [n \in Names |-> {Absent}]
    /\ litter = 0
    /\ manifest = Absent
    /\ loaded = Absent
    /\ faults = 0
    /\ deaths = 0
    /\ offered = {}
    /\ broken = FALSE

\* write_generation_bundle is called: the paths are siblings and differ.
Publish(b) ==
    /\ writing = "none"
    /\ writing' = "records"
    /\ batch' = b
    /\ UNCHANGED <<ready, litter, offered, broken, reader, disk, toll>>

\* mkstemp, write, flush and fsync.
WriteTemporary ==
    /\ writing # "none"
    /\ ~ ready
    /\ ready' = TRUE
    /\ UNCHANGED <<writing, batch, litter, offered, broken, reader, disk, toll>>

\* What the batch puts under a name.
Payload(n) == IF n = "records" THEN RecordsOf[batch] ELSE batch

\* Slip: a manifest that is there already is left alone.
ReplaceKeepingManifest ==
    /\ ready
    /\ seen' = IF writing = "manifest" /\ seen[writing] # Absent
                THEN seen
                ELSE [seen EXCEPT ![writing] = Payload(writing)]
    /\ kept' = [kept EXCEPT ![writing] = @ \cup {seen'[writing]}]
    /\ writing' = IF writing = "records" THEN "manifest" ELSE "none"
    /\ ready' = FALSE
    /\ offered' = IF writing = "manifest" THEN offered \cup {batch} ELSE offered
    /\ broken' = (broken /\ writing = "records")
    /\ UNCHANGED <<batch, litter, reader, toll>>

\* os.replace: the new file takes the name, and after the records the manifest
\* is written.
Replace ==
    /\ ready
    /\ seen' = [seen EXCEPT ![writing] = Payload(writing)]
    /\ kept' = [kept EXCEPT ![writing] = @ \cup {Payload(writing)}]
    /\ writing' = IF writing = "records" THEN "manifest" ELSE "none"
    /\ ready' = FALSE
    /\ offered' = IF writing = "manifest" THEN offered \cup {batch} ELSE offered
    /\ broken' = (broken /\ writing = "records")
    /\ UNCHANGED <<batch, litter, reader, toll>>

\* Slip: no finally clause.
WriteRaisesLeaving ==
    /\ writing # "none"
    /\ faults < MaxFaults
    /\ faults' = faults + 1
    /\ writing' = "none"
    /\ ready' = FALSE
    /\ litter' = litter + 1
    /\ broken' = (broken \/ writing = "manifest")
    /\ UNCHANGED <<batch, offered, reader, disk, deaths>>

\* Any of these calls raises: the temporary file is unlinked, the caller sees
\* the exception.
WriteRaises ==
    /\ writing # "none"
    /\ faults < MaxFaults
    /\ faults' = faults + 1
    /\ writing' = "none"
    /\ ready' = FALSE
    /\ broken' = (broken \/ writing = "manifest")
    /\ UNCHANGED <<batch, litter, offered, reader, disk, deaths>>

\* The generator process dies and is started again.
WriterDies ==
    /\ writing # "none"
    /\ faults < MaxFaults
    /\ faults' = faults + 1
    /\ deaths' = deaths + 1
    /\ writing' = "none"
    /\ ready' = FALSE
    /\ litter' = litter + 1
    /\ broken' = (broken \/ writing = "manifest")
    /\ UNCHANGED <<batch, offered, reader, disk>>

\* Power is lost: both processes are gone, and each name refers to one of the
\* files it may refer to.
PowerLoss ==
    /\ faults < MaxFaults
    /\ faults' = faults + 1
    /\ deaths' = deaths + 1
    /\ \E r \in kept["records"], m \in kept["manifest"] :
          seen' = [n \in Names |-> IF n = "records" THEN r ELSE m]
    /\ kept' = [n \in Names |-> {seen'[n]}]
    /\ litter' = IF writing = "none" THEN litter ELSE litter + 1
    /\ writing' = "none"
    /\ ready' = FALSE
    /\ broken' = (broken \/ writing = "manifest" \/ seen' # seen)
    /\ manifest' = Absent
    /\ UNCHANGED <<batch, loaded, offered>>

\* The file system writes the directory back in its own time.
WriteBack ==
    /\ kept' = [n \in Names |-> {seen[n]}]
    /\ kept' # kept
    /\ UNCHANGED <<seen, writer, reader, toll>>

\* load_generation_bundle up to the manifest's own checks, which its bytes pass.
ReadManifest ==
    /\ manifest = Absent
    /\ seen["manifest"] # Absent
    /\ manifest' = seen["manifest"]
    /\ UNCHANGED <<loaded, writer, disk, toll>>

\* Slip: the records are believed because the manifest was sound.
ReadRecordsUnchecked ==
    /\ manifest # Absent
    /\ seen["records"] # Absent
    /\ loaded' = [batch |-> manifest, records |-> seen["records"]]
    /\ manifest' = Absent
    /\ UNCHANGED <<writer, disk, toll>>

\* The records named by the manifest are read; their bytes are those it names,
\* and the bundle is returned.
ReadRecords ==
    /\ manifest # Absent
    /\ seen["records"] # Absent
    /\ seen["records"] = RecordsOf[manifest]
    /\ loaded' = [batch |-> manifest, records |-> seen["records"]]
    /\ manifest' = Absent
    /\ UNCHANGED <<writer, disk, toll>>

\* They are not, or there are none: GenerationContractError.
RefuseRecords ==
    /\ manifest # Absent
    /\ seen["records"] # RecordsOf[manifest]
    /\ manifest' = Absent
    /\ UNCHANGED <<loaded, writer, disk, toll>>

Next ==
    \/ \E b \in Batches : Publish(b)
    \/ WriteTemporary
    \/ Replace
    \/ WriteRaises
    \/ WriterDies
    \/ PowerLoss
    \/ WriteBack
    \/ ReadManifest
    \/ ReadRecords
    \/ RefuseRecords

Spec == Init /\ [][Next]_vars

-----------------------------------------------------------------------------

Bundles == [batch : Batches, records : Bytes]

\* The two names refer to the two files of one publication.
Whole == seen["manifest"] # Absent /\ seen["records"] = RecordsOf[seen["manifest"]]

TypeOK ==
    /\ writing \in Names \cup {"none"}
    /\ batch \in Batches
    /\ ready \in BOOLEAN
    /\ seen \in [Names -> Batches \cup Bytes \cup {Absent}]
    /\ kept \in [Names -> SUBSET (Batches \cup Bytes \cup {Absent})]
    /\ \A n \in Names : seen[n] \in kept[n] /\ kept[n] \subseteq Contents(n) \cup {Absent}
    /\ litter \in Nat
    /\ manifest \in Batches \cup {Absent}
    /\ loaded \in Bundles \cup {Absent}
    /\ faults \in 0..MaxFaults
    /\ deaths \in 0..faults
    /\ offered \subseteq Batches
    /\ broken \in BOOLEAN

\* Whatever interleaving of publications, deaths and power losses the two
\* reads fall into, a bundle that load_generation_bundle returns is the records
\* and the manifest of one batch that was published.
LoadedIsOnePublication ==
    loaded # Absent =>
        /\ loaded.batch \in offered
        /\ loaded.records = RecordsOf[loaded.batch]

\* Between publications the pair on disk is whole, unless the last one was cut
\* short: a complete write_generation_bundle repairs whatever it finds.
OnlyInterruptionTears ==
    writing = "none" /\ offered # {} /\ ~ broken => Whole

\* A temporary file is left behind only by the death of its process: whatever
\* raises, the finally clauses remove it.
LitterOnlyFromDeath == litter <= deaths

\* docs/evaluation/SEALED_EVALUATOR.md:109: the JSONL records and the sibling
\* manifest are written atomically.  Once a bundle has been published and no
\* power was lost, the pair on disk is always some publication.
BundleIsAtomic == offered # {} /\ deaths = 0 => Whole

==============================================================================
