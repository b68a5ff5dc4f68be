-------------------------- MODULE BundleStoreProofs --------------------------
(***************************************************************************)
(* Proofs about BundleStore, for every set of batches, every contents of   *)
(* their records files and every number of faults.                         *)
(***************************************************************************)
EXTENDS BundleStore, TLAPS

\* Every manifest anyone holds or could find after a power loss was moved into
\* place by a publication.
ManifestsOffered ==
    /\ kept["manifest"] \subseteq offered \cup {Absent}
    /\ manifest \in offered \cup {Absent}

\* Unless a publication was cut short, the pair is whole until the next one
\* moves its records, and then those are the records of its batch.
PairInv ==
    /\ writing # "manifest" /\ offered # {} /\ ~ broken => Whole
    /\ writing = "manifest" => seen["records"] = RecordsOf[batch]

\* A temporary file is complete only while a name is being written.
ReadyWrites == ready => writing # "none"

IInv == TypeOK /\ ReadyWrites /\ ManifestsOffered /\ LoadedIsOnePublication /\ PairInv /\ LitterOnlyFromDeath

\* The variables an action leaves alone, spelled out.
USE DEF writer, reader, disk, toll

\* Every initial state satisfies the invariant.
LEMMA Start == Init => IInv
  <1> SUFFICES ASSUME Init PROVE IInv
      OBVIOUS
  <1> USE BundleAssumption
  <1>1. /\ seen \in [Names -> Batches \cup Bytes \cup {Absent}]
        /\ kept \in [Names -> SUBSET (Batches \cup Bytes \cup {Absent})]
        /\ \A n \in Names : seen[n] \in kept[n] /\ kept[n] \subseteq Contents(n) \cup {Absent}
        BY DEF Init
  <1>2. faults \in 0..MaxFaults /\ deaths \in 0..faults /\ litter \in Nat /\ litter <= deaths
        BY DEF Init
  <1>3. TypeOK
        BY <1>1, <1>2 DEF Init, TypeOK
  <1>4. /\ ManifestsOffered /\ LoadedIsOnePublication /\ PairInv /\ LitterOnlyFromDeath
        /\ ReadyWrites
        BY <1>2 DEF Init, ReadyWrites, ManifestsOffered, LoadedIsOnePublication, PairInv, LitterOnlyFromDeath,
                    Names
  <1> QED  BY <1>3, <1>4 DEF IInv

\* Moving a file into place.
LEMMA ReplaceStep == IInv /\ Replace => IInv'
  <1> SUFFICES ASSUME IInv, Replace PROVE IInv'
      OBVIOUS
  <1> USE BundleAssumption DEF IInv
  <1>0. /\ batch \in Batches
        /\ RecordsOf[batch] \in Bytes
        BY DEF TypeOK, Bytes
  <1>1. /\ writing \in Names
        /\ Payload(writing) \in Contents(writing)
        /\ Payload(writing) \in Batches \cup Bytes
        /\ Payload(writing) # Absent
    <2>1. writing \in Names
          BY DEF Replace, TypeOK, ReadyWrites
    <2> QED  BY <1>0, <2>1 DEF Payload, Contents, Names
  <1>2. /\ seen' = [seen EXCEPT ![writing] = Payload(writing)]
        /\ kept' = [kept EXCEPT ![writing] = @ \cup {Payload(writing)}]
        BY DEF Replace
  <1>3. TypeOK'
    <2>1. /\ seen' \in [Names -> Batches \cup Bytes \cup {Absent}]
          /\ kept' \in [Names -> SUBSET (Batches \cup Bytes \cup {Absent})]
          BY <1>1, <1>2 DEF TypeOK
    <2>2. ASSUME NEW n \in Names
          PROVE  seen'[n] \in kept'[n] /\ kept'[n] \subseteq Contents(n) \cup {Absent}
          BY <1>1, <1>2 DEF TypeOK
    <2>3. writing' \in Names \cup {"none"} /\ broken' \in BOOLEAN /\ ready' \in BOOLEAN
          BY DEF Replace, TypeOK, Names
    <2> QED  BY <1>0, <2>1, <2>2, <2>3 DEF Replace, TypeOK
  <1>4. ManifestsOffered'
    <2>1. CASE writing = "records"
          BY <1>2, <2>1 DEF Replace, TypeOK, ManifestsOffered, Names
    <2>2. CASE writing = "manifest"
          BY <1>2, <2>2 DEF Replace, TypeOK, ManifestsOffered, Names, Payload
    <2> QED  BY <1>1, <2>1, <2>2 DEF Names
  <1>5. LoadedIsOnePublication'
        BY DEF Replace, LoadedIsOnePublication
  <1>8. ReadyWrites'
        BY DEF Replace, ReadyWrites
  <1>6. PairInv'
    <2>1. CASE writing = "records"
          BY <1>2, <2>1 DEF Replace, TypeOK, PairInv, Names, Payload
    <2>2. CASE writing = "manifest"
          BY <1>1, <1>2, <2>2 DEF Replace, TypeOK, PairInv, Names, Payload, Whole
    <2> QED  BY <1>1, <2>1, <2>2 DEF Names
  <1>7. LitterOnlyFromDeath'
        BY DEF Replace, LitterOnlyFromDeath
  <1> QED  BY <1>3, <1>4, <1>5, <1>6, <1>7, <1>8

\* A power loss leaves files that were moved into place once.
LEMMA PowerLossStep == IInv /\ PowerLoss => IInv'
  <1> SUFFICES ASSUME IInv, PowerLoss PROVE IInv'
      OBVIOUS
  <1> USE BundleAssumption DEF IInv
  <1>1. PICK r \in kept["records"], m \in kept["manifest"] :
           seen' = [n \in Names |-> IF n = "records" THEN r ELSE m]
        BY DEF PowerLoss
  <1>2. /\ r \in Bytes \cup {Absent}
        /\ m \in Batches \cup {Absent}
        BY DEF TypeOK, Names, Contents
  <1>3. TypeOK'
    <2>1. seen' \in [Names -> Batches \cup Bytes \cup {Absent}]
          BY <1>1, <1>2
    <2>2. kept' \in [Names -> SUBSET (Batches \cup Bytes \cup {Absent})]
          BY <2>1 DEF PowerLoss
    <2>3. ASSUME NEW n \in Names
          PROVE  seen'[n] \in kept'[n] /\ kept'[n] \subseteq Contents(n) \cup {Absent}
      <3>1. kept'[n] = {seen'[n]}
            BY DEF PowerLoss
      <3>2. seen'[n] \in Contents(n) \cup {Absent}
            BY <1>1, <1>2 DEF Contents, Names
      <3> QED  BY <3>1, <3>2
    <2>4. litter' \in Nat /\ faults' \in 0..MaxFaults /\ deaths' \in 0..faults'
          BY DEF PowerLoss, TypeOK
    <2>5. broken' \in BOOLEAN
          BY DEF PowerLoss, TypeOK
    <2> QED  BY <2>1, <2>2, <2>3, <2>4, <2>5 DEF PowerLoss, TypeOK
  <1>4. ManifestsOffered'
        BY <1>1, <1>2 DEF PowerLoss, ManifestsOffered, Names
  <1>5. LoadedIsOnePublication'
        BY DEF PowerLoss, LoadedIsOnePublication
  <1>8. ReadyWrites'
        BY DEF PowerLoss, ReadyWrites
  <1>6. PairInv'
        BY DEF PowerLoss, PairInv, Whole
  <1>7. LitterOnlyFromDeath'
        BY DEF PowerLoss, LitterOnlyFromDeath, TypeOK
  <1> QED  BY <1>3, <1>4, <1>5, <1>6, <1>7, <1>8

\* The reader's steps, which write nothing.
LEMMA ReaderStep ==
    IInv /\ (ReadManifest \/ ReadRecords \/ RefuseRecords) => IInv'
  <1> SUFFICES ASSUME IInv, ReadManifest \/ ReadRecords \/ RefuseRecords PROVE IInv'
      OBVIOUS
  <1> USE BundleAssumption DEF IInv
  <1>1. /\ seen["manifest"] \in kept["manifest"]
        /\ seen["manifest"] \in Batches \cup {Absent}
        /\ seen["records"] \in Bytes \cup {Absent}
        BY DEF TypeOK, Names, Contents
  <1>2. TypeOK'
        BY <1>1 DEF ReadManifest, ReadRecords, RefuseRecords, TypeOK, Bundles
  <1>3. ManifestsOffered'
        BY <1>1 DEF ReadManifest, ReadRecords, RefuseRecords, ManifestsOffered
  <1>4. LoadedIsOnePublication'
        BY DEF ReadManifest, ReadRecords, RefuseRecords, LoadedIsOnePublication, ManifestsOffered
  <1>5. PairInv'
        BY DEF ReadManifest, ReadRecords, RefuseRecords, PairInv, Whole
  <1>6. LitterOnlyFromDeath'
        BY DEF ReadManifest, ReadRecords, RefuseRecords, LitterOnlyFromDeath
  <1>7. ReadyWrites'
        BY DEF ReadManifest, ReadRecords, RefuseRecords, ReadyWrites
  <1> QED  BY <1>7, <1>2, <1>3, <1>4, <1>5, <1>6

\* The steps of a publication that leave the names alone.
LEMMA WriterStep ==
    IInv /\ ((\E b \in Batches : Publish(b)) \/ WriteTemporary \/ WriteRaises \/ WriterDies)
        => IInv'
  <1> SUFFICES ASSUME IInv,
                      \/ \E b \in Batches : Publish(b)
                      \/ WriteTemporary
                      \/ WriteRaises
                      \/ WriterDies
               PROVE  IInv'
      OBVIOUS
  <1> USE BundleAssumption DEF IInv
  <1>1. TypeOK'
    <2>1. litter' \in Nat /\ faults' \in 0..MaxFaults /\ deaths' \in 0..faults'
          BY DEF Publish, WriteTemporary, WriteRaises, WriterDies, TypeOK
    <2>2. /\ writing' \in Names \cup {"none"}
          /\ batch' \in Batches
          /\ ready' \in BOOLEAN
          /\ broken' \in BOOLEAN
          BY DEF Publish, WriteTemporary, WriteRaises, WriterDies, TypeOK, Names
    <2>3. UNCHANGED <<seen, kept, manifest, loaded, offered>>
          BY DEF Publish, WriteTemporary, WriteRaises, WriterDies
    <2> QED  BY <2>1, <2>2, <2>3 DEF TypeOK
  <1>2. ManifestsOffered'
        BY DEF Publish, WriteTemporary, WriteRaises, WriterDies, ManifestsOffered
  <1>3. LoadedIsOnePublication'
        BY DEF Publish, WriteTemporary, WriteRaises, WriterDies, LoadedIsOnePublication
  <1>4. PairInv'
        BY DEF Publish, WriteTemporary, WriteRaises, WriterDies, PairInv, Whole
  <1>5. LitterOnlyFromDeath'
        BY DEF Publish, WriteTemporary, WriteRaises, WriterDies, LitterOnlyFromDeath, TypeOK
  <1>6. ReadyWrites'
        BY DEF Publish, WriteTemporary, WriteRaises, WriterDies, ReadyWrites
  <1> QED  BY <1>6, <1>1, <1>2, <1>3, <1>4, <1>5

\* The directory written back: nothing that is seen changes.
LEMMA WriteBackStep == IInv /\ WriteBack => IInv'
  <1> SUFFICES ASSUME IInv, WriteBack PROVE IInv'
      OBVIOUS
  <1> USE BundleAssumption DEF IInv
  <1>1. TypeOK'
    <2>1. kept' \in [Names -> SUBSET (Batches \cup Bytes \cup {Absent})]
          BY DEF WriteBack, TypeOK
    <2>2. ASSUME NEW n \in Names
          PROVE  seen'[n] \in kept'[n] /\ kept'[n] \subseteq Contents(n) \cup {Absent}
          BY <2>2 DEF WriteBack, TypeOK
    <2> QED  BY <2>1, <2>2 DEF WriteBack, TypeOK
  <1>2. ManifestsOffered'
        BY DEF WriteBack, ManifestsOffered, TypeOK, Names
  <1>3. LoadedIsOnePublication' /\ PairInv' /\ LitterOnlyFromDeath' /\ ReadyWrites'
        BY DEF WriteBack, ReadyWrites, LoadedIsOnePublication, PairInv, LitterOnlyFromDeath, Whole
  <1> QED  BY <1>1, <1>2, <1>3

\* The invariant is inductive.
LEMMA Invariance == Spec => []IInv
  <1>1. IInv /\ [Next]_vars => IInv'
    <2> SUFFICES ASSUME IInv, [Next]_vars PROVE IInv'
        OBVIOUS
    <2>1. CASE UNCHANGED vars
          BY <2>1 DEF vars, IInv, TypeOK, ReadyWrites, ManifestsOffered, LoadedIsOnePublication, PairInv,
                      LitterOnlyFromDeath, Whole, Names, Contents
    <2>2. CASE Next
          BY <2>2, ReplaceStep, PowerLossStep, ReaderStep, WriterStep, WriteBackStep DEF Next
    <2> QED  BY <2>1, <2>2
  <1> QED  BY <1>1, Start, PTL DEF Spec

\* Whatever interleaving of writes, deaths, power losses and reads, a bundle
\* that is returned is the two files of one publication.
THEOREM LoadsOnePublication == Spec => []LoadedIsOnePublication
  BY Invariance, PTL DEF IInv

\* A pair at rest is whole unless the last publication was cut short.
THEOREM CompletionRepairs == Spec => []OnlyInterruptionTears
  <1>1. IInv => OnlyInterruptionTears
        BY DEF IInv, PairInv, OnlyInterruptionTears
  <1> QED  BY <1>1, Invariance, PTL

\* Only a death leaves a temporary file behind.
THEOREM TemporariesAreRemoved == Spec => []LitterOnlyFromDeath
  BY Invariance, PTL DEF IInv

\* Type correctness of the two processes and the disk.
THEOREM TypeCorrect == Spec => []TypeOK
  BY Invariance, PTL DEF IInv

==============================================================================
