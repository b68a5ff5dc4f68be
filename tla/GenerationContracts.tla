------------------------- MODULE GenerationContracts -------------------------
(***************************************************************************)
(* The frozen objects of evaluation/contracts.py and the checks each makes *)
(* of the others: the benchmark's public items and its sealed answers, the *)
(* decoding protocol, requests, responses, records and the batch.          *)
(*                                                                         *)
(* A SHA-256 is represented by what it hashes, an identifier by a model    *)
(* value, a text by a model value of which it is known whether it ends in  *)
(* a stop sequence of the protocol.  Indices count from 1.                 *)
(***************************************************************************)
EXTENDS Naturals, Sequences, FiniteSets

CONSTANTS
    StopTexts,  \* the generated texts that end in a frozen stop sequence
    NoSeed      \* None

-----------------------------------------------------------------------------
\* The benchmark.  A descriptor is [revision, task, count, public, sealed]; the
\* last two are the files it binds, sequences of items [revision, id, index,
\* prompt] and of answers [revision, id, reference].

MAX_ITEMS == 1000000

DescriptorHolds(descriptor) == descriptor.count \in 1..MAX_ITEMS

\* A line of the public file is an item.
ItemHolds(item) == item.index \in 1..MAX_ITEMS

Ids(file) == {file[i].id : i \in DOMAIN file}

Unrepeated(file) == \A i, j \in DOMAIN file : file[i].id = file[j].id => i = j

OfRevision(file, descriptor) ==
    \A i \in DOMAIN file : file[i].revision = descriptor.revision

\* load_public_benchmark accepts the file.
LoadsPublic(descriptor, file) ==
    /\ file = descriptor.public
    /\ Len(file) = descriptor.count
    /\ \A i \in DOMAIN file : ItemHolds(file[i]) /\ file[i].index = i
    /\ Unrepeated(file)
    /\ OfRevision(file, descriptor)

\* load_sealed_answer_vault accepts the file for the items it loaded.
LoadsVault(descriptor, public, file) ==
    /\ file = descriptor.sealed
    /\ Len(file) = descriptor.count
    /\ Unrepeated(file)
    /\ OfRevision(file, descriptor)
    /\ Ids(file) = Ids(public)

\* Slip: answers are paired with items by their place in the file.
VaultByPlace(descriptor, public, file) ==
    [revision |-> descriptor.revision, task |-> descriptor.task, bytes |-> file,
     references |-> [id \in Ids(file) |->
         file[CHOOSE i \in DOMAIN public : public[i].id = id].reference]]

\* The vault: which reference belongs to which id.
Vault(descriptor, public, file) ==
    [revision |-> descriptor.revision, task |-> descriptor.task, bytes |-> file,
     references |-> [id \in Ids(file) |->
         file[CHOOSE i \in DOMAIN file : file[i].id = id].reference]]

-----------------------------------------------------------------------------
\* A protocol is [mode, samples, cap, eos, stops, sampler]: sampler stands for
\* temperature, top-p, top-k and the seed's namespace and base.

MAX_SAMPLES_PER_ITEM == 1024
MAX_NEW_TOKENS == 65536

ProtocolHolds(protocol) ==
    /\ protocol.samples \in 1..MAX_SAMPLES_PER_ITEM
    /\ protocol.cap \in 1..MAX_NEW_TOKENS
    /\ protocol.eos \in protocol.stops
    /\ \/ protocol.mode = "greedy" /\ protocol.samples = 1 /\ protocol.sampler = NoSeed
       \/ protocol.mode = "sampling" /\ protocol.samples >= 2 /\ protocol.sampler # NoSeed

\* seed_for: the same for every checkpoint, and there is none when greedy.
SeedFor(protocol, item, sample) ==
    IF protocol.mode = "greedy"
    THEN NoSeed
    ELSE <<protocol, item.revision, item.id, sample>>

\* build_generation_request.
Request(item, checkpoint, protocol, sample) ==
    [revision |-> item.revision, item |-> item.id, index |-> item.index,
     sample |-> sample, prompt |-> item.prompt, checkpoint |-> checkpoint,
     protocol |-> protocol, seed |-> SeedFor(protocol, item, sample)]

\* The item and the sample of the n-th place of the grid.
ItemAt(protocol, n) == ((n - 1) \div protocol.samples) + 1
SampleAt(protocol, n) == ((n - 1) % protocol.samples) + 1

Places(public, protocol) == 1..(Len(public) * protocol.samples)

\* prepare_generation_requests: item by item, sample by sample.
Requests(public, checkpoint, protocol) ==
    [n \in Places(public, protocol) |->
        Request(public[ItemAt(protocol, n)], checkpoint, protocol, SampleAt(protocol, n))]

-----------------------------------------------------------------------------
\* What a response says: [status, text, tokens, reason], completed with tokens
\* and a reason, or [status] alone, failed.

Completed(outcome) == outcome.status = "completed"

\* GenerationResponse.__post_init__: an outcome is one or the other.
ResponseHolds(outcome) ==
    IF Completed(outcome)
    THEN outcome.tokens # <<>>
    ELSE DOMAIN outcome = {"status"}

\* assert_protocol_semantics, of a record's outcome.
SemanticsHold(outcome, protocol) ==
    Completed(outcome) =>
        LET length == Len(outcome.tokens)
            last == outcome.tokens[length]
        IN  /\ length <= protocol.cap
            /\ outcome.reason = "length" => length = protocol.cap
            /\ outcome.reason = "eos" => last = protocol.eos
            /\ outcome.reason = "stop_token" => last \in protocol.stops
            /\ outcome.reason = "stop_sequence" => outcome.text \in StopTexts

\* run_generation accepts the responses: no request is answered twice, none is
\* left out and nothing else is answered.
AnswersEachOnce(requests, replies) ==
    /\ \A j, k \in DOMAIN replies : replies[j].id = replies[k].id => j = k
    /\ {replies[k].id : k \in DOMAIN replies} = {requests[n] : n \in DOMAIN requests}

\* Slip: the responses are taken in the order in which they came back.
RecordsAsTheyCame(requests, replies) ==
    [n \in DOMAIN requests |->
        [request |-> requests[n], outcome |-> replies[n].outcome]]

\* GenerationRecord.from_request_response, in the order of the requests.
Records(requests, replies) ==
    [n \in DOMAIN requests |->
        [request |-> requests[n],
         outcome |-> replies[CHOOSE k \in DOMAIN replies :
                                replies[k].id = requests[n]].outcome]]

\* GenerationBatch.__post_init__: a complete grid in canonical order, without
\* repeated ids, of one benchmark, checkpoint and protocol.
BatchHolds(batch) ==
    LET record(n) == batch.records[n].request
        places == DOMAIN batch.records
    IN  /\ places = 1..(batch.descriptor.count * batch.protocol.samples)
        /\ \A n \in places :
              /\ record(n).index = ItemAt(batch.protocol, n)
              /\ record(n).sample = SampleAt(batch.protocol, n)
              /\ record(n).revision = batch.descriptor.revision
              /\ record(n).checkpoint = batch.checkpoint
              /\ record(n).protocol = batch.protocol
              /\ SemanticsHold(batch.records[n].outcome, batch.protocol)
        /\ \A m, n \in places : record(m) = record(n) => m = n

FailedCount(batch) ==
    Cardinality({n \in DOMAIN batch.records : ~ Completed(batch.records[n].outcome)})

-----------------------------------------------------------------------------
\* Slip: record_count is the number of completed records.
ManifestOfCompleted(batch) ==
    [run |-> batch.run, descriptor |-> batch.descriptor, public |-> batch.public,
     checkpoint |-> batch.checkpoint, protocol |-> batch.protocol,
     records |-> batch.records, count |-> Len(batch.records) - FailedCount(batch),
     failed |-> FailedCount(batch)]

\* GenerationManifest.from_batch: records stands for the two digests of them.
Manifest(batch) ==
    [run |-> batch.run, descriptor |-> batch.descriptor, public |-> batch.public,
     checkpoint |-> batch.checkpoint, protocol |-> batch.protocol,
     records |-> batch.records, count |-> Len(batch.records),
     failed |-> FailedCount(batch)]

\* The batch that load_generation_bundle builds of a manifest and its records.
BatchOf(manifest, records) ==
    [run |-> manifest.run, descriptor |-> manifest.descriptor, public |-> manifest.public,
     checkpoint |-> manifest.checkpoint, protocol |-> manifest.protocol,
     records |-> records]

\* load_generation_bundle accepts the two files for the benchmark it is given:
\* every record is the answer to the request it would itself have made.
BundleLoads(manifest, records, descriptor, public) ==
    LET requests == Requests(public, manifest.checkpoint, manifest.protocol) IN
    /\ manifest.descriptor = descriptor
    /\ manifest.public = public
    /\ records = manifest.records
    /\ Len(records) = manifest.count
    /\ \A n \in DOMAIN records : ResponseHolds(records[n].outcome)
    /\ BatchHolds(BatchOf(manifest, records))
    /\ FailedCount(BatchOf(manifest, records)) = manifest.failed
    /\ DOMAIN records = DOMAIN requests
    /\ \A n \in DOMAIN records : records[n].request = requests[n]

==============================================================================
