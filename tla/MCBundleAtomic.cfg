SPECIFICATION Spec
CONSTANTS
    first = first
    again = again
    other = other
    same = same
    different = different
    Absent = Absent
    Batches = {first, again, other}
    RecordsOf <- SmallRecords
    MaxFaults = 2
INVARIANT BundleIsAtomic
