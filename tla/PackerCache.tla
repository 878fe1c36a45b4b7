---------------------------- MODULE PackerCache -----------------------------
(***************************************************************************)
(* The upload the GPU packer keeps between the statistics and the packing  *)
(* of a field (gpu/src/encode.rs, GpuPacker).  It is recognised by the     *)
(* address and the number of the values, and a freed address comes back    *)
(* with other values: what keeps the cache sound is the order of calls the *)
(* field writer makes (write_values: stats, then pack unless the field is  *)
(* constant), across fields that are constant, of full width, or fail.     *)
(***************************************************************************)
EXTENDS Sequences, Integers, Folds

CONSTANTS
    Addresses,      \* where host allocations may lie
    Contents,       \* what a chunk of values may hold
    CallChunks       \* chunks of a call

ASSUME CacheAssumption == CallChunks \in Nat \ {0}

Chunk == [ptr : Addresses, len : 1 .. 2, data : Contents]
Args == UNION {[1 .. n -> Chunk] : n \in 1 .. CallChunks}

VARIABLES
    args,     \* the values of the call: one slice, or the chunks of the dense lane
    phase,    \* what the caller does next
    cached,   \* the upload kept, [some, key, data]
    packed    \* what the last pack packed

cacheVars == <<args, phase, cached, packed>>

(* What an upload of the values holds on the device. *)
Data(a) == [n \in DOMAIN a |-> <<a[n].len, a[n].data>>]

Values(a) == MapThenFoldSet(LAMBDA x, y : x + y, 0, LAMBDA n : a[n].len,
                           LAMBDA s : CHOOSE n \in s : TRUE, DOMAIN a)

(* The address of the first chunk and the number of values (chunks_key). *)
Key(a) == <<a[1].ptr, Values(a)>>

Nothing == [some |-> FALSE, key |-> <<>>, data |-> <<>>]
Upload(a) == [some |-> TRUE, key |-> Key(a), data |-> Data(a)]

CacheInit == /\ args = <<>>
             /\ phase = "idle"
             /\ cached = Nothing
             /\ packed = <<>>

-----------------------------------------------------------------------------
(* The next field: values that may lie where earlier ones were freed. *)
BeginField ==
    /\ phase = "idle"
    /\ args' \in Args
    /\ phase' = "stats"
    /\ UNCHANGED <<cached, packed>>

\* Mutant of StatsUpload: an upload that matches is used again.
StatsReuse(a) == IF cached.some /\ cached.key = Key(a) THEN cached ELSE Upload(a)

\* Mutant of StatsUpload: the key is renewed, the buffer is not.
StatsRekeyed(a) == [cached EXCEPT !.some = TRUE, !.key = Key(a)]

(* Statistics always upload. *)
StatsUpload(a) == Upload(a)

(* stats, stats_chunks: the upload is kept, and the field may turn out constant,
   of full width, or neither. *)
Stats ==
    /\ phase = "stats"
    /\ cached' = StatsUpload(args)
    /\ phase' \in {"idle", "pack_host", "pack"}
    /\ UNCHANGED <<args, packed>>

(* The upload fails, and with it the field: what was kept before stays. *)
StatsFails ==
    /\ phase = "stats"
    /\ phase' = "idle"
    /\ UNCHANGED <<args, cached, packed>>

(* 64 bits and no divisor: the host packs, the upload is dropped. *)
PackOnHost ==
    /\ phase = "pack_host"
    /\ cached' = Nothing
    /\ packed' = Data(args)
    /\ phase' = "packed"
    /\ UNCHANGED args

(* take_cached, and the kernel on what it took. *)
TakeCached(a) == IF cached.some /\ cached.key = Key(a) THEN cached.data ELSE Data(a)

PackOnDevice ==
    /\ phase = "pack"
    /\ cached' = Nothing
    /\ packed' = TakeCached(args)
    /\ phase' = "packed"
    /\ UNCHANGED args

(* An unsupported width, an allocation, a launch: the upload is gone already. *)
PackFails ==
    /\ phase = "pack"
    /\ cached' = Nothing
    /\ phase' = "idle"
    /\ UNCHANGED <<args, packed>>

EndField ==
    /\ phase = "packed"
    /\ phase' = "idle"
    /\ UNCHANGED <<args, cached, packed>>

CacheNext == \/ BeginField \/ Stats \/ StatsFails
             \/ PackOnHost \/ PackOnDevice \/ PackFails \/ EndField

CacheSpec == CacheInit /\ [][CacheNext]_cacheVars

-----------------------------------------------------------------------------
(* The phases of a field, and an upload that holds the values of its key. *)
CacheTypeOK ==
    /\ args \in Args \cup {<<>>}
    /\ phase # "idle" => args \in Args
    /\ phase \in {"idle", "stats", "pack", "pack_host", "packed"}
    /\ cached = Nothing \/ \E a \in Args : cached = Upload(a)

(* A field is packed from its own values, never from an upload another field
   left at its address (encode.rs:212, "a pointer+len key alone is unsound"). *)
PacksOwnValues == phase = "packed" => packed = Data(args)
=============================================================================
