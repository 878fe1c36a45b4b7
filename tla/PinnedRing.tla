----------------------------- MODULE PinnedRing -----------------------------
(***************************************************************************)
(* The ring of page-locked staging buffers that carries bytes to the GPU   *)
(* (crates/gpu/src/executor.rs PinnedRing; crates/gpu/src/encode.rs        *)
(* upload_values, upload_chunks).  The host copies a chunk into a buffer   *)
(* and submits an asynchronous copy; the GPU runs what the stream holds,   *)
(* in order, at its own pace.  Only the buffers' events keep the host from *)
(* overwriting bytes the GPU has yet to read.                              *)
(*                                                                         *)
(* A stream is the sequence of everything submitted to it and the number   *)
(* of operations executed.  An event is the position at which it was last  *)
(* recorded (0: never), and it has fired once the GPU is past it: the      *)
(* CUDA driver, as executor.rs uses it.                                    *)
(***************************************************************************)
EXTENDS Integers, Sequences

CONSTANTS
    Depth,       \* bufs.len()
    MaxPieces,   \* bound: slices one upload packs into its device buffer
    MaxChunks,   \* bound: chunks of chunk_bytes in a slice
    MaxUploads,  \* bound: uploads through one ring
    RecordMayFail \* whether event.record may return an error

ASSUME ConstantsAssumption ==
    /\ Depth \in Nat \ {0}
    /\ MaxPieces \in Nat /\ MaxChunks \in Nat /\ MaxUploads \in Nat
    /\ RecordMayFail \in BOOLEAN

Bufs == 0 .. Depth - 1

VARIABLES
    pc,        \* where the host is in upload / upload_into / drop
    left,      \* slices upload_chunks has still to pass to upload_into
    chunks,    \* chunks of the slice at hand
    i,         \* the chunk upload_into is at
    base,      \* where the slice at hand begins in the device buffer: off
    sent,      \* chunks submitted by this upload, over all its slices
    staged,    \* what each buffer holds: upload and which of its chunks
    event,     \* where each buffer's event was last recorded in the stream
    stream,    \* everything submitted so far
    executed,  \* how much of it the GPU has done
    device,    \* the device buffer of the upload: its places written so far
    uploads,   \* uploads begun
    freed,     \* buffers whose memory drop has released
    unsynced   \* those among them it could not wait for

hostVars == <<pc, left, chunks, i, base, sent, uploads, freed, unsynced>>
vars == <<pc, left, chunks, i, base, sent, staged, event, stream, executed,
          device, uploads, freed, unsynced>>

Tag == Nat \X Nat          \* <<upload, chunk>>: which bytes these are
Copy == [op : {"copy"}, buf : Bufs, to : Nat, upload : Nat]
Record == [op : {"record"}, buf : Bufs, to : {0}, upload : Nat]

\* What has been written of the device buffer, place by place.
DeviceOK ==
    /\ device = [place \in DOMAIN device |-> device[place]]
    /\ DOMAIN device \subseteq Nat
    /\ \A place \in DOMAIN device : device[place] \in Tag

TypeOK ==
    /\ pc \in {"idle", "slice", "wait", "copy", "submit", "record",
               "synchronize", "drop", "dropped"}
    /\ left \in Nat /\ chunks \in Nat /\ i \in Nat
    /\ base \in Nat /\ sent \in Nat
    /\ uploads \in Nat
    /\ staged \in [Bufs -> Tag]
    /\ event \in [Bufs -> Nat]
    /\ stream \in Seq(Copy \cup Record)
    /\ executed \in Nat
    /\ DeviceOK
    /\ freed \subseteq Bufs /\ unsynced \subseteq Bufs

Init ==
    /\ pc = "idle"
    /\ left = 0 /\ chunks = 0 /\ i = 0 /\ base = 0 /\ sent = 0 /\ uploads = 0
    /\ staged = [b \in Bufs |-> <<0, 0>>]
    /\ event = [b \in Bufs |-> 0]
    /\ stream = <<>>
    /\ executed = 0
    /\ device = <<>>
    /\ freed = {} /\ unsynced = {}

-----------------------------------------------------------------------------
(* The host.                                                               *)

\* alloc_zeros for the slices an upload will pack; upload has one.
Begin(pieces) ==
    /\ pc = "idle"
    /\ uploads < MaxUploads
    /\ uploads' = uploads + 1
    /\ left' = pieces
    /\ chunks' = 0 /\ base' = 0 /\ sent' = 0
    /\ device' = <<>>
    /\ pc' = "slice"
    /\ UNCHANGED <<i, staged, event, stream, executed, freed, unsynced>>

\* Mutant of MoreSlices: one slice too many.
MoreSlicesOrNone == left >= 0

MoreSlices == left > 0

\* The slice before has taken its places in the device buffer; upload_into
\* starts at buffer 0 for every slice.
NextSlice(n) ==
    /\ pc = "slice" /\ MoreSlices
    /\ left' = left - 1
    /\ base' = base + chunks
    /\ chunks' = n
    /\ i' = 0
    /\ pc' = IF n > 0 THEN "wait" ELSE "slice"
    /\ UNCHANGED <<sent, staged, event, stream, executed, device, uploads, freed,
                   unsynced>>

NoMoreSlices ==
    /\ pc = "slice" /\ ~MoreSlices
    /\ pc' = "synchronize"
    /\ UNCHANGED <<left, chunks, i, base, sent, staged, event, stream,
                   executed, device, uploads, freed, unsynced>>

Buf == i % Depth

Fired(b) == event[b] <= executed

\* event.synchronize()
AwaitEvent ==
    /\ pc = "wait"
    /\ Fired(Buf)
    /\ pc' = "copy"
    /\ UNCHANGED <<left, chunks, i, base, sent, staged, event, stream,
                   executed, device, uploads, freed, unsynced>>

\* copy_nonoverlapping into the staging buffer
StageChunk ==
    /\ pc = "copy"
    /\ staged' = [staged EXCEPT ![Buf] = <<uploads, sent + 1>>]
    /\ pc' = "submit"
    /\ UNCHANGED <<left, chunks, i, base, sent, event, stream, executed, device,
                   uploads, freed, unsynced>>

\* Mutant of Place: the offset of the slice is forgotten.
PlaceInSlice == i + 1

\* dptr + off: where the chunk at hand goes in the device buffer.
Place == base + i + 1

\* memcpy_htod_async
SubmitCopy ==
    /\ pc = "submit"
    /\ stream' = Append(stream, [op |-> "copy", buf |-> Buf, to |-> Place,
                                 upload |-> uploads])
    /\ sent' = sent + 1
    /\ pc' = "record"
    /\ UNCHANGED <<left, chunks, i, base, staged, event, executed, device, uploads,
                   freed, unsynced>>

\* Mutant of RecordPosition: the event is recorded before the copy it is to
\* guard.
RecordBeforeCopy == Len(stream) - 1

\* Where a record that is submitted now lands in the stream.
RecordPosition == Len(stream) + 1

\* event.record(stream), and on to the next chunk
RecordEvent ==
    /\ pc = "record"
    /\ stream' = Append(stream, [op |-> "record", buf |-> Buf, to |-> 0,
                                 upload |-> uploads])
    /\ event' = [event EXCEPT ![Buf] = RecordPosition]
    /\ i' = i + 1
    /\ pc' = IF i + 1 < chunks THEN "wait" ELSE "slice"
    /\ UNCHANGED <<left, chunks, base, sent, staged, executed, device, uploads,
                   freed, unsynced>>

\* stream.synchronize(): the upload returns
Synchronize ==
    /\ pc = "synchronize"
    /\ executed = Len(stream)
    /\ pc' = "idle"
    /\ UNCHANGED <<left, chunks, i, base, sent, staged, event, stream,
                   executed, device, uploads, freed, unsynced>>

\* A CUDA call fails: upload returns the error without waiting for the chunks
\* already submitted, and the ring may be used again or dropped.
CallFails ==
    /\ pc \in {"slice", "wait", "submit", "synchronize"}
          \cup (IF RecordMayFail THEN {"record"} ELSE {})
    /\ pc' = "idle"
    /\ UNCHANGED <<left, chunks, i, base, sent, staged, event, stream,
                   executed, device, uploads, freed, unsynced>>

\* Drop for PinnedRing: buffer after buffer.
Drop ==
    /\ pc = "idle"
    /\ i' = 0
    /\ pc' = "drop"
    /\ UNCHANGED <<left, chunks, base, sent, staged, event, stream, executed,
                   device, uploads, freed, unsynced>>

\* event.synchronize() and free_host; the errors of both are ignored: a buffer
\* that could not be waited for is released all the same, and one that could
\* not be released is left behind.
FreeBuffer ==
    /\ pc = "drop"
    /\ \/ Fired(Buf) /\ UNCHANGED unsynced
       \/ unsynced' = unsynced \cup {Buf}
    /\ freed' \in {freed, freed \cup {Buf}}
    /\ i' = i + 1
    /\ pc' = IF i + 1 < Depth THEN "drop" ELSE "dropped"
    /\ UNCHANGED <<left, chunks, base, sent, staged, event, stream, executed,
                   device, uploads>>

-----------------------------------------------------------------------------
(* The GPU: the head of the stream.  A copy reads the staging buffer as it *)
(* is when the copy runs, and writes the place it was given; an upload     *)
(* that was given up has freed its device buffer, in stream order.         *)

Written(place, bytes) ==
    [p \in DOMAIN device \cup {place} |-> IF p = place THEN bytes ELSE device[p]]

Execute ==
    /\ executed < Len(stream)
    /\ executed' = executed + 1
    /\ LET head == stream[executed + 1] IN
          device' = IF head.op = "copy" /\ head.upload = uploads
                    THEN Written(head.to, staged[head.buf]) ELSE device
    /\ UNCHANGED <<hostVars, staged, event, stream>>

-----------------------------------------------------------------------------
UploadStep ==
    \/ \E n \in 0 .. MaxChunks : NextSlice(n)
    \/ NoMoreSlices \/ AwaitEvent \/ StageChunk \/ SubmitCopy \/ RecordEvent
    \/ Synchronize

Next ==
    \/ \E n \in 1 .. MaxPieces : Begin(n)
    \/ UploadStep
    \/ CallFails
    \/ Drop
    \/ FreeBuffer
    \/ Execute

Spec == Init /\ [][Next]_vars

-----------------------------------------------------------------------------
(* Properties.                                                             *)

\* A copy that the stream holds and the GPU has not run yet.
InFlight(b) ==
    \E k \in executed + 1 .. Len(stream) : stream[k].op = "copy" /\ stream[k].buf = b

\* "No DMA in flight per the event sync" (upload_into): when the host is about
\* to write a staging buffer, no submitted copy has still to read it, not
\* even one of an earlier slice, of an earlier upload or of one that failed.
NeverOverwritesInFlight == pc = "copy" => ~InFlight(Buf)

\* A buffer that drop has released after a wait that succeeded is never read
\* by a copy, not even by one of an upload that was given up (PinnedRing::drop).
NeverFreesInFlight == \A b \in freed \ unsynced : ~InFlight(b)

\* "staged is pinned and outlives the copy (event-gated)" (upload_into), that
\* is, whatever drop waits for: violated when event.synchronize fails in drop,
\* whose result is thrown away (executor.rs:616).
StagedOutlivesCopy == \A b \in freed : ~InFlight(b)

\* When upload returns, the device holds the chunks of this upload, each one
\* at its place, whatever buffers they went through: those of a slice begin
\* where those of the slice before end, and no place is left out.
DeviceHoldsUpload ==
    (pc = "synchronize" /\ executed = Len(stream)) =>
        device = [k \in 1 .. sent |-> <<uploads, k>>]

\* A staged chunk does not change between its submission and its copy.
StagedIsStable ==
    [][\A b \in Bufs : InFlight(b) => staged'[b] = staged[b]]_vars
=============================================================================
