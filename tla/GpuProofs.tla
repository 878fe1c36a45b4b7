----------------------------- MODULE GpuProofs -----------------------------
(***************************************************************************)
(* Proofs about the host side of a GpuPacker: PinnedRing, for every depth  *)
(* of the ring and every number of uploads, slices and chunks, and         *)
(* PackerCache; and about the device top-k of BM25, Bm25TopK.  The         *)
(* argument for the ring: a copy the GPU has still to run lies before the  *)
(* event of the buffer it reads (Guarded), unless the host is between the  *)
(* two calls; so a buffer whose event has fired is read by nobody.  This   *)
(* needs event.record to succeed: ~RecordMayFail.                          *)
(***************************************************************************)
EXTENDS PinnedRing, PackerCache, Bm25TopK, ListingsProofs

\* The copies that have not run, and those among them of this upload.
Waiting == {k \in executed + 1 .. Len(stream) : stream[k].op = "copy"}
WaitingNow == {k \in Waiting : stream[k].upload = uploads}

\* The stream's bookkeeping stays within the stream.
Positions ==
    /\ executed <= Len(stream)
    /\ \A b \in Bufs : event[b] <= Len(stream)
    /\ \A k \in 1 .. Len(stream) : stream[k].upload <= uploads

\* Every waiting copy is guarded by the event of its buffer.
Guarded ==
    \A k \in Waiting :
        \/ k < event[stream[k].buf]
        \/ pc = "record" /\ k = Len(stream) /\ stream[k].buf = Buf

\* The host holds a buffer, or has freed it after a wait, only when its event
\* has fired.
Held ==
    /\ pc \in {"copy", "submit"} => Fired(Buf)
    /\ freed # {} => pc \in {"drop", "dropped"}
    /\ \A b \in freed \ unsynced : Fired(b)

\* Where the host is in the upload: the chunks sent are those of the slices
\* before and those of the slice at hand, up to i, with no place left out.
InPlace ==
    /\ pc = "slice" => base + chunks = sent
    /\ pc \in {"wait", "copy", "submit"} => base + i = sent /\ i < chunks
    /\ pc = "record" => base + i + 1 = sent /\ i < chunks

\* Device and waiting copies together are the chunks 1 .. sent of the upload,
\* each one staged where its copy will read it.
Arriving ==
    /\ pc = "submit" => staged[Buf] = <<uploads, sent + 1>>
    /\ \A n \in DOMAIN device : n \in 1 .. sent /\ device[n] = <<uploads, n>>
    /\ \A k \in WaitingNow :
          /\ stream[k].to \in 1 .. sent
          /\ staged[stream[k].buf] = <<uploads, stream[k].to>>
    /\ \A n \in 1 .. sent : n \in DOMAIN device \/ \E k \in WaitingNow : stream[k].to = n

IInv == TypeOK /\ Positions /\ Guarded /\ Held /\ InPlace /\ Arriving
-----------------------------------------------------------------------------
(* i modulo the depth of the ring is a buffer. *)
LEMMA BufInBufs == ASSUME TypeOK PROVE Buf \in Bufs
BY ConstantsAssumption DEF TypeOK, Buf, Bufs

(* A buffer whose event has fired has no waiting copy, except between the
   submission of one and the record of its event. *)
LEMMA FiredIsFree ==
    ASSUME TypeOK, Guarded, NEW b \in Bufs, Fired(b), pc # "record"
    PROVE  \A k \in Waiting : stream[k].buf # b
BY DEF TypeOK, Guarded, Fired, Waiting, Copy, Record

(* What the host submits is an operation of the stream. *)
LEMMA Submitted ==
    ASSUME TypeOK
    PROVE  /\ [op |-> "copy", buf |-> Buf, to |-> Place, upload |-> uploads] \in Copy
           /\ [op |-> "record", buf |-> Buf, to |-> 0, upload |-> uploads] \in Record
BY BufInBufs DEF TypeOK, Copy, Record, Place

(* The initial state satisfies the invariant. *)
LEMMA InitIInv == Init => IInv
<1> SUFFICES ASSUME Init PROVE IInv
  OBVIOUS
<1>1. TypeOK
  BY DEF Init, TypeOK, DeviceOK, Tag, Bufs
<1>2. Positions /\ Guarded /\ Held
  BY DEF Init, Positions, Guarded, Held, Waiting, Bufs
<1>3. Arriving
  BY DEF Init, Arriving, WaitingNow, Waiting
<1>4. InPlace
  BY DEF Init, InPlace
<1> QED
  BY <1>1, <1>2, <1>3, <1>4 DEF IInv

(* Every step keeps the variables in their types. *)
LEMMA NextTypeOK == ASSUME TypeOK, [Next]_vars PROVE TypeOK'
<1> USE DEF TypeOK
<1>0. UNCHANGED device => DeviceOK'
  BY DEF DeviceOK
<1>1. ASSUME NEW n \in 1 .. MaxPieces, Begin(n) PROVE TypeOK'
  BY <1>1, ConstantsAssumption DEF Begin, DeviceOK
<1>2. ASSUME NEW n \in 0 .. MaxChunks, NextSlice(n) PROVE TypeOK'
  BY <1>0, <1>2, ConstantsAssumption DEF NextSlice, MoreSlices
<1>3. CASE NoMoreSlices
  BY <1>0, <1>3 DEF NoMoreSlices
<1>4. CASE AwaitEvent
  BY <1>0, <1>4 DEF AwaitEvent
<1>5. CASE StageChunk
  BY <1>0, <1>5, BufInBufs DEF StageChunk, Tag
<1>6. CASE SubmitCopy
  <2>1. stream' \in Seq(Copy \cup Record)
    BY <1>6, Submitted DEF SubmitCopy
  <2> QED
    BY <1>0, <1>6, <2>1 DEF SubmitCopy
<1>7. CASE RecordEvent
  <2>1. stream' \in Seq(Copy \cup Record)
    BY <1>7, Submitted DEF RecordEvent
  <2>2. Len(stream) + 1 \in Nat
    OBVIOUS
  <2>3. event' \in [Bufs -> Nat]
    BY <1>7, <2>2 DEF RecordEvent, RecordPosition
  <2> QED
    BY <1>0, <1>7, <2>1, <2>3 DEF RecordEvent
<1>8. CASE Synchronize
  BY <1>0, <1>8 DEF Synchronize
<1>9. CASE CallFails
  BY <1>0, <1>9 DEF CallFails
<1>10. CASE Drop
  BY <1>0, <1>10 DEF Drop
<1>11. CASE FreeBuffer
  BY <1>0, <1>11, BufInBufs DEF FreeBuffer
<1>12. CASE Execute
  <2>1. stream[executed + 1] \in Copy \cup Record
    BY <1>12 DEF Execute
  <2>2. /\ staged[stream[executed + 1].buf] \in Tag
        /\ stream[executed + 1].op = "copy" => stream[executed + 1].to \in Nat
    BY <2>1 DEF Copy, Record
  <2>3. DeviceOK'
    BY <1>12, <2>2 DEF Execute, Written, DeviceOK
  <2> QED
    BY <1>12, <2>3 DEF Execute, hostVars
<1>13. CASE UNCHANGED vars
  BY <1>0, <1>13 DEF vars
<1> QED
  BY <1>1, <1>2, <1>3, <1>4, <1>5, <1>6, <1>7, <1>8, <1>9, <1>10, <1>11,
     <1>12, <1>13 DEF Next, UploadStep
(* Every step but a failing record keeps the bookkeeping, the guards and what
   the host holds. *)
LEMMA NextGuarded ==
    ASSUME IInv, ~RecordMayFail, [Next]_vars
    PROVE  Positions' /\ Guarded' /\ Held'
<1> USE DEF IInv, TypeOK, Positions, Waiting
<1>1. ASSUME NEW n \in 1 .. MaxPieces, Begin(n) PROVE Positions' /\ Guarded' /\ Held'
  <2>1. \A k \in 1 .. Len(stream) : stream[k] \in Copy \cup Record
    OBVIOUS
  <2>2. Positions'
    BY <1>1, <2>1 DEF Begin, Copy, Record
  <2>3. Guarded' /\ Held'
    BY <1>1 DEF Begin, Guarded, Held, Fired
  <2> QED
    BY <2>2, <2>3
<1>2. ASSUME NEW n \in 0 .. MaxChunks, NextSlice(n)
      PROVE  Positions' /\ Guarded' /\ Held'
  BY <1>2 DEF NextSlice, MoreSlices, Guarded, Held, Fired
<1>3. CASE NoMoreSlices
  BY <1>3 DEF NoMoreSlices, Guarded, Held, Fired
<1>4. CASE AwaitEvent
  BY <1>4 DEF AwaitEvent, Guarded, Held, Fired, Buf
<1>5. CASE StageChunk
  BY <1>5 DEF StageChunk, Guarded, Held, Fired, Buf
<1>6. CASE SubmitCopy
  <2> DEFINE new == [op |-> "copy", buf |-> Buf, to |-> Place, upload |-> uploads]
  <2>1. /\ Len(stream') = Len(stream) + 1
        /\ \A k \in 1 .. Len(stream) : stream'[k] = stream[k]
        /\ stream'[Len(stream) + 1] = new
    BY <1>6 DEF SubmitCopy
  <2>2. Positions'
    BY <1>6, <2>1 DEF SubmitCopy
  <2>3. Guarded'
    BY <1>6, <2>1 DEF SubmitCopy, Guarded, Buf
  <2>4. Held'
    BY <1>6, <2>1 DEF SubmitCopy, Held, Fired
  <2> QED
    BY <2>2, <2>3, <2>4
<1>7. CASE RecordEvent
  <2> DEFINE new == [op |-> "record", buf |-> Buf, to |-> 0, upload |-> uploads]
  <2>1. /\ Len(stream') = Len(stream) + 1
        /\ \A k \in 1 .. Len(stream) : stream'[k] = stream[k]
        /\ stream'[Len(stream) + 1] = new
    BY <1>7 DEF RecordEvent
  <2>2. /\ event'[Buf] = Len(stream) + 1
        /\ \A b \in Bufs : b # Buf => event'[b] = event[b]
    BY <1>7, BufInBufs DEF RecordEvent, RecordPosition
  <2>3. Positions'
    BY <1>7, <2>1, <2>2 DEF RecordEvent
  <2>4. Guarded'
    <3> SUFFICES ASSUME NEW k \in Waiting'
                 PROVE  k < event'[stream'[k].buf]
      BY DEF Guarded
    <3>1. k \in Waiting /\ stream'[k] = stream[k]
      BY <1>7, <2>1 DEF RecordEvent
    <3>2. stream[k].buf \in Bufs
      BY <3>1 DEF Copy, Record
    <3>3. CASE stream[k].buf = Buf
      BY <3>1, <3>3, <2>2
    <3>4. CASE stream[k].buf # Buf
      <4>1. PICK b \in Bufs : b = stream[k].buf /\ b = stream'[k].buf
        BY <3>1, <3>2
      <4>2. event'[b] = event[b]
        BY <3>4, <4>1, <2>2
      <4>3. k < event[b]
        BY <3>1, <3>4, <4>1 DEF Guarded
      <4> QED
        BY <4>1, <4>2, <4>3
    <3> QED
      BY <3>3, <3>4
  <2>5. Held'
    BY <1>7 DEF RecordEvent, Held, Fired
  <2> QED
    BY <2>3, <2>4, <2>5
<1>8. CASE Synchronize
  BY <1>8 DEF Synchronize, Guarded, Held, Fired
<1>9. CASE CallFails
  BY <1>9 DEF CallFails, Guarded, Held, Fired
<1>10. CASE Drop
  BY <1>10 DEF Drop, Guarded, Held, Fired
<1>11. CASE FreeBuffer
  <2>1. Positions' /\ Guarded'
    BY <1>11 DEF FreeBuffer, Guarded
  <2>2. Held'
    BY <1>11 DEF FreeBuffer, Held, Fired
  <2> QED
    BY <2>1, <2>2
<1>12. CASE Execute
  <2>1. Positions' /\ Guarded'
    BY <1>12 DEF Execute, hostVars, Guarded, Buf
  <2>2. Held'
    BY <1>12, BufInBufs DEF Execute, hostVars, Held, Fired, Buf
  <2> QED
    BY <2>1, <2>2
<1>13. CASE UNCHANGED vars
  BY <1>13 DEF vars, Guarded, Held, Fired, Buf
<1> QED
  BY <1>1, <1>2, <1>3, <1>4, <1>5, <1>6, <1>7, <1>8, <1>9, <1>10, <1>11,
     <1>12, <1>13 DEF Next, UploadStep
(* Every step keeps the host's count of the chunks sent. *)
LEMMA NextInPlace == ASSUME IInv, [Next]_vars PROVE InPlace'
<1> USE DEF IInv, TypeOK, InPlace
<1>1. ASSUME NEW n \in 1 .. MaxPieces, Begin(n) PROVE InPlace'
  BY <1>1 DEF Begin
<1>2. ASSUME NEW n \in 0 .. MaxChunks, NextSlice(n) PROVE InPlace'
  BY <1>2, ConstantsAssumption DEF NextSlice
<1>3. CASE NoMoreSlices
  BY <1>3 DEF NoMoreSlices
<1>4. CASE AwaitEvent
  BY <1>4 DEF AwaitEvent
<1>5. CASE StageChunk
  BY <1>5 DEF StageChunk
<1>6. CASE SubmitCopy
  BY <1>6 DEF SubmitCopy
<1>7. CASE RecordEvent
  BY <1>7 DEF RecordEvent
<1>8. CASE Synchronize
  BY <1>8 DEF Synchronize
<1>9. CASE CallFails
  BY <1>9 DEF CallFails
<1>10. CASE Drop
  BY <1>10 DEF Drop
<1>11. CASE FreeBuffer
  BY <1>11 DEF FreeBuffer
<1>12. CASE Execute
  BY <1>12 DEF Execute, hostVars
<1>13. CASE UNCHANGED vars
  BY <1>13 DEF vars
<1> QED
  BY <1>1, <1>2, <1>3, <1>4, <1>5, <1>6, <1>7, <1>8, <1>9, <1>10, <1>11,
     <1>12, <1>13 DEF Next, UploadStep
(* Every step keeps the device and the waiting copies together complete. *)
LEMMA NextArriving == ASSUME IInv, ~RecordMayFail, [Next]_vars PROVE Arriving'
<1> USE DEF IInv, TypeOK, Waiting, WaitingNow
<1>0. \A k \in 1 .. Len(stream) : stream[k] \in Copy \cup Record
  OBVIOUS
<1>1. ASSUME NEW n \in 1 .. MaxPieces, Begin(n) PROVE Arriving'
  <2>1. WaitingNow' = {}
    BY <1>1, <1>0 DEF Begin, Positions, Copy, Record
  <2>2. DOMAIN device' = {} /\ sent' = 0 /\ pc' = "slice"
    BY <1>1 DEF Begin
  <2> HIDE DEF WaitingNow, Waiting
  <2> QED
    BY <2>1, <2>2 DEF Arriving
<1>2. ASSUME NEW n \in 0 .. MaxChunks, NextSlice(n) PROVE Arriving'
  BY <1>2 DEF NextSlice, MoreSlices, Arriving
<1>3. CASE NoMoreSlices
  BY <1>3 DEF NoMoreSlices, Arriving
<1>4. CASE AwaitEvent
  BY <1>4 DEF AwaitEvent, Arriving
<1>5. CASE StageChunk
  <2>1. \A k \in Waiting : stream[k].buf # Buf
    BY <1>5, BufInBufs, FiredIsFree DEF StageChunk, Held
  <2>2. staged'[Buf] = <<uploads, sent + 1>>
    BY <1>5, BufInBufs DEF StageChunk
  <2>3. \A k \in Waiting : staged'[stream[k].buf] = staged[stream[k].buf]
    BY <1>5, <1>0, <2>1 DEF StageChunk, Copy, Record
  <2>4. /\ pc' = "submit" /\ Buf' = Buf
        /\ UNCHANGED <<sent, stream, executed, device, uploads>>
    BY <1>5 DEF StageChunk, Buf
  <2>5. Waiting' = Waiting /\ WaitingNow' = WaitingNow /\ WaitingNow \subseteq Waiting
    BY <2>4
  <2> HIDE DEF Waiting, WaitingNow, TypeOK, IInv
  <2>6. Arriving
    BY DEF IInv
  <2> QED
    BY <2>2, <2>3, <2>4, <2>5, <2>6 DEF Arriving
<1>6. CASE SubmitCopy
  <2> DEFINE new == [op |-> "copy", buf |-> Buf, to |-> Place, upload |-> uploads]
             last == Len(stream) + 1
  <2>1. /\ Len(stream') = last
        /\ \A k \in 1 .. Len(stream) : stream'[k] = stream[k]
        /\ stream'[last] = new
    BY <1>6 DEF SubmitCopy
  <2>2. WaitingNow' = WaitingNow \cup {last}
    BY <1>6, <2>1 DEF SubmitCopy, Positions
  <2>3. /\ WaitingNow \subseteq Nat /\ last \in Nat
        /\ \A k \in WaitingNow : stream'[k] = stream[k] /\ k < last
    BY <2>1
  <2>4. staged' = staged /\ device' = device /\ uploads' = uploads
        /\ sent' = sent + 1 /\ pc' # "submit" /\ staged[Buf] = <<uploads, sent + 1>>
    BY <1>6 DEF SubmitCopy, Arriving
  <2>5. stream'[last].to = sent + 1 /\ stream'[last].buf = Buf
    BY <1>6, <2>1 DEF SubmitCopy, InPlace, Place
  <2> HIDE DEF WaitingNow, Waiting, last
  <2>6. sent \in Nat /\ 1 .. sent + 1 = (1 .. sent) \cup {sent + 1}
    BY DEF TypeOK
  <2>7. \A k \in WaitingNow' :
           /\ stream'[k].to \in 1 .. sent + 1
           /\ staged[stream'[k].buf] = <<uploads, stream'[k].to>>
    <3> SUFFICES ASSUME NEW k \in WaitingNow'
                 PROVE  /\ stream'[k].to \in 1 .. sent + 1
                        /\ staged[stream'[k].buf] = <<uploads, stream'[k].to>>
      OBVIOUS
    <3>1. CASE k = last
      BY <2>4, <2>5, <2>6, <3>1
    <3>2. CASE k # last
      <4>1. k \in WaitingNow /\ stream'[k] = stream[k]
        BY <2>2, <2>3, <3>2
      <4> QED
        BY <2>6, <4>1 DEF Arriving
    <3> QED
      BY <3>1, <3>2
  <2>8. \A n \in 1 .. sent + 1 : n \in DOMAIN device \/ \E k \in WaitingNow' : stream'[k].to = n
    <3> TAKE n \in 1 .. sent + 1
    <3>1. CASE n = sent + 1
      BY <2>2, <2>5, <3>1
    <3>2. CASE n \in 1 .. sent
      BY <2>2, <2>3, <3>2 DEF Arriving
    <3> QED
      BY <2>6, <3>1, <3>2
  <2>9. \A n \in DOMAIN device' : n \in 1 .. sent' /\ device'[n] = <<uploads', n>>
    BY <2>4, <2>6 DEF Arriving
  <2> QED
    BY <2>4, <2>7, <2>8, <2>9 DEF Arriving
<1>7. CASE RecordEvent
  <2> DEFINE last == Len(stream) + 1
  <2>1. /\ Len(stream') = last
        /\ \A k \in 1 .. Len(stream) : stream'[k] = stream[k]
        /\ stream'[last].op = "record"
    BY <1>7 DEF RecordEvent
  <2>2. WaitingNow' = WaitingNow
    BY <1>7, <2>1 DEF RecordEvent, Positions
  <2>3. \A k \in WaitingNow : stream'[k] = stream[k]
    BY <2>1
  <2>4. /\ device' = device /\ sent' = sent /\ pc' # "submit"
        /\ uploads' = uploads /\ staged' = staged
    BY <1>7 DEF RecordEvent
  <2> HIDE DEF WaitingNow, Waiting
  <2> QED
    BY <2>2, <2>3, <2>4 DEF Arriving
<1>8. CASE Synchronize
  BY <1>8 DEF Synchronize, Arriving
<1>9. CASE CallFails
  BY <1>9 DEF CallFails, Arriving
<1>10. CASE Drop
  BY <1>10 DEF Drop, Arriving
<1>11. CASE FreeBuffer
  BY <1>11 DEF FreeBuffer, Arriving
<1>12. CASE Execute
  <2> DEFINE head == executed + 1
  <2>1. /\ stream' = stream /\ staged' = staged /\ sent' = sent /\ pc' = pc
        /\ uploads' = uploads /\ Buf' = Buf
        /\ WaitingNow' = WaitingNow \ {head}
    BY <1>12 DEF Execute, hostVars, Buf
  <2>2. CASE head \in WaitingNow
    <3>1. PICK to \in 1 .. sent : to = stream[head].to /\ staged[stream[head].buf] = <<uploads, to>>
      BY <2>2 DEF Arriving
    <3>2. device' = Written(to, <<uploads, to>>)
      BY <1>12, <2>2, <3>1 DEF Execute
    <3> HIDE DEF WaitingNow, Waiting, TypeOK, IInv
    <3>3. /\ DOMAIN device' = DOMAIN device \cup {to}
          /\ device'[to] = <<uploads, to>>
          /\ \A n \in DOMAIN device : n # to => device'[n] = device[n]
      BY <3>2 DEF Written
    <3>4. \A n \in DOMAIN device' : n \in 1 .. sent /\ device'[n] = <<uploads, n>>
      BY <3>3 DEF Arriving, IInv
    <3>5. \A n \in 1 .. sent : n \in DOMAIN device' \/ \E k \in WaitingNow' : stream[k].to = n
      BY <2>1, <3>1, <3>3 DEF Arriving, IInv
    <3> QED
      BY <2>1, <3>4, <3>5 DEF Arriving, IInv
  <2>3. CASE head \notin WaitingNow
    <3>1. device' = device
      BY <1>12, <2>3 DEF Execute
    <3> QED
      BY <2>1, <2>3, <3>1 DEF Arriving
  <2> QED
    BY <2>2, <2>3
<1>13. CASE UNCHANGED vars
  BY <1>13 DEF vars, Arriving, Buf
<1> QED
  BY <1>1, <1>2, <1>3, <1>4, <1>5, <1>6, <1>7, <1>8, <1>9, <1>10, <1>11,
     <1>12, <1>13 DEF Next, UploadStep
-----------------------------------------------------------------------------
(* What the invariant is for.                                              *)

(* If no record fails, the invariant holds throughout. *)
THEOREM Invariant == ASSUME ~RecordMayFail PROVE Spec => []IInv
<1>1. IInv /\ [Next]_vars => IInv'
  BY NextTypeOK, NextGuarded, NextInPlace, NextArriving DEF IInv
<1> QED
  BY <1>1, InitIInv, PTL DEF Spec

(* The variables of the ring keep their types, whatever fails. *)
THEOREM TypeCorrect == Spec => []TypeOK
<1>1. Init => TypeOK
  BY InitIInv DEF IInv
<1>2. TypeOK /\ [Next]_vars => TypeOK'
  BY NextTypeOK
<1> QED
  BY <1>1, <1>2, PTL DEF Spec

(* upload_into never writes a staging buffer that a submitted copy has still
   to read: the "SAFETY: no DMA in flight per the event sync" of the code,
   for every depth of the ring and over uploads that failed half-way. *)
THEOREM NoOverwrite == ASSUME ~RecordMayFail PROVE Spec => []NeverOverwritesInFlight
<1>1. IInv => NeverOverwritesInFlight
  BY BufInBufs, FiredIsFree DEF IInv, Held, NeverOverwritesInFlight, InFlight, Waiting
<1> QED
  BY <1>1, Invariant, PTL

(* Waiting for its event is enough for a buffer to be released: drop never
   releases one under a copy unless CUDA refused to wait for it. *)
THEOREM NoEarlyFree == ASSUME ~RecordMayFail PROVE Spec => []NeverFreesInFlight
<1>1. ASSUME IInv, NEW b \in freed \ unsynced PROVE ~InFlight(b)
  <2>1. b \in Bufs /\ Fired(b) /\ pc # "record"
    BY <1>1 DEF IInv, TypeOK, Held
  <2> QED
    BY <1>1, <2>1, FiredIsFree DEF IInv, InFlight, Waiting
<1>2. IInv => NeverFreesInFlight
  BY <1>1 DEF NeverFreesInFlight
<1> QED
  BY <1>2, Invariant, PTL

(* When the stream has drained, the device buffer holds the chunks of the
   upload, all of them, each at its place: upload returns what it was given. *)
THEOREM UploadArrives == ASSUME ~RecordMayFail PROVE Spec => []DeviceHoldsUpload
<1>1. ASSUME IInv, executed = Len(stream) PROVE device = [k \in 1 .. sent |-> <<uploads, k>>]
  <2>1. WaitingNow = {}
    BY <1>1 DEF IInv, TypeOK, WaitingNow, Waiting
  <2>2. DOMAIN device = 1 .. sent /\ \A n \in 1 .. sent : device[n] = <<uploads, n>>
    BY <1>1, <2>1 DEF IInv, Arriving
  <2>3. device = [place \in DOMAIN device |-> device[place]]
    BY <1>1 DEF IInv, TypeOK, DeviceOK
  <2> QED
    BY <2>2, <2>3
<1>2. IInv => DeviceHoldsUpload
  BY <1>1 DEF DeviceHoldsUpload
<1> QED
  BY <1>2, Invariant, PTL

(* A staged chunk keeps its bytes until its copy has run. *)
THEOREM StagedStable == ASSUME ~RecordMayFail PROVE Spec => StagedIsStable
<1> DEFINE Stable == \A b \in Bufs : InFlight(b) => staged'[b] = staged[b]
<1>1. ASSUME IInv, Next, NEW b \in Bufs, InFlight(b) PROVE staged'[b] = staged[b]
  <2>1. CASE StageChunk
    <3>1. b # Buf
      BY <1>1, <2>1, BufInBufs, FiredIsFree
         DEF IInv, Held, StageChunk, InFlight, Waiting
    <3> QED
      BY <1>1, <2>1, <3>1 DEF IInv, TypeOK, StageChunk
  <2>2. CASE ~StageChunk
    <3>1. staged' = staged
      BY <1>1, <2>2 DEF Next, UploadStep, Begin, NextSlice, NoMoreSlices, AwaitEvent,
         SubmitCopy, RecordEvent, Synchronize, CallFails, Drop, FreeBuffer, Execute
    <3> QED
      BY <3>1
  <2> QED
    BY <2>1, <2>2
<1>2. IInv /\ [Next]_vars => [Stable]_vars
  BY <1>1
<1> QED
  BY <1>2, Invariant, PTL DEF Spec, StagedIsStable

-----------------------------------------------------------------------------
(* PackerCache.                                                            *)

(* Between statistics and packing, the upload kept is the field's. *)
KeptIsOwn == phase \in {"pack", "pack_host"} => cached = Upload(args)

(* For any addresses, contents and number of chunks, under the calls the   *)
(* field writer makes, a field is packed from its own values.              *)

(* A pack that follows statistics finds the upload they made: no field in
   between, constant, failed or of full width, can have left another one. *)
CacheIInv == CacheTypeOK /\ KeptIsOwn /\ PacksOwnValues

(* An upload recognised by its own key is its own values. *)
LEMMA OwnUpload == ASSUME NEW a PROVE TakeCached(a) = Data(a) \/ cached # Upload(a)
  BY DEF TakeCached, Upload

LEMMA CacheStarts == CacheInit => CacheIInv
  BY DEF CacheInit, CacheIInv, CacheTypeOK, KeptIsOwn, PacksOwnValues, Nothing

LEMMA CacheStays == CacheIInv /\ [CacheNext]_cacheVars => CacheIInv'
<1> SUFFICES ASSUME CacheIInv, [CacheNext]_cacheVars PROVE CacheIInv'
  OBVIOUS
<1> USE DEF CacheIInv, CacheTypeOK, KeptIsOwn, PacksOwnValues
<1>1. CASE BeginField
  BY <1>1 DEF BeginField
<1>2. CASE Stats
  BY <1>2 DEF Stats, StatsUpload, Upload
<1>3. CASE StatsFails
  BY <1>3 DEF StatsFails
<1>4. CASE PackOnHost
  BY <1>4 DEF PackOnHost, Nothing
<1>5. CASE PackOnDevice
  <2>1. TakeCached(args) = Data(args)
    BY <1>5, OwnUpload DEF PackOnDevice
  <2>2. QED
    BY <1>5, <2>1 DEF PackOnDevice, Nothing
<1>6. CASE PackFails
  BY <1>6 DEF PackFails, Nothing
<1>7. CASE EndField
  BY <1>7 DEF EndField
<1>8. CASE UNCHANGED cacheVars
  BY <1>8 DEF cacheVars
<1>9. QED
  BY <1>1, <1>2, <1>3, <1>4, <1>5, <1>6, <1>7, <1>8 DEF CacheNext

(* The phases of a field and the upload kept have the values the code gives
   them, in every reachable state. *)
THEOREM CacheTypeCorrect == CacheSpec => []CacheTypeOK
<1>1. CacheIInv => CacheTypeOK
  BY DEF CacheIInv
<1>2. QED
  BY CacheStarts, CacheStays, <1>1, PTL DEF CacheSpec

(* take_cached never hands a field the upload of another, although its key is
   only an address and a length. *)
THEOREM EveryFieldPacksItsOwn == CacheSpec => []PacksOwnValues
<1>1. CacheIInv => PacksOwnValues
  BY DEF CacheIInv
<1>2. QED
  BY CacheStarts, CacheStays, <1>1, PTL DEF CacheSpec

-----------------------------------------------------------------------------
(* The top k.  What a thread's list drops is no better than the k entries  *)
(* it keeps (Kept), so in shared memory a document either has a slot or is *)
(* matched by k others (Pooled); each round emits the best slot that is    *)
(* left (Emitted), which the bests of the threads have among them at every *)
(* step of the tree (Reducing).                                            *)

(* A thread's list, after the documents before n: in descending order, its *)
(* documents are the thread's with their scores, each once, and no other   *)
(* of the thread's is better than the last.                                *)

Falls(list) == \A m, n \in 1 .. K : m < n => list[m].score >= list[n].score

Taken(row, n, t, e) ==
    \/ e.doc = NoDoc /\ e.score = Lowest
    \/ e.doc \in 0 .. n - 1 /\ e.doc % BlockThreads = t /\ e.score = row[e.doc]

Once(list) == \A m, n \in 1 .. K : m # n /\ list[m].doc = list[n].doc => list[m].doc = NoDoc

Kept(row, n, t, list) ==
    /\ list \in [1 .. K -> Entries] /\ Falls(list) /\ Once(list)
    /\ \A m \in 1 .. K : Taken(row, n, t, list[m])
    /\ \A d \in 0 .. n - 1 : d % BlockThreads = t =>
           (\E m \in 1 .. K : list[m].doc = d) \/ row[d] =< list[K].score

LEMMA KeptStarts ==
    ASSUME TopAssumption, NEW row, NEW t PROVE Kept(row, 0, t, EmptyList)
<1>1. EmptyList \in [1 .. K -> Entries]
  BY DEF EmptyList, EmptyEntry, Entries, Scores
<1>2. \A m \in 1 .. K : EmptyList[m].doc = NoDoc /\ EmptyList[m].score = Lowest
  BY DEF EmptyList, EmptyEntry
<1>3. Lowest >= Lowest
  BY DEF Lowest
<1> QED
  BY <1>1, <1>2, <1>3 DEF Kept, Falls, Once, Taken

\* Of a document of another thread.
LEMMA KeptPasses ==
    ASSUME TopAssumption, NEW row, NEW d \in Docs, NEW t, d % BlockThreads # t,
           NEW list, Kept(row, d, t, list)
    PROVE  Kept(row, d + 1, t, list)
<1>1. d \in Nat /\ \A e : e \in 0 .. d - 1 => e \in 0 .. (d + 1) - 1
  BY DEF Docs
<1>2. \A e \in 0 .. (d + 1) - 1 : e % BlockThreads = t => e \in 0 .. d - 1
  BY <1>1
<1>3. \A m \in 1 .. K : Taken(row, d + 1, t, list[m])
  BY <1>1 DEF Kept, Taken
<1> QED
  BY <1>2, <1>3 DEF Kept

LEMMA InsertKeeps ==
    ASSUME TopAssumption, NEW row \in [Docs -> 0 .. MaxScore], NEW d \in Docs, NEW t,
           d % BlockThreads = t, NEW list, Kept(row, d, t, list)
    PROVE  Kept(row, d + 1, t, Insert(list, d, row[d]))
<1>1. K \in Nat /\ K \in 1 .. K /\ d \in Nat /\ \A e : e \in 0 .. d - 1 => e \in 0 .. (d + 1) - 1
  BY DEF Docs, TopAssumption
<1>2. PICK v \in 0 .. MaxScore : v = row[d]
  OBVIOUS
<1>3. \A m \in 1 .. K : list[m] \in Entries /\ list[m].doc \in Int /\ list[m].score \in Int
  BY DEF Kept, Entries, Scores, Docs, NoDoc, Lowest, TopAssumption
<1>4. \A m \in 1 .. K : Taken(row, d, t, list[m])
  BY DEF Kept
<1>5. \A m \in 1 .. K : Taken(row, d + 1, t, list[m])
  BY <1>1, <1>4 DEF Taken
<1>6. CASE v =< list[K].score
  <2>1. Insert(list, d, v) = list
    BY <1>6 DEF Insert
  <2>2. \A e \in 0 .. (d + 1) - 1 : e = d \/ e \in 0 .. d - 1
    BY <1>1
  <2> QED
    BY <1>2, <1>5, <1>6, <2>1, <2>2 DEF Kept
<1>7. CASE ~(v =< list[K].score)
  <2> DEFINE A == {n \in 1 .. K : list[n].score < v}
             at == CHOOSE n \in 1 .. K : /\ list[n].score < v
                                         /\ \A m \in 1 .. n - 1 : list[m].score >= v
  <2>1. \E n \in 1 .. K : list[n].score < v /\ \A m \in 1 .. n - 1 : list[m].score >= v
    <3>1. K \in A /\ A \in SUBSET Nat
      BY <1>1, <1>3, <1>7
    <3>2. PICK B \in SUBSET Nat : B = A /\ B # {}
      <4> HIDE DEF A
      <4> QED
        BY <3>1
    <3>3. PICK n \in B : \A m \in B : n =< m
      <4> HIDE DEF A
      <4> QED
        BY <3>2, NatLeast
    <3>4. n \in 1 .. K /\ list[n].score < v
      BY <3>2
    <3>5. ASSUME NEW m \in 1 .. n - 1 PROVE list[m].score >= v
      <4>1. m \in 1 .. K /\ m \notin B
        BY <3>3, <3>4
      <4>2. ~ (list[m].score < v)
        BY <3>2, <4>1
      <4> QED
        BY <1>3, <4>1, <4>2
    <3> QED
      BY <3>4, <3>5
  <2>2. PICK a \in 1 .. K : /\ a = at /\ list[a].score < v
                            /\ \A m \in 1 .. a - 1 : list[m].score >= v
    BY <2>1
  <2> HIDE DEF A, at
  <2>3. PICK new : new = [n \in 1 .. K |-> IF n < a THEN list[n]
                                           ELSE IF n = a THEN [doc |-> d, score |-> v]
                                           ELSE list[n - 1]]
    OBVIOUS
  <2>4. Insert(list, d, v) = new
    BY <1>7, <2>2, <2>3 DEF Insert, at
  <2>5. /\ \A n \in 1 .. K : n < a => new[n] = list[n]
        /\ new[a].doc = d /\ new[a].score = v
        /\ \A n \in 1 .. K : n > a => new[n] = list[n - 1] /\ n - 1 \in 1 .. K
    BY <1>1, <2>3
  <2>6. \A n \in 1 .. K : new[n] \in Entries
    <3> TAKE n \in 1 .. K
    <3>1. CASE n = a
      <4>1. [doc |-> d, score |-> v] \in Entries
        BY DEF Entries, Scores
      <4> QED
        BY <2>3, <3>1, <4>1
    <3>2. CASE n # a
      BY <1>1, <1>3, <2>5, <3>2
    <3> QED
      BY <3>1, <3>2
  <2>7. new \in [1 .. K -> Entries]
    BY <2>3, <2>6
  <2>8. Falls(new)
    <3> SUFFICES ASSUME NEW m \in 1 .. K, NEW n \in 1 .. K, m < n
                 PROVE  new[m].score >= new[n].score
      BY DEF Falls
    <3>1. \A x, y \in 1 .. K : x < y => list[x].score >= list[y].score
      BY DEF Kept, Falls
    <3>2. CASE n < a
      BY <2>5, <3>1, <3>2
    <3>3. CASE n = a
      <4>1. m \in 1 .. a - 1 /\ m < a
        BY <3>3
      <4> QED
        BY <2>2, <2>5, <3>3, <4>1
    <3>4. CASE n > a /\ m < a
      <4>1. n - 1 \in 1 .. K /\ m < n - 1
        BY <2>5, <3>4
      <4> QED
        BY <2>5, <3>1, <3>4, <4>1
    <3>5. CASE n > a /\ m = a
      <4>1. n - 1 \in 1 .. K /\ (a = n - 1 \/ a < n - 1)
        BY <2>5, <3>5
      <4>2. list[a].score \in Int /\ list[n - 1].score \in Int /\ list[a].score >= list[n - 1].score
        BY <1>3, <3>1, <4>1
      <4> QED
        BY <2>2, <2>5, <3>5, <4>2
    <3>6. CASE n > a /\ m > a
      <4>1. n - 1 \in 1 .. K /\ m - 1 \in 1 .. K /\ m - 1 < n - 1
        BY <2>5, <3>6
      <4> QED
        BY <2>5, <3>1, <3>6, <4>1
    <3> QED
      BY <3>2, <3>3, <3>4, <3>5, <3>6
  <2>9. \A m \in 1 .. K : list[m].doc # d /\ d # NoDoc
    BY <1>1, <1>4 DEF Taken, NoDoc
  <2>10. Once(new)
    <3> SUFFICES ASSUME NEW m \in 1 .. K, NEW n \in 1 .. K, m < n, new[m].doc = new[n].doc
                 PROVE  new[m].doc = NoDoc
      BY DEF Once
    <3>1. \A x, y \in 1 .. K : x # y /\ list[x].doc = list[y].doc => list[x].doc = NoDoc
      BY DEF Kept, Once
    <3>2. m # a
      <4>1. m = a => n > a
        OBVIOUS
      <4> QED
        BY <2>5, <2>9, <4>1
    <3>3. n # a
      <4>1. n = a => m < a
        OBVIOUS
      <4> QED
        BY <2>5, <2>9, <4>1
    <3>4. CASE n < a
      BY <2>5, <3>1, <3>4
    <3>5. CASE n > a /\ m < a
      <4>1. n - 1 \in 1 .. K /\ m # n - 1
        BY <2>5, <3>5
      <4> QED
        BY <2>5, <3>1, <3>5, <4>1
    <3>6. CASE n > a /\ m > a
      <4>1. n - 1 \in 1 .. K /\ m - 1 \in 1 .. K /\ m - 1 # n - 1
        BY <2>5, <3>6
      <4> QED
        BY <2>5, <3>1, <3>6, <4>1
    <3> QED
      BY <3>2, <3>3, <3>4, <3>5, <3>6
  <2>11. \A m \in 1 .. K : Taken(row, d + 1, t, new[m])
    <3> TAKE m \in 1 .. K
    <3>1. CASE m = a
      <4>1. d \in 0 .. (d + 1) - 1
        BY <1>1
      <4> QED
        BY <1>2, <2>5, <3>1, <4>1 DEF Taken
    <3>2. CASE m # a
      BY <1>5, <2>5, <3>2
    <3> QED
      BY <3>1, <3>2
  <2>12. list[K].score =< new[K].score /\ new[K].score \in Int
    <3>1. CASE K = a
      BY <1>1, <1>3, <1>7, <2>5, <3>1
    <3>2. CASE K > a
      <4>1. K - 1 \in 1 .. K /\ new[K] = list[K - 1] /\ list[K - 1].score >= list[K].score
        BY <1>1, <2>5, <3>2 DEF Kept, Falls
      <4> QED
        BY <1>1, <1>3, <4>1
    <3> QED
      BY <1>1, <3>1, <3>2
  <2>13. ASSUME NEW e \in 0 .. (d + 1) - 1, e % BlockThreads = t
         PROVE  (\E m \in 1 .. K : new[m].doc = e) \/ row[e] =< new[K].score
    <3>1. CASE e = d
      BY <2>5, <3>1
    <3>2. CASE e # d
      <4>1. e \in 0 .. d - 1 /\ e \in Docs
        BY <1>1, <3>2 DEF Docs
      <4>2. row[e] \in Int /\ list[K].score \in Int
        BY <1>1, <1>3, <4>1
      <4>3. CASE row[e] =< list[K].score
        BY <2>12, <4>2, <4>3
      <4>4. CASE \E m \in 1 .. K : list[m].doc = e
        <5>1. PICK m \in 1 .. K : list[m].doc = e
          BY <4>4
        <5>2. CASE m < a
          BY <2>5, <5>1, <5>2
        <5>3. CASE ~(m < a) /\ m < K
          <6>1. m + 1 \in 1 .. K /\ m + 1 > a /\ (m + 1) - 1 = m
            BY <1>1, <5>3
          <6>2. new[m + 1] = list[m]
            BY <2>5, <6>1
          <6> QED
            BY <5>1, <6>1, <6>2
        <5>4. CASE m = K
          <6>1. list[K].score = row[e]
            BY <1>1, <1>4, <4>1, <5>1, <5>4 DEF Taken, NoDoc
          <6> QED
            BY <2>12, <4>2, <6>1
        <5> QED
          BY <1>1, <5>2, <5>3, <5>4
      <4> QED
        BY <3>2, <4>1, <4>3, <4>4, <2>13 DEF Kept
    <3> QED
      BY <3>1, <3>2
  <2>14. Kept(row, d + 1, t, new)
    BY <2>7, <2>8, <2>10, <2>11, <2>13 DEF Kept
  <2> QED
    BY <1>2, <2>4, <2>14
<1> QED
  BY <1>2, <1>6, <1>7

-----------------------------------------------------------------------------
(* The lists in shared memory.                                             *)

LEMMA SlotOfThread ==
    ASSUME TopAssumption, NEW n \in Slots
    PROVE  n \div K \in ThreadIds /\ n % K \in 0 .. K - 1 /\ n = K * (n \div K) + (n % K)
<1>1. K \in Nat /\ K > 0 /\ BlockThreads \in Nat /\ n \in Nat /\ n < BlockThreads * K
  BY DEF TopAssumption, Slots
<1>2. PICK q \in Nat, r \in Nat : q = n \div K /\ r = n % K /\ n = K * q + r /\ r < K
  BY <1>1
<1>3. q < BlockThreads
  <2> SUFFICES ASSUME q >= BlockThreads PROVE FALSE
    BY <1>1, <1>2
  <2>1. PICK c \in Nat : q = BlockThreads + c
    <3>1. q - BlockThreads \in Nat /\ q = BlockThreads + (q - BlockThreads)
      BY <1>1, <1>2
    <3> QED
      BY <3>1
  <2>2. K * q = BlockThreads * K + K * c /\ K * c \in Nat /\ BlockThreads * K \in Nat
    BY <1>1, <2>1
  <2> QED
    BY <1>1, <1>2, <2>2
<1> QED
  BY <1>1, <1>2, <1>3 DEF ThreadIds

LEMMA ThreadSlot ==
    ASSUME TopAssumption, NEW t \in ThreadIds, NEW j \in 0 .. K - 1, NEW n, n = t * K + j
    PROVE  n \in Slots /\ n \div K = t /\ n % K = j
<1>1. K \in Nat /\ K > 0 /\ BlockThreads \in Nat /\ t \in Nat /\ t < BlockThreads /\ j \in Nat /\ j < K
  BY DEF TopAssumption, ThreadIds
<1>2. n \in Nat
  BY <1>1
<1>3. n \in Slots
  <2>1. PICK c \in Nat : BlockThreads = t + 1 + c
    <3>1. BlockThreads - t - 1 \in Nat /\ BlockThreads = t + 1 + (BlockThreads - t - 1)
      BY <1>1
    <3> QED
      BY <3>1
  <2>2. BlockThreads * K = t * K + K + c * K /\ c * K \in Nat /\ t * K \in Nat
    BY <1>1, <2>1
  <2> QED
    BY <1>1, <1>2, <2>2 DEF Slots
<1>4. PICK q \in Nat, r \in Nat : q = n \div K /\ r = n % K /\ n = K * q + r /\ r < K
  BY <1>1, <1>2
<1>5. K * q + r = K * t + j
  BY <1>1, <1>4
<1>6. ~(q < t)
  <2> SUFFICES ASSUME q < t PROVE FALSE
    OBVIOUS
  <2>1. PICK c \in Nat : t = q + 1 + c
    <3>1. t - q - 1 \in Nat /\ t = q + 1 + (t - q - 1)
      BY <1>1, <1>4
    <3> QED
      BY <3>1
  <2>2. K * t = K * q + K + K * c /\ K * c \in Nat /\ K * q \in Nat
    BY <1>1, <1>4, <2>1
  <2> QED
    BY <1>1, <1>4, <1>5, <2>2
<1>7. ~(t < q)
  <2> SUFFICES ASSUME t < q PROVE FALSE
    OBVIOUS
  <2>1. PICK c \in Nat : q = t + 1 + c
    <3>1. q - t - 1 \in Nat /\ q = t + 1 + (q - t - 1)
      BY <1>1, <1>4
    <3> QED
      BY <3>1
  <2>2. K * q = K * t + K + K * c /\ K * c \in Nat /\ K * t \in Nat
    BY <1>1, <1>4, <2>1
  <2> QED
    BY <1>1, <1>4, <1>5, <2>2
<1>8. q = t /\ r = j
  <2>1. q = t
    BY <1>1, <1>4, <1>6, <1>7
  <2>2. K * t \in Nat
    BY <1>1
  <2> QED
    BY <1>1, <1>4, <1>5, <2>1, <2>2
<1> QED
  BY <1>3, <1>4, <1>8

(* The entries g of the slots: a document has one slot at most, and if it  *)
(* has none, K slots have documents that are no worse.                     *)
NoWorse(g, v, M) ==
    M \in SUBSET Slots /\ IsFiniteSet(M) /\ Cardinality(M) = K /\ \A n \in M : g[n].score >= v

Pooled(row, g) ==
    /\ g \in [Slots -> Entries]
    /\ \A n \in Slots : \/ g[n].doc = NoDoc /\ g[n].score = Lowest
                        \/ g[n].doc \in Docs /\ g[n].score = row[g[n].doc]
    /\ \A m, n \in Slots : m # n /\ g[m].doc = g[n].doc => g[m].doc = NoDoc
    /\ \A d \in Docs : (\E n \in Slots : g[n].doc = d) \/ \E M : NoWorse(g, row[d], M)

\* The entries of the lists ls, put where Share puts them.
Given(row, ls, g) ==
    /\ \A t \in ThreadIds : Kept(row, ScoredDocs, t, ls[t])
    /\ g = [n \in Slots |-> ls[n \div K][(n % K) + 1]]

LEMMA Pools ==
    ASSUME TopAssumption, NEW row \in [Docs -> 0 .. MaxScore], NEW ls, NEW g, Given(row, ls, g)
    PROVE  Pooled(row, g)
<1>1. K \in Nat \ {0} /\ BlockThreads \in Nat \ {0} /\ Docs = 0 .. ScoredDocs - 1 /\ K \in 1 .. K
  BY DEF TopAssumption, Docs
<1>2. ASSUME NEW n \in Slots
      PROVE  \E t \in ThreadIds, j \in 1 .. K :
                 /\ n = K * t + (j - 1) /\ g[n] = ls[t][j]
                 /\ ls[t][j] \in Entries /\ Taken(row, ScoredDocs, t, ls[t][j])
  <2>1. PICK t \in ThreadIds, r \in 0 .. K - 1 : t = n \div K /\ r = n % K /\ n = K * t + r
    BY SlotOfThread
  <2>2. PICK j \in 1 .. K : j = r + 1 /\ r = j - 1
    <3>1. r + 1 \in 1 .. K /\ r = (r + 1) - 1
      BY <1>1
    <3> QED
      BY <3>1
  <2>3. g[n] = ls[t][j]
    BY <2>1, <2>2 DEF Given
  <2>4. Kept(row, ScoredDocs, t, ls[t])
    BY DEF Given
  <2>5. ls[t][j] \in Entries /\ Taken(row, ScoredDocs, t, ls[t][j])
    BY <2>4 DEF Kept
  <2>6. n = K * t + (j - 1)
    BY <2>1, <2>2
  <2> QED
    BY <2>3, <2>5, <2>6
<1>3. g \in [Slots -> Entries]
  <2>1. \A n \in Slots : g[n] \in Entries
    BY <1>2
  <2> QED
    BY <2>1 DEF Given
<1>4. \A n \in Slots : \/ g[n].doc = NoDoc /\ g[n].score = Lowest
                       \/ g[n].doc \in Docs /\ g[n].score = row[g[n].doc]
  <2> TAKE n \in Slots
  <2>1. PICK t \in ThreadIds, j \in 1 .. K : g[n] = ls[t][j] /\ Taken(row, ScoredDocs, t, ls[t][j])
    BY <1>2
  <2>2. Docs = 0 .. ScoredDocs - 1
    BY DEF Docs
  <2>3. PICK e : e = g[n] /\ Taken(row, ScoredDocs, t, e)
    BY <2>1
  <2>4. \/ e.doc = NoDoc /\ e.score = Lowest
        \/ e.doc \in Docs /\ e.score = row[e.doc]
    BY <2>2, <2>3 DEF Taken
  <2> QED
    BY <2>3, <2>4
<1>5. ASSUME NEW m \in Slots, NEW n \in Slots, m # n, g[m].doc = g[n].doc, g[m].doc # NoDoc PROVE FALSE
  <2>1. PICK t \in ThreadIds, p \in 1 .. K :
            m = K * t + (p - 1) /\ g[m] = ls[t][p] /\ Taken(row, ScoredDocs, t, ls[t][p])
    BY <1>2
  <2>2. PICK u \in ThreadIds, j \in 1 .. K :
            n = K * u + (j - 1) /\ g[n] = ls[u][j] /\ Taken(row, ScoredDocs, u, ls[u][j])
    BY <1>2
  <2>3. t = u
    BY <1>5, <2>1, <2>2 DEF Taken
  <2>4. p # j
    BY <1>5, <2>1, <2>2, <2>3
  <2>5. PICK list : list = ls[t] /\ Once(list)
    BY DEF Given, Kept
  <2>6. g[m] = list[p] /\ g[n] = list[j]
    BY <2>1, <2>2, <2>3, <2>5
  <2> QED
    BY <1>5, <2>4, <2>5, <2>6 DEF Once
<1>6. ASSUME NEW d \in Docs, \A n \in Slots : g[n].doc # d PROVE \E M : NoWorse(g, row[d], M)
  <2>1. PICK t \in ThreadIds : t = d % BlockThreads
    <3>1. d % BlockThreads \in 0 .. BlockThreads - 1
      BY <1>1
    <3> QED
      BY <3>1 DEF ThreadIds
  <2>2. PICK b \in Nat : b = t * K
    BY <1>1 DEF ThreadIds
  <2>3. PICK list : list = ls[t] /\ Kept(row, ScoredDocs, t, list)
    BY DEF Given
  <2>4. ASSUME NEW m \in 1 .. K, NEW n \in Nat, n = b + (m - 1) PROVE n \in Slots /\ g[n] = list[m]
    <3>1. PICK j \in 0 .. K - 1 : j = m - 1 /\ j + 1 = m
      <4>1. m - 1 \in 0 .. K - 1 /\ (m - 1) + 1 = m
        BY <1>1
      <4> QED
        BY <4>1
    <3>2. n = t * K + j
      BY <2>2, <2>4, <3>1
    <3>3. n \in Slots /\ n \div K = t /\ n % K = j
      BY <3>2, ThreadSlot
    <3> QED
      BY <2>3, <3>1, <3>3 DEF Given
  <2>5. \A m \in 1 .. K : list[m].doc # d
    <3> TAKE m \in 1 .. K
    <3>1. PICK n \in Nat : n = b + (m - 1)
      OBVIOUS
    <3>2. n \in Slots /\ g[n] = list[m]
      BY <2>4, <3>1
    <3> QED
      BY <1>6, <3>2
  <2>6. row[d] =< list[K].score
    <3>1. d \in 0 .. ScoredDocs - 1 /\ d % BlockThreads = t
      BY <1>1, <2>1
    <3> QED
      BY <2>3, <2>5, <3>1 DEF Kept
  <2>7. \A m \in 1 .. K : list[m].score \in Int /\ list[m].score >= list[K].score
    <3> TAKE m \in 1 .. K
    <3>0. list \in [1 .. K -> Entries] /\ Falls(list)
      BY <2>3 DEF Kept
    <3>1. list[m] \in Entries
      BY <3>0
    <3>2. list[m].score \in Int
      BY <3>1 DEF Entries, Scores, Lowest, TopAssumption
    <3>3. CASE m = K
      BY <3>2, <3>3
    <3>4. CASE m # K
      <4>1. m < K
        BY <1>1, <3>4
      <4> QED
        BY <1>1, <3>0, <3>2, <4>1 DEF Falls
    <3> QED
      BY <3>3, <3>4
  <2>8. PICK M : M = b .. b + K - 1
    OBVIOUS
  <2>9. IsFiniteSet(M) /\ Cardinality(M) = K
    BY <1>1, <2>2, <2>8, FS_Interval
  <2>10. ASSUME NEW n \in M PROVE n \in Slots /\ g[n].score >= row[d]
    <3>1. n \in b .. b + K - 1
      BY <2>8
    <3>2. PICK m \in 1 .. K : n = b + (m - 1)
      <4>1. n - b + 1 \in 1 .. K /\ n = b + ((n - b + 1) - 1)
        BY <1>1, <3>1
      <4> QED
        BY <4>1
    <3>3. n \in Nat
      BY <3>1
    <3>5. n \in Slots /\ g[n] = list[m]
      BY <2>4, <3>2, <3>3
    <3>4. list[m].score \in Int /\ list[K].score \in Int /\ row[d] \in Int
          /\ list[m].score >= list[K].score
      BY <1>1, <2>7
    <3> QED
      BY <2>6, <3>4, <3>5
  <2>11. M \in SUBSET Slots
    BY <2>10
  <2>12. NoWorse(g, row[d], M)
    BY <2>9, <2>10, <2>11 DEF NoWorse
  <2> QED
    BY <2>12
<1>7. \A d \in Docs : (\E n \in Slots : g[n].doc = d) \/ \E M : NoWorse(g, row[d], M)
  <2> TAKE d \in Docs
  <2>1. CASE \A n \in Slots : g[n].doc # d
    BY <1>6, <2>1
  <2>2. CASE ~ \A n \in Slots : g[n].doc # d
    BY <2>2
  <2> QED
    BY <2>1, <2>2
<1>8. \A m, n \in Slots : m # n /\ g[m].doc = g[n].doc => g[m].doc = NoDoc
  BY <1>5
<1> QED
  BY <1>3, <1>4, <1>7, <1>8 DEF Pooled

-----------------------------------------------------------------------------
(* The rounds, for a row, the entries g of the slots, the scores s that     *)
(* are left in them and the entries o emitted.                              *)

Emitted(row, g, s, o) ==
    /\ o \in Seq(Entries) /\ Len(o) =< K
    /\ \A m \in 1 .. Len(o) : /\ o[m].doc \in Docs /\ o[m].score = row[o[m].doc]
                              /\ \E n \in Slots : g[n].doc = o[m].doc
    /\ \A m, n \in 1 .. Len(o) : m < n => o[m].score >= o[n].score /\ o[m].doc # o[n].doc
    /\ s \in [Slots -> Scores]
    /\ \A n \in Slots : s[n] = IF \E m \in 1 .. Len(o) : o[m].doc = g[n].doc
                               THEN Lowest ELSE g[n].score
    /\ \A n \in Slots, m \in 1 .. Len(o) : s[n] =< o[m].score

LEMMA EmittedStarts ==
    ASSUME TopAssumption, NEW row, NEW g, Pooled(row, g), NEW s, s = [n \in Slots |-> g[n].score],
           NEW o, o = <<>>
    PROVE  Emitted(row, g, s, o)
<1>1. o \in Seq(Entries) /\ Len(o) = 0 /\ 1 .. Len(o) = {}
  OBVIOUS
<1>2. s \in [Slots -> Scores] /\ \A n \in Slots : s[n] = g[n].score
  BY DEF Pooled, Entries
<1>3. Len(o) =< K
  BY <1>1 DEF TopAssumption
<1> QED
  BY <1>1, <1>2, <1>3 DEF Emitted

(* A winner w, emitted and consumed. *)
Wins(g, s, o, w, s2, o2) ==
    /\ w \in Slots /\ s[w] > Lowest /\ \A n \in Slots : s[n] =< s[w]
    /\ s2 = [s EXCEPT ![w] = Lowest]
    /\ Len(o) < K /\ o2 = Append(o, [doc |-> g[w].doc, score |-> s[w]])

LEMMA EmitKeeps ==
    ASSUME TopAssumption, NEW row, NEW g, Pooled(row, g), NEW s, NEW o, Emitted(row, g, s, o),
           NEW w, NEW s2, NEW o2, Wins(g, s, o, w, s2, o2)
    PROVE  Emitted(row, g, s2, o2)
<1>1. w \in Slots /\ s[w] > Lowest /\ s2 = [s EXCEPT ![w] = Lowest] /\ \A n \in Slots : s[n] =< s[w]
  BY DEF Wins
<1>2. \A n \in Slots : s[n] \in Scores /\ s[n] \in Int /\ s[n] >= Lowest /\ Lowest \in Int
  <2>1. \A n \in Slots : s[n] \in Scores
    BY DEF Emitted
  <2>2. \A x \in Scores : x \in Int /\ x >= Lowest /\ Lowest \in Int
    BY DEF Scores, Lowest, TopAssumption
  <2> TAKE n \in Slots
  <2>3. PICK x \in Scores : x = s[n]
    BY <2>1
  <2>4. x \in Int /\ x >= Lowest /\ Lowest \in Int
    BY <2>2
  <2> QED
    BY <2>3, <2>4
<1>3. s[w] = g[w].score /\ \A m \in 1 .. Len(o) : o[m].doc # g[w].doc
  BY <1>1, <1>2 DEF Emitted
<1>4. g[w].doc \in Docs /\ g[w].score = row[g[w].doc] /\ g[w] \in Entries
  BY <1>1, <1>2, <1>3 DEF Pooled
<1>5. PICK e \in Entries : e = [doc |-> g[w].doc, score |-> s[w]]
                          /\ e.doc = g[w].doc /\ e.score = s[w]
  <2>1. [doc |-> g[w].doc, score |-> s[w]] \in Entries
    BY <1>1, <1>2, <1>4 DEF Entries
  <2> QED
    BY <2>1
<1>6. PICK l \in Nat : l = Len(o) /\ l < K /\ K \in Nat
  BY DEF Emitted, TopAssumption, Wins
<1>7. /\ o2 \in Seq(Entries) /\ Len(o2) = l + 1 /\ o2[l + 1] = e /\ \A m \in 1 .. l : o2[m] = o[m]
  <2>1. o \in Seq(Entries) /\ o2 = Append(o, e)
    BY <1>5 DEF Emitted, Wins
  <2> QED
    BY <1>6, <2>1, AppendExtends
<1>8. \A m \in 1 .. l + 1 : m \in 1 .. l \/ m = l + 1
  BY <1>6
<1>9. \A m \in 1 .. l : /\ o[m].doc \in Docs /\ o[m].score = row[o[m].doc]
                        /\ \E n \in Slots : g[n].doc = o[m].doc
  BY <1>6 DEF Emitted
<1>10. \A m \in 1 .. l + 1 : /\ o2[m].doc \in Docs /\ o2[m].score = row[o2[m].doc]
                             /\ \E n \in Slots : g[n].doc = o2[m].doc
  BY <1>1, <1>3, <1>4, <1>5, <1>7, <1>8, <1>9
<1>11. \A m \in 1 .. l : o[m].score >= s[w] /\ o[m].score \in Int
  <2> TAKE m \in 1 .. l
  <2>1. o[m] \in Entries
    BY <1>6, ElementOfSeq DEF Emitted
  <2>2. o[m].score \in Int
    BY <2>1 DEF Entries, Scores, Lowest, TopAssumption
  <2>3. s[w] =< o[m].score
    BY <1>1, <1>6 DEF Emitted
  <2> QED
    BY <1>1, <1>2, <2>2, <2>3
<1>12. ASSUME NEW m \in 1 .. l + 1, NEW n \in 1 .. l + 1, m < n
       PROVE  o2[m].score >= o2[n].score /\ o2[m].doc # o2[n].doc
  <2>1. m \in 1 .. l
    BY <1>6, <1>12
  <2>2. CASE n \in 1 .. l
    BY <1>6, <1>7, <1>12, <2>1, <2>2 DEF Emitted
  <2>3. CASE n = l + 1
    BY <1>3, <1>5, <1>6, <1>7, <1>11, <2>1, <2>3
  <2> QED
    BY <1>8, <2>2, <2>3
<1>13. s2 \in [Slots -> Scores] /\ s2[w] = Lowest /\ \A n \in Slots : n # w => s2[n] = s[n]
  BY <1>1, <1>2 DEF Emitted, Scores
<1>14. ASSUME NEW n \in Slots
       PROVE  s2[n] = IF \E m \in 1 .. l + 1 : o2[m].doc = g[n].doc THEN Lowest ELSE g[n].score
  <2>1. CASE n = w
    <3>1. l + 1 \in 1 .. l + 1 /\ o2[l + 1].doc = g[n].doc
      BY <1>5, <1>6, <1>7, <2>1
    <3> QED
      BY <1>13, <2>1, <3>1
  <2>2. CASE n # w
    <3>1. s2[n] = IF \E m \in 1 .. l : o[m].doc = g[n].doc THEN Lowest ELSE g[n].score
      BY <1>6, <1>13, <2>2 DEF Emitted
    <3>2. g[n].doc # e.doc
      <4>1. g[w].doc # NoDoc
        BY <1>4 DEF Docs, NoDoc, TopAssumption
      <4> QED
        BY <1>1, <1>5, <2>2, <4>1 DEF Pooled
    <3>3. (\E m \in 1 .. l + 1 : o2[m].doc = g[n].doc) <=> (\E m \in 1 .. l : o[m].doc = g[n].doc)
      <4>1. ASSUME NEW m \in 1 .. l + 1, o2[m].doc = g[n].doc PROVE m \in 1 .. l /\ o[m].doc = g[n].doc
        BY <1>7, <1>8, <3>2, <4>1
      <4>2. ASSUME NEW m \in 1 .. l, o[m].doc = g[n].doc PROVE m \in 1 .. l + 1 /\ o2[m].doc = g[n].doc
        BY <1>6, <1>7, <4>2
      <4> QED
        BY <4>1, <4>2
    <3> QED
      BY <3>1, <3>3
  <2> QED
    BY <2>1, <2>2
<1>15. ASSUME NEW n \in Slots, NEW m \in 1 .. l + 1 PROVE s2[n] =< o2[m].score
  <2>1. s2[n] =< s[n] /\ s2[n] \in Int /\ s[n] =< s[w]
    BY <1>1, <1>2, <1>13
  <2>2. o2[m].score >= s[w] /\ o2[m].score \in Int
    BY <1>1, <1>2, <1>5, <1>7, <1>8, <1>11
  <2>3. s[n] \in Int /\ s[w] \in Int
    BY <1>1, <1>2
  <2>4. PICK a \in Int, b \in Int, c \in Int, x \in Int :
            a = s2[n] /\ b = s[n] /\ c = s[w] /\ x = o2[m].score
    BY <2>1, <2>2, <2>3
  <2>5. a =< b /\ b =< c /\ x >= c
    BY <2>1, <2>2, <2>4
  <2>6. a =< x
    BY <2>5
  <2> QED
    BY <2>4, <2>6
<1>16. Len(o2) =< K
  BY <1>6, <1>7
<1> QED
  BY <1>7, <1>10, <1>12, <1>13, <1>14, <1>15, <1>16 DEF Emitted

(* With at least K documents a slot is left in every round.  score_batch does
   not ask for that: with fewer, a hit comes twice (run bm25_topk_few_docs). *)
EnoughDocs == K =< ScoredDocs

LEMMA EmittedDocs ==
    ASSUME NEW o, NEW l \in Nat, NEW O, O = {o[m].doc : m \in 1 .. l}
    PROVE  IsFiniteSet(O) /\ Cardinality(O) =< l /\ Cardinality(O) \in Nat
<1>1. PICK f : f = [m \in 1 .. l |-> o[m].doc]
  OBVIOUS
<1>2. f \in Surjection(1 .. l, O)
  BY <1>1 DEF Surjection
<1>3. IsFiniteSet(1 .. l) /\ Cardinality(1 .. l) = l
  BY FS_Interval
<1> QED
  BY <1>2, <1>3, FS_Surjection, FS_CardinalityType

DocsIn(g, M) == {g[n].doc : n \in M}
Full(g, M) == \A n \in M : g[n].score # Lowest

\* The documents of K slots without an empty one are K.
LEMMA SlotsAreDocs ==
    ASSUME TopAssumption, NEW row, NEW g, Pooled(row, g), NEW M \in SUBSET Slots, IsFiniteSet(M),
           Full(g, M), NEW D, D = DocsIn(g, M)
    PROVE  D \in SUBSET Docs /\ IsFiniteSet(D) /\ Cardinality(D) = Cardinality(M)
<1>1. PICK f : f = [n \in M |-> g[n].doc]
  OBVIOUS
<1>2. \A n \in M : g[n].doc \in Docs
  BY DEF Pooled, Full
<1>3. \A n \in M : g[n].doc # NoDoc
  BY <1>2 DEF Docs, NoDoc, TopAssumption
<1>4. \A m, n \in M : g[m].doc = g[n].doc => m = n
  BY <1>3 DEF Pooled
<1>5. f \in Bijection(M, D)
  <2>1. f \in [M -> D] /\ \A x \in D : \E n \in M : f[n] = x
    BY <1>1 DEF DocsIn
  <2>2. \A m, n \in M : f[m] = f[n] => m = n
    BY <1>1, <1>4
  <2> QED
    BY <2>1, <2>2 DEF Bijection, Injection, IsInjective, Surjection
<1>6. IsFiniteSet(D) /\ Cardinality(D) = Cardinality(M)
  BY <1>5, FS_Bijection DEF ExistsBijection
<1> QED
  BY <1>2, <1>6 DEF DocsIn

Unfinished(o) == Len(o) < K

LEMMA SlotIsLeft ==
    ASSUME TopAssumption, EnoughDocs, NEW row \in [Docs -> 0 .. MaxScore], NEW g, Pooled(row, g),
           NEW s, NEW o, Emitted(row, g, s, o), Unfinished(o)
    PROVE  \E n \in Slots : s[n] > Lowest
<1>1. PICK l \in Nat : l = Len(o) /\ l < K /\ K \in Nat
  BY DEF Emitted, Unfinished, TopAssumption
<1>2. PICK O : O = {o[m].doc : m \in 1 .. l}
  OBVIOUS
<1>3. IsFiniteSet(O) /\ Cardinality(O) =< l /\ Cardinality(O) \in Nat
  BY <1>2, EmittedDocs
<1>4. \A d \in Docs : row[d] \in Int /\ row[d] > Lowest
  BY DEF Lowest, TopAssumption
<1>5. ASSUME NEW S, S \subseteq Docs, IsFiniteSet(S), Cardinality(S) = K,
             \A d \in S : \E n \in Slots : g[n].doc = d
      PROVE  \E n \in Slots : s[n] > Lowest
  <2>1. ~(S \subseteq O)
    <3> SUFFICES ASSUME S \subseteq O PROVE FALSE
      OBVIOUS
    <3>1. Cardinality(S) =< Cardinality(O)
      BY <1>3, FS_Subset
    <3> QED
      BY <1>1, <1>3, <1>5, <3>1
  <2>2. PICK d \in S : d \notin O
    BY <2>1
  <2>3. PICK n \in Slots : g[n].doc = d
    BY <1>5
  <2>4. d \in Docs /\ d # NoDoc
    BY <1>5 DEF Docs, NoDoc, TopAssumption
  <2>5. g[n].score = row[d]
    BY <2>3, <2>4 DEF Pooled
  <2>6. ~ \E m \in 1 .. Len(o) : o[m].doc = g[n].doc
    BY <1>1, <1>2, <2>2, <2>3
  <2>7. s[n] = g[n].score
    BY <2>6 DEF Emitted
  <2> QED
    BY <1>4, <2>4, <2>5, <2>7
<1>6. CASE \A d \in Docs : \E n \in Slots : g[n].doc = d
  <2>1. PICK S : S = 0 .. K - 1
    OBVIOUS
  <2>2. S \subseteq Docs /\ IsFiniteSet(S) /\ Cardinality(S) = K
    BY <1>1, <2>1, FirstNumbers DEF EnoughDocs, Docs, TopAssumption
  <2> QED
    BY <1>5, <1>6, <2>2
<1>7. CASE ~ \A d \in Docs : \E n \in Slots : g[n].doc = d
  <2>1. PICK d \in Docs : ~ \E n \in Slots : g[n].doc = d
    BY <1>7
  <2>2. PICK M : NoWorse(g, row[d], M)
    BY <2>1 DEF Pooled
  <2>3. M \in SUBSET Slots /\ IsFiniteSet(M) /\ Cardinality(M) = K
    BY <2>2 DEF NoWorse
  <2>4. Full(g, M)
    <3> SUFFICES ASSUME NEW n \in M PROVE g[n].score # Lowest
      BY DEF Full
    <3>1. g[n].score >= row[d]
      BY <2>2 DEF NoWorse
    <3>2. ~ (Lowest >= row[d])
      BY <1>4 DEF Lowest
    <3> QED
      BY <3>1, <3>2
  <2>5. PICK D : D = DocsIn(g, M)
    OBVIOUS
  <2>6. D \in SUBSET Docs /\ IsFiniteSet(D) /\ Cardinality(D) = K
    BY <2>3, <2>4, <2>5, SlotsAreDocs
  <2>7. \A x \in D : \E n \in Slots : g[n].doc = x
    BY <2>3, <2>5 DEF DocsIn
  <2> QED
    BY <1>5, <2>6, <2>7
<1> QED
  BY <1>6, <1>7

-----------------------------------------------------------------------------
(* The argmax of a round.                                                  *)

Bests == [slot : Slots, score : Scores]
Steps == {0, 1, 2, 4, 8, 16, 32, 64, 128}
Width(st) == IF st = 0 THEN 1 ELSE 2 * st

\* The first of the bests r have among them one as good as any slot.
Reducing(s, r, st) ==
    /\ r \in [ThreadIds -> Bests] /\ st \in Steps /\ 2 * st =< BlockThreads
    /\ \A t \in ThreadIds : r[t].score = Lowest \/ r[t].score = s[r[t].slot]
    /\ \A n \in Slots : \E t \in ThreadIds : t < Width(st) /\ s[n] =< r[t].score

LEMMA SlotZero == ASSUME TopAssumption PROVE 0 \in Slots
<1>1. 0 \in ThreadIds /\ 0 \in 0 .. K - 1 /\ 0 = 0 * K + 0
  BY DEF TopAssumption, ThreadIds
<1> QED
  BY <1>1, ThreadSlot

LEMMA ScoresAreInts ==
    ASSUME TopAssumption, NEW x \in Scores
    PROVE  x \in Int /\ x >= Lowest /\ Lowest \in Int /\ (x # Lowest => x \in 0 .. MaxScore /\ x > Lowest)
  BY DEF Scores, Lowest, TopAssumption

LEMMA BestOfThread ==
    ASSUME TopAssumption, sv \in [Slots -> Scores], NEW t \in ThreadIds
    PROVE  /\ ThreadBest(t) \in Bests
           /\ ThreadBest(t).score = Lowest \/ ThreadBest(t).score = sv[ThreadBest(t).slot]
           /\ \A n \in Slots : n % BlockThreads = t => sv[n] =< ThreadBest(t).score
<1>1. PICK own : own = {n \in Slots : n % BlockThreads = t /\ sv[n] > Lowest}
  OBVIOUS
<1>2. \A n \in Slots : sv[n] \in Scores /\ sv[n] \in Int /\ (~(sv[n] > Lowest) => sv[n] = Lowest)
  BY ScoresAreInts
<1>3. CASE own = {}
  <2>1. ThreadBest(t) = NoBest
    BY <1>1, <1>3 DEF ThreadBest
  <2>2. NoBest \in Bests /\ NoBest.score = Lowest /\ Lowest =< Lowest
    BY SlotZero DEF NoBest, Bests, Scores, Lowest
  <2>3. \A n \in Slots : n % BlockThreads = t => sv[n] = Lowest
    BY <1>1, <1>2, <1>3
  <2> QED
    BY <2>1, <2>2, <2>3
<1>4. CASE own # {}
  <2>1. \A n \in own : n \in Slots /\ sv[n] \in 0 .. MaxScore
    BY <1>1, <1>2, ScoresAreInts
  <2>2. PICK V : V = {sv[n] : n \in own}
    OBVIOUS
  <2>3. V \in SUBSET (0 .. MaxScore) /\ V # {}
    BY <1>4, <2>1, <2>2
  <2>4. PICK v \in V : \A x \in V : x =< v
    <3>1. MaxScore \in Nat
      BY DEF TopAssumption
    <3> QED
      BY <2>3, <3>1, MaxIsGreatest
  <2>5. PICK E : E = {n \in own : sv[n] = v}
    OBVIOUS
  <2>6. E \in SUBSET Nat /\ E # {}
    BY <2>1, <2>2, <2>5 DEF Slots
  <2>7. PICK b \in E : \A n \in E : b =< n
    BY <2>6, NatLeast
  <2>8. ASSUME NEW m \in own PROVE sv[m] < sv[b] \/ (sv[m] = sv[b] /\ b =< m)
    <3>1. sv[m] =< v /\ sv[m] \in Int /\ v \in Int /\ sv[b] = v
      BY <2>1, <2>2, <2>3, <2>4, <2>5
    <3>2. CASE sv[m] = v
      BY <2>5, <2>7, <3>1, <3>2
    <3>3. CASE sv[m] # v
      BY <3>1, <3>3
    <3> QED
      BY <3>2, <3>3
  <2>9. b \in own
    BY <2>5
  <2>10. PICK best \in own :
             /\ best = CHOOSE n \in own : \A m \in own : sv[m] < sv[n] \/ (sv[m] = sv[n] /\ n =< m)
             /\ \A m \in own : sv[m] < sv[best] \/ (sv[m] = sv[best] /\ best =< m)
    BY <2>8, <2>9
  <2>11. ThreadBest(t) = [slot |-> best, score |-> sv[best]]
    BY <1>1, <1>4, <2>10 DEF ThreadBest
  <2>12. best \in Slots /\ sv[best] \in 0 .. MaxScore /\ sv[best] \in Scores
    BY <1>2, <2>1
  <2>13. ASSUME NEW n \in Slots, n % BlockThreads = t PROVE sv[n] =< sv[best]
    <3>1. CASE n \in own
      <4>1. sv[n] \in Int /\ sv[best] \in Int
        BY <1>2, <2>12
      <4> QED
        BY <2>10, <3>1, <4>1
    <3>2. CASE n \notin own
      <4>1. sv[n] = Lowest
        BY <1>1, <1>2, <2>13, <3>2
      <4> QED
        BY <2>12, <4>1, ScoresAreInts
    <3> QED
      BY <3>1, <3>2
  <2> QED
    BY <2>11, <2>12, <2>13 DEF Bests
<1> QED
  BY <1>3, <1>4

LEMMA ScanStarts ==
    ASSUME TopAssumption, sv \in [Slots -> Scores], NEW r, r = [t \in ThreadIds |-> ThreadBest(t)],
           NEW st, st = BlockThreads \div 2
    PROVE  Reducing(sv, r, st)
<1>1. \A t \in ThreadIds :
          /\ r[t] \in Bests /\ (r[t].score = Lowest \/ r[t].score = sv[r[t].slot])
          /\ \A n \in Slots : n % BlockThreads = t => sv[n] =< r[t].score
  BY BestOfThread
<1>2. st \in Steps /\ 2 * st =< BlockThreads /\ Width(st) = BlockThreads
  BY DEF TopAssumption, Steps, Width
<1>3. ASSUME NEW n \in Slots
      PROVE  \E t \in ThreadIds : t < Width(st) /\ sv[n] =< r[t].score
  <2>1. PICK t : t = n % BlockThreads
    OBVIOUS
  <2>2. t \in ThreadIds /\ t < BlockThreads
    <3>1. n \in Nat /\ BlockThreads \in Nat \ {0}
      BY DEF Slots, TopAssumption
    <3> QED
      BY <2>1, <3>1 DEF ThreadIds
  <2> QED
    BY <1>1, <1>2, <2>1, <2>2
<1>4. r \in [ThreadIds -> Bests]
  BY <1>1
<1> QED
  BY <1>1, <1>2, <1>3, <1>4 DEF Reducing

\* What Reduce makes of the bests r.
Halved(r, st) ==
    [t \in ThreadIds |-> IF t < st /\ r[t + st].score > r[t].score THEN r[t + st] ELSE r[t]]

LEMMA ReduceKeeps ==
    ASSUME TopAssumption, NEW s, NEW r, NEW st, Reducing(s, r, st), st > 0, s \in [Slots -> Scores]
    PROVE  Reducing(s, Halved(r, st), st \div 2)
<1>1. st \in Nat \ {0} /\ 2 * st =< BlockThreads /\ BlockThreads \in Nat /\ Width(st) = 2 * st
  BY DEF Reducing, Steps, TopAssumption, Width
<1>2. /\ st \div 2 \in Steps /\ Width(st \div 2) = st /\ 2 * (st \div 2) =< BlockThreads
  BY DEF Reducing, Steps, TopAssumption, Width
<1>3. \A t \in ThreadIds : t < st => t + st \in ThreadIds
  BY <1>1 DEF ThreadIds
<1>4. PICK h : h = Halved(r, st)
  OBVIOUS
<1>5. \A t \in ThreadIds : r[t] \in Bests /\ r[t].score \in Int
  <2> TAKE t \in ThreadIds
  <2>1. r[t] \in Bests
    BY DEF Reducing
  <2>2. r[t].score \in Scores
    BY <2>1 DEF Bests
  <2> QED
    BY <2>1, <2>2, ScoresAreInts
<1>6. \A t \in ThreadIds : \/ h[t] = r[t]
                           \/ t < st /\ h[t] = r[t + st]
  BY <1>4 DEF Halved
<1>7. \A t \in ThreadIds : /\ h[t] \in Bests
                           /\ h[t].score = Lowest \/ h[t].score = s[h[t].slot]
  <2> TAKE t \in ThreadIds
  <2>1. PICK u \in ThreadIds : h[t] = r[u]
    BY <1>3, <1>6
  <2>2. r[u] \in Bests /\ (r[u].score = Lowest \/ r[u].score = s[r[u].slot])
    BY <1>5 DEF Reducing
  <2> QED
    BY <2>1, <2>2
<1>8. \A t \in ThreadIds : t < st => h[t].score >= r[t].score /\ h[t].score >= r[t + st].score
  <2> SUFFICES ASSUME NEW t \in ThreadIds, t < st
               PROVE  h[t].score >= r[t].score /\ h[t].score >= r[t + st].score
    OBVIOUS
  <2>1. PICK u \in ThreadIds : u = t + st
    BY <1>3
  <2>2. h[t] = IF r[u].score > r[t].score THEN r[u] ELSE r[t]
    BY <1>4, <2>1 DEF Halved
  <2>3. r[u].score \in Int /\ r[t].score \in Int
    BY <1>5
  <2>4. h[t].score >= r[t].score /\ h[t].score >= r[u].score
    BY <2>2, <2>3
  <2> QED
    BY <2>1, <2>4
<1>9. ASSUME NEW n \in Slots PROVE \E t \in ThreadIds : t < st /\ s[n] =< h[t].score
  <2>1. PICK t \in ThreadIds : t < 2 * st /\ s[n] =< r[t].score
    BY <1>1 DEF Reducing
  <2>2. s[n] \in Int /\ \A u \in ThreadIds : h[u].score \in Int
    <3>1. s[n] \in Scores /\ \A u \in ThreadIds : h[u].score \in Scores
      BY <1>7 DEF Bests
    <3> QED
      BY <3>1, ScoresAreInts
  <2>3. CASE t < st
    <3>1. h[t].score >= r[t].score
      BY <1>8, <2>3
    <3> QED
      BY <1>5, <2>1, <2>2, <2>3, <3>1
  <2>4. CASE ~(t < st)
    <3>1. PICK u \in ThreadIds : u < st /\ t = u + st
      <4>1. t - st \in ThreadIds /\ t - st < st /\ t = (t - st) + st
        BY <1>1, <2>1, <2>4 DEF ThreadIds
      <4> QED
        BY <4>1
    <3>2. h[u].score >= r[t].score
      BY <1>8, <3>1
    <3> QED
      BY <1>5, <2>1, <2>2, <3>1, <3>2
  <2> QED
    BY <2>3, <2>4
<1>10. h \in [ThreadIds -> Bests]
  BY <1>4, <1>7 DEF Halved
<1> QED
  BY <1>2, <1>4, <1>7, <1>9, <1>10 DEF Reducing

-----------------------------------------------------------------------------
(* The specification.                                                      *)

Given0 == [n \in Slots |-> Shared(n)]

\* The lists as far as the documents are taken; then, what was given and emitted,
\* and in a round that one more is to be emitted.
TopIInv ==
    /\ TopTypeOK
    /\ \A t \in ThreadIds : Kept(scores, seen, t, lists[t])
    /\ stage = "insert" => out = <<>>
    /\ stage # "insert" => /\ seen = ScoredDocs
                           /\ sd = [n \in Slots |-> Shared(n).doc]
                           /\ Emitted(scores, Given0, sv, out)
    /\ stage = "reduce" => Len(out) < K /\ Reducing(sv, rv, step)

LEMMA InsertType ==
    ASSUME TopAssumption, NEW list \in [1 .. K -> Entries], NEW d \in Docs, NEW v \in 0 .. MaxScore
    PROVE  Insert(list, d, v) \in [1 .. K -> Entries]
<1>1. K \in Nat /\ [doc |-> d, score |-> v] \in Entries
  BY DEF TopAssumption, Entries, Scores
<1>2. CASE v =< list[K].score
  BY <1>2 DEF Insert
<1>3. CASE ~(v =< list[K].score)
  <2> DEFINE at == CHOOSE n \in 1 .. K : /\ list[n].score < v
                                         /\ \A m \in 1 .. n - 1 : list[m].score >= v
  <2>1. \E n \in 1 .. K : list[n].score < v /\ \A m \in 1 .. n - 1 : list[m].score >= v
    <3>1. PICK A : A = {n \in 1 .. K : list[n].score < v}
      OBVIOUS
    <3>2. \A n \in 1 .. K : list[n].score \in Int
      <4> TAKE n \in 1 .. K
      <4>1. list[n].score \in Scores
        BY DEF Entries
      <4> QED
        BY <4>1, ScoresAreInts
    <3>3. K \in A /\ A \in SUBSET Nat
      BY <1>1, <1>3, <3>1, <3>2 DEF TopAssumption
    <3>4. PICK n \in A : \A m \in A : n =< m
      BY <3>3, NatLeast
    <3>5. ASSUME NEW m \in 1 .. n - 1 PROVE list[m].score >= v
      <4>1. m \in 1 .. K /\ m \notin A
        BY <3>1, <3>4
      <4> QED
        BY <3>1, <3>2, <4>1
    <3> QED
      BY <3>1, <3>5
  <2>2. PICK a \in 1 .. K : a = at
    BY <2>1
  <2> HIDE DEF at
  <2>3. PICK new : new = [n \in 1 .. K |-> IF n < a THEN list[n]
                                           ELSE IF n = a THEN [doc |-> d, score |-> v]
                                           ELSE list[n - 1]]
    OBVIOUS
  <2>4. Insert(list, d, v) = new
    BY <1>3, <2>2, <2>3 DEF Insert, at
  <2>5. \A n \in 1 .. K : n > a => n - 1 \in 1 .. K
    BY <1>1
  <2>6. \A n \in 1 .. K : new[n] \in Entries
    BY <1>1, <2>3, <2>5
  <2> QED
    BY <2>3, <2>4, <2>6
<1> QED
  BY <1>2, <1>3

LEMMA SharedType ==
    ASSUME TopAssumption, TopTypeOK, NEW n \in Slots
    PROVE  Shared(n) \in Entries
<1>1. n \div K \in ThreadIds /\ n % K \in 0 .. K - 1
  BY SlotOfThread
<1>2. (n % K) + 1 \in 1 .. K
  BY <1>1 DEF TopAssumption
<1> QED
  BY <1>1, <1>2 DEF Shared, TopTypeOK

LEMMA TopTypeKeeps ==
    ASSUME TopAssumption, TopTypeOK, [TopNext]_topVars PROVE TopTypeOK'
<1>1. CASE Take
  <2>1. seen \in Docs /\ seen + 1 \in 0 .. ScoredDocs
    BY <1>1 DEF Take, TopTypeOK, Docs, TopAssumption
  <2>2. seen % BlockThreads \in ThreadIds
    BY <2>1 DEF ThreadIds, Docs, TopAssumption
  <2>3. Insert(lists[seen % BlockThreads], seen, scores[seen]) \in [1 .. K -> Entries]
    BY <2>1, <2>2, InsertType DEF TopTypeOK
  <2>4. lists' \in [ThreadIds -> [1 .. K -> Entries]]
    BY <1>1, <2>2, <2>3 DEF Take, TopTypeOK
  <2> QED
    BY <1>1, <2>1, <2>4 DEF Take, TopTypeOK
<1>2. CASE Share
  <2>1. \A n \in Slots : Shared(n).score \in Scores /\ Shared(n).doc \in {NoDoc} \cup Docs
    BY SharedType DEF Entries
  <2>2. sv' \in [Slots -> Scores] /\ sd' \in [Slots -> {NoDoc} \cup Docs]
    BY <1>2, <2>1 DEF Share
  <2> QED
    BY <1>2, <2>2 DEF Share, TopTypeOK
<1>3. CASE Scan
  <2>1. rv' \in [ThreadIds -> [slot : Slots, score : Scores]]
    <3>1. \A t \in ThreadIds : ThreadBest(t) \in [slot : Slots, score : Scores]
      BY BestOfThread DEF TopTypeOK, Bests
    <3> QED
      BY <1>3, <3>1 DEF Scan
  <2>2. step' \in 0 .. BlockThreads \div 2
    BY <1>3 DEF Scan, TopAssumption
  <2> QED
    BY <1>3, <2>1, <2>2 DEF Scan, TopTypeOK
<1>4. CASE Reduce
  <2>1. step \in Nat /\ BlockThreads \in Nat /\ step > 0 /\ step =< BlockThreads \div 2
    BY <1>4 DEF Reduce, TopTypeOK, TopAssumption
  <2>2. step' \in 0 .. BlockThreads \div 2
    BY <1>4, <2>1 DEF Reduce
  <2>3. \A t \in ThreadIds : t < step => t + step \in ThreadIds
    BY <2>1 DEF ThreadIds
  <2>4. rv' \in [ThreadIds -> [slot : Slots, score : Scores]]
    BY <1>4, <2>3 DEF Reduce, TopTypeOK
  <2> QED
    BY <1>4, <2>2, <2>4 DEF Reduce, TopTypeOK
<1>5. CASE Emit
  <2>1. 0 \in ThreadIds
    BY DEF ThreadIds, TopAssumption
  <2>2. rv[0].slot \in Slots /\ rv[0].score \in Scores
    BY <2>1 DEF TopTypeOK
  <2>3. PICK e \in Entries : e = [doc |-> sd[rv[0].slot], score |-> rv[0].score]
    <3>1. sd[rv[0].slot] \in {NoDoc} \cup Docs
      BY <2>2 DEF TopTypeOK
    <3>2. [doc |-> sd[rv[0].slot], score |-> rv[0].score] \in Entries
      BY <2>2, <3>1 DEF Entries
    <3> QED
      BY <3>2
  <2>4. out' \in Seq(Entries)
    BY <1>5, <2>3 DEF Emit, TopTypeOK
  <2>5. sv' \in [Slots -> Scores]
    BY <1>5, <2>2 DEF Emit, TopTypeOK, Scores
  <2> QED
    BY <1>5, <2>4, <2>5 DEF Emit, TopTypeOK
<1>6. CASE UNCHANGED topVars
  BY <1>6 DEF topVars, TopTypeOK
<1> QED
  BY <1>1, <1>2, <1>3, <1>4, <1>5, <1>6 DEF TopNext

LEMMA TopTypeStarts ==
    ASSUME TopAssumption, TopInit PROVE TopTypeOK
<1>1. lists \in [ThreadIds -> [1 .. K -> Entries]]
  BY DEF TopInit, EmptyList, EmptyEntry, Entries, Scores
<1>2. rv \in [ThreadIds -> [slot : Slots, score : Scores]]
  BY SlotZero DEF TopInit, NoBest, Scores
<1>3. sv \in [Slots -> Scores] /\ sd \in [Slots -> {NoDoc} \cup Docs]
  BY DEF TopInit, Scores
<1>4. seen \in 0 .. ScoredDocs /\ step \in 0 .. BlockThreads \div 2 /\ out \in Seq(Entries)
  BY DEF TopInit, TopAssumption
<1> QED
  BY <1>1, <1>2, <1>3, <1>4 DEF TopInit, TopTypeOK

(* The lists, shared memory and the winners stay within their bounds, with
   any number of documents (bm25_topk). *)
THEOREM TopTypeCorrect == ASSUME TopAssumption PROVE TopSpec => []TopTypeOK
<1>1. TopInit => TopTypeOK
  BY TopTypeStarts
<1>2. TopTypeOK /\ [TopNext]_topVars => TopTypeOK'
  BY TopTypeKeeps
<1> QED
  BY <1>1, <1>2, PTL DEF TopSpec

LEMMA TopIInvStarts == ASSUME TopAssumption, TopInit PROVE TopIInv
<1>1. \A t \in ThreadIds : Kept(scores, 0, t, EmptyList)
  BY KeptStarts
<1>2. \A t \in ThreadIds : Kept(scores, seen, t, lists[t])
  BY <1>1 DEF TopInit
<1> QED
  BY <1>2, TopTypeStarts DEF TopIInv, TopInit

LEMMA TakeKeeps == ASSUME TopAssumption, TopIInv, TopTypeOK', Take PROVE TopIInv'
<1>1. PICK d \in Docs : d = seen /\ seen' = d + 1
  BY DEF Take, TopIInv, TopTypeOK, Docs, TopAssumption
<1>2. PICK row \in [Docs -> 0 .. MaxScore] : row = scores /\ scores' = row
  BY DEF Take, TopIInv, TopTypeOK
<1>3. \A t \in ThreadIds : Kept(row, d, t, lists[t])
  BY <1>1, <1>2 DEF TopIInv
<1>4. PICK own : own = d % BlockThreads
  OBVIOUS
<1>5. lists \in [ThreadIds -> [1 .. K -> Entries]]
      /\ lists' = [lists EXCEPT ![own] = Insert(lists[own], d, row[d])]
  BY <1>1, <1>2, <1>4 DEF Take, TopIInv, TopTypeOK
<1>6. ASSUME NEW t \in ThreadIds PROVE Kept(row, d + 1, t, lists'[t])
  <2>1. Kept(row, d, t, lists[t])
    BY <1>3
  <2>2. CASE t = own
    <3>1. lists'[t] = Insert(lists[t], d, row[d])
      BY <1>5, <2>2
    <3>2. Kept(row, d + 1, t, Insert(lists[t], d, row[d]))
      BY <1>4, <2>1, <2>2, InsertKeeps
    <3> QED
      BY <3>1, <3>2
  <2>3. CASE t # own
    <3>1. lists'[t] = lists[t]
      BY <1>5, <2>3
    <3>2. Kept(row, d + 1, t, lists[t])
      BY <1>4, <2>1, <2>3, KeptPasses
    <3> QED
      BY <3>1, <3>2
  <2> QED
    BY <2>2, <2>3
<1>7. \A t \in ThreadIds : Kept(scores', seen', t, lists'[t])
  BY <1>1, <1>2, <1>6
<1>8. stage' = "insert" /\ out' = <<>>
  BY DEF Take, TopIInv
<1> QED
  BY <1>7, <1>8 DEF TopIInv

LEMMA ShareKeeps == ASSUME TopAssumption, TopIInv, TopTypeOK', Share PROVE TopIInv'
<1>1. PICK row \in [Docs -> 0 .. MaxScore] : row = scores /\ scores' = row
  BY DEF Share, TopIInv, TopTypeOK
<1>2. lists' = lists /\ seen' = ScoredDocs /\ seen = ScoredDocs /\ stage' = "scan" /\ out' = <<>>
  BY DEF Share, TopIInv
<1>3. \A t \in ThreadIds : Kept(row, ScoredDocs, t, lists[t])
  BY <1>1, <1>2 DEF TopIInv
<1>4. PICK g : g = Given0
  OBVIOUS
<1>5. Given(row, lists, g)
  BY <1>3, <1>4 DEF Given, Given0, Shared
<1>6. Pooled(row, g)
  BY <1>5, Pools
<1>7. \A n \in Slots : g[n] = Shared(n)
  BY <1>4 DEF Given0
<1>8. PICK s : s = sv'
  OBVIOUS
<1>9. s = [n \in Slots |-> g[n].score]
  BY <1>7, <1>8 DEF Share
<1>10. PICK o : o = <<>>
  OBVIOUS
<1>11. Emitted(row, g, s, o)
  BY <1>6, <1>9, <1>10, EmittedStarts
<1>12. Given0' = g
  BY <1>2, <1>4 DEF Given0, Shared
<1>13. sd' = [n \in Slots |-> Shared(n)'.doc]
  BY <1>2 DEF Share, Shared
<1>14. Emitted(scores', Given0', sv', out')
  BY <1>1, <1>2, <1>8, <1>10, <1>11, <1>12
<1>15. \A t \in ThreadIds : Kept(scores', seen', t, lists'[t])
  BY <1>1, <1>2, <1>3
<1> QED
  BY <1>2, <1>13, <1>14, <1>15 DEF TopIInv

\* The steps after the lists are shared leave the row, the lists and the documents alone.
LEMMA SharedStays ==
    ASSUME TopIInv, TopTypeOK', stage # "insert", stage' # "insert",
           UNCHANGED <<scores, lists, seen, sd>>,
           Emitted(scores, Given0, sv', out'), stage' = "reduce" => Len(out') < K /\ Reducing(sv', rv', step')
    PROVE  TopIInv'
<1>1. Given0' = Given0
  BY DEF Given0, Shared
<1>2. sd' = [n \in Slots |-> Shared(n)'.doc]
  BY DEF TopIInv, Shared
<1>3. \A t \in ThreadIds : Kept(scores', seen', t, lists'[t])
  BY DEF TopIInv
<1>4. seen' = ScoredDocs
  BY DEF TopIInv
<1> QED
  BY <1>1, <1>2, <1>3, <1>4 DEF TopIInv

LEMMA ScanKeeps == ASSUME TopAssumption, TopIInv, TopTypeOK', Scan PROVE TopIInv'
<1>1. Emitted(scores, Given0, sv, out) /\ Len(out) < K /\ sv \in [Slots -> Scores]
  BY DEF Scan, TopIInv, TopTypeOK
<1>2. Reducing(sv, rv', step')
  <2>1. PICK r : r = rv' /\ r = [t \in ThreadIds |-> ThreadBest(t)]
    BY DEF Scan
  <2>2. PICK st : st = step' /\ st = BlockThreads \div 2
    BY DEF Scan
  <2>3. Reducing(sv, r, st)
    BY <1>1, <2>1, <2>2, ScanStarts
  <2> QED
    BY <2>1, <2>2, <2>3
<1>3. /\ stage # "insert" /\ stage' # "insert" /\ sv' = sv /\ out' = out
      /\ UNCHANGED <<scores, lists, seen, sd>>
  BY DEF Scan
<1> QED
  BY <1>1, <1>2, <1>3, SharedStays

LEMMA RoundKeeps == ASSUME TopAssumption, TopIInv, TopTypeOK', Reduce PROVE TopIInv'
<1>1. /\ Emitted(scores, Given0, sv, out) /\ Len(out) < K /\ Reducing(sv, rv, step)
      /\ step > 0 /\ sv \in [Slots -> Scores]
  BY DEF Reduce, TopIInv, TopTypeOK
<1>2. Reducing(sv, rv', step')
  <2>1. rv' = Halved(rv, step) /\ step' = step \div 2
    BY DEF Reduce, Halved
  <2> QED
    BY <1>1, <2>1, ReduceKeeps
<1>3. /\ stage # "insert" /\ stage' # "insert" /\ sv' = sv /\ out' = out
      /\ UNCHANGED <<scores, lists, seen, sd>>
  BY DEF Reduce
<1> QED
  BY <1>1, <1>2, <1>3, SharedStays

LEMMA EmitStepKeeps == ASSUME TopAssumption, EnoughDocs, TopIInv, TopTypeOK', Emit PROVE TopIInv'
<1>1. PICK row \in [Docs -> 0 .. MaxScore] : row = scores
  BY DEF TopIInv, TopTypeOK
<1>2. PICK g : g = Given0
  OBVIOUS
<1>3. PICK s \in [Slots -> Scores] : s = sv
  BY DEF TopIInv, TopTypeOK
<1>4. PICK o : o = out
  OBVIOUS
<1>5. Emitted(row, g, s, o) /\ Len(o) < K /\ Reducing(s, rv, 0) /\ seen = ScoredDocs
      /\ sd = [n \in Slots |-> Shared(n).doc]
  BY <1>1, <1>2, <1>3, <1>4 DEF Emit, TopIInv
<1>6. Pooled(row, g)
  <2>1. \A t \in ThreadIds : Kept(row, ScoredDocs, t, lists[t])
    BY <1>1, <1>5 DEF TopIInv
  <2>2. Given(row, lists, g)
    BY <1>2, <2>1 DEF Given, Given0, Shared
  <2> QED
    BY <2>2, Pools
<1>7. PICK b \in Bests : b = rv[0] /\ (b.score = Lowest \/ b.score = s[b.slot])
                         /\ \A n \in Slots : s[n] =< b.score
  <2>1. 0 \in ThreadIds /\ \A t \in ThreadIds : t < Width(0) => t = 0
    BY DEF ThreadIds, Width, TopAssumption
  <2>2. rv[0] \in Bests /\ (rv[0].score = Lowest \/ rv[0].score = s[rv[0].slot])
    BY <1>5, <2>1 DEF Reducing
  <2>3. \A n \in Slots : s[n] =< rv[0].score
    BY <1>5, <2>1 DEF Reducing
  <2> QED
    BY <2>2, <2>3
<1>8. PICK w \in Slots : w = b.slot
  BY DEF Bests
<1>9. \A n \in Slots : s[n] \in Int
  BY ScoresAreInts
<1>10. b.score > Lowest
  <2>1. PICK n \in Slots : s[n] > Lowest
    BY <1>5, <1>6, SlotIsLeft DEF Unfinished
  <2>2. s[n] =< b.score /\ s[n] \in Int
    BY <1>7, <1>9
  <2>3. b.score \in Scores
    BY DEF Bests
  <2>4. b.score \in Int /\ Lowest \in Int
    BY <2>3, ScoresAreInts
  <2> QED
    BY <2>1, <2>2, <2>4
<1>11. b.score = s[w]
  <2>1. b.score # Lowest
    BY <1>10 DEF Lowest
  <2> QED
    BY <1>7, <1>8, <2>1
<1>12. sd[w] = g[w].doc
  BY <1>2, <1>5 DEF Given0
<1>13. PICK s2 : s2 = sv' /\ s2 = [s EXCEPT ![w] = Lowest]
  BY <1>3, <1>7, <1>8 DEF Emit
<1>14. PICK o2 : o2 = out' /\ o2 = Append(o, [doc |-> g[w].doc, score |-> s[w]])
  BY <1>4, <1>7, <1>8, <1>11, <1>12 DEF Emit
<1>15. Wins(g, s, o, w, s2, o2)
  <2>1. s[w] > Lowest /\ \A n \in Slots : s[n] =< s[w]
    BY <1>7, <1>10, <1>11
  <2> QED
    BY <1>5, <1>13, <1>14, <2>1 DEF Wins
<1>16. Emitted(row, g, s2, o2)
  BY <1>5, <1>6, <1>15, EmitKeeps
<1>17. Emitted(scores, Given0, sv', out')
  BY <1>1, <1>2, <1>13, <1>14, <1>16
<1>18. /\ stage # "insert" /\ stage' = "scan" /\ stage' # "insert" /\ stage' # "reduce"
       /\ UNCHANGED <<scores, lists, seen, sd>>
  BY DEF Emit
<1> QED
  BY <1>17, <1>18, SharedStays

LEMMA TopIInvKeeps ==
    ASSUME TopAssumption, EnoughDocs, TopIInv, [TopNext]_topVars PROVE TopIInv'
<1>1. TopTypeOK'
  BY TopTypeKeeps DEF TopIInv
<1>2. CASE UNCHANGED topVars
  <2>1. Given0' = Given0
    BY <1>2 DEF topVars, Given0, Shared
  <2>2. stage # "insert" => sd' = [n \in Slots |-> Shared(n)'.doc]
    BY <1>2 DEF TopIInv, topVars, Shared
  <2>3. \A t \in ThreadIds : Kept(scores', seen', t, lists'[t])
    BY <1>2 DEF TopIInv, topVars
  <2> QED
    BY <1>1, <1>2, <2>1, <2>2, <2>3 DEF TopIInv, topVars
<1> QED
  BY <1>1, <1>2, TakeKeeps, ShareKeeps, ScanKeeps, RoundKeeps, EmitStepKeeps DEF TopNext

-----------------------------------------------------------------------------
(* The winners of K rounds.                                                *)

LEMMA InOrderFromOne ==
    ASSUME NEW n \in Nat
    PROVE  DOMAIN InOrder(1 .. n) = 1 .. n /\ \A k \in 1 .. n : InOrder(1 .. n)[k] = k
<1>1. IsFiniteSet(1 .. n) /\ Cardinality(1 .. n) = n
  BY FS_Interval
<1>2. /\ InOrder(1 .. n) \in Seq(1 .. n) /\ DOMAIN InOrder(1 .. n) = 1 .. n
      /\ \A k \in 1 .. n : Cardinality(Below(1 .. n, InOrder(1 .. n)[k])) = k - 1
  <2>1. PICK S \in SUBSET Nat : S = 1 .. n
    OBVIOUS
  <2>2. /\ InOrder(S) \in Seq(S) /\ DOMAIN InOrder(S) = 1 .. Cardinality(S)
        /\ \A k \in DOMAIN InOrder(S) : Cardinality(Below(S, InOrder(S)[k])) = k - 1
    BY <1>1, <2>1, InOrderIsOrdered
  <2> QED
    BY <1>1, <2>1, <2>2
<1>3. ASSUME NEW k \in 1 .. n PROVE InOrder(1 .. n)[k] = k
  <2>1. PICK x \in 1 .. n : x = InOrder(1 .. n)[k]
    BY <1>2, ElementOfSeq
  <2>2. Below(1 .. n, x) = 1 .. x - 1
    BY <2>1 DEF Below
  <2>3. Cardinality(1 .. x - 1) = x - 1
    <3>1. x - 1 \in Nat
      OBVIOUS
    <3> QED
      BY <3>1, FS_Interval
  <2> QED
    BY <1>2, <2>1, <2>2, <2>3
<1> QED
  BY <1>2, <1>3

\* None of the winners is an empty entry: all are hits.
LEMMA WinnersAreHits ==
    ASSUME TopAssumption, NEW row, NEW g, NEW s, NEW o, o = out, Emitted(row, g, s, o)
    PROVE  Len(Hits) = Len(o) /\ \A n \in 1 .. Len(o) : Hits[n] = o[n]
<1>1. PICK l \in Nat : l = Len(o) /\ DOMAIN o = 1 .. l /\ o \in Seq(Entries)
  BY DEF Emitted
<1>2. \A n \in 1 .. l : o[n].doc # NoDoc
  BY <1>1 DEF Emitted, Docs, NoDoc, TopAssumption
<1>3. {n \in DOMAIN out : out[n].doc # NoDoc} = 1 .. l
  BY <1>1, <1>2
<1>4. PICK at : at = InOrder(1 .. l)
  OBVIOUS
<1>5. DOMAIN at = 1 .. l /\ \A k \in 1 .. l : at[k] = k
  BY <1>4, InOrderFromOne
<1>6. Hits = [k \in DOMAIN at |-> o[at[k]]]
  BY <1>3, <1>4 DEF Hits, Chosen
<1>7. PICK h : h = Hits /\ h = [k \in 1 .. l |-> o[k]]
  BY <1>5, <1>6
<1>8. h \in [1 .. l -> Entries]
  BY <1>1, <1>7, ElementOfSeq
<1>9. Len(h) = l
  BY <1>8, FunctionIsSeq
<1> QED
  BY <1>1, <1>7, <1>9

Lost(o, d) == Len(o) = K /\ \A m \in 1 .. K : o[m].doc # d

\* A document that did not win is no better than the last winner.
LEMMA LosersAreNoBetter ==
    ASSUME TopAssumption, NEW row \in [Docs -> 0 .. MaxScore], NEW g, Pooled(row, g),
           NEW s, NEW o, Emitted(row, g, s, o), NEW d \in Docs, Lost(o, d)
    PROVE  row[d] =< o[K].score
<1>1. K \in Nat /\ K \in 1 .. K /\ 1 .. Len(o) = 1 .. K
  BY DEF TopAssumption, Lost
<1>2. \A m \in 1 .. K : o[m].doc \in Docs /\ o[m].score = row[o[m].doc] /\ o[m].score \in Int
  BY <1>1 DEF Emitted
<1>3. \A n \in Slots : s[n] =< o[K].score
  BY <1>1 DEF Emitted
<1>4. row[d] \in Int /\ \A n \in Slots : g[n].score \in Int
  <2>1. \A n \in Slots : g[n].score \in Scores
    BY DEF Pooled, Entries
  <2> QED
    BY <2>1, ScoresAreInts
<1>5. CASE \E n \in Slots : g[n].doc = d
  <2>1. PICK n \in Slots : g[n].doc = d
    BY <1>5
  <2>2. d # NoDoc
    BY DEF Docs, NoDoc, TopAssumption
  <2>3. g[n].score = row[d]
    BY <2>1, <2>2 DEF Pooled
  <2>4. ~ \E m \in 1 .. Len(o) : o[m].doc = g[n].doc
    BY <1>1, <2>1 DEF Lost
  <2>5. s[n] = g[n].score
    BY <2>4 DEF Emitted
  <2>6. s[n] =< o[K].score
    BY <1>3
  <2> QED
    BY <2>3, <2>5, <2>6
<1>6. CASE ~ \E n \in Slots : g[n].doc = d
  <2>1. PICK M : NoWorse(g, row[d], M)
    BY <1>6 DEF Pooled
  <2>2. /\ M \in SUBSET Slots /\ IsFiniteSet(M) /\ Cardinality(M) = K
        /\ \A n \in M : g[n].score >= row[d]
    BY <2>1 DEF NoWorse
  <2>3. Full(g, M)
    <3>1. row[d] > Lowest
      BY DEF Lowest, TopAssumption
    <3>2. \A n \in M : g[n].score # Lowest
      BY <1>4, <2>2, <3>1 DEF Lowest
    <3> QED
      BY <3>2 DEF Full
  <2>4. CASE \E n \in M : s[n] = g[n].score
    <3>1. PICK n \in M : s[n] = g[n].score
      BY <2>4
    <3>2. g[n].score =< o[K].score /\ g[n].score >= row[d] /\ g[n].score \in Int /\ o[K].score \in Int
      BY <1>1, <1>2, <1>3, <1>4, <2>2, <3>1
    <3> QED
      BY <1>4, <3>2
  <2>5. CASE \A n \in M : s[n] # g[n].score
    <3>1. ASSUME NEW n \in M PROVE \E m \in 1 .. K : o[m].doc = g[n].doc
      <4>1. n \in Slots /\ s[n] # g[n].score
        BY <2>2, <2>5
      <4>2. s[n] = IF \E m \in 1 .. Len(o) : o[m].doc = g[n].doc THEN Lowest ELSE g[n].score
        BY <4>1 DEF Emitted
      <4>3. \E m \in 1 .. Len(o) : o[m].doc = g[n].doc
        BY <4>1, <4>2
      <4> QED
        BY <1>1, <4>3
    <3>2. PICK O : O = {o[m].doc : m \in 1 .. K}
      OBVIOUS
    <3>3. IsFiniteSet(O) /\ Cardinality(O) =< K /\ Cardinality(O) \in Nat
      BY <1>1, <3>2, EmittedDocs
    <3>4. PICK D : D = DocsIn(g, M)
      OBVIOUS
    <3>5. D \in SUBSET Docs /\ IsFiniteSet(D) /\ Cardinality(D) = K
      BY <2>2, <2>3, <3>4, SlotsAreDocs
    <3>6. D \subseteq O
      BY <3>1, <3>2, <3>4 DEF DocsIn
    <3>7. D = O
      <4>1. Cardinality(D) =< Cardinality(O) /\ (Cardinality(D) = Cardinality(O) => D = O)
        BY <3>3, <3>6, FS_Subset
      <4> QED
        BY <1>1, <3>3, <3>5, <4>1
    <3>8. o[K].doc \in D
      BY <1>1, <3>2, <3>7
    <3>9. PICK n \in M : g[n].doc = o[K].doc
      BY <3>4, <3>8 DEF DocsIn
    <3>10. g[n].score = o[K].score
      <4>1. g[n].doc \in Docs /\ o[K].score = row[o[K].doc]
        BY <1>1, <1>2, <3>9
      <4>2. g[n].doc # NoDoc
        BY <4>1 DEF Docs, NoDoc, TopAssumption
      <4> QED
        BY <2>2, <3>9, <4>1, <4>2 DEF Pooled
    <3>11. g[n].score >= row[d] /\ g[n].score \in Int
      BY <1>4, <2>2
    <3> QED
      BY <1>4, <3>10, <3>11
  <2> QED
    BY <2>4, <2>5
<1> QED
  BY <1>5, <1>6

LEMMA WinnersAreTopK ==
    ASSUME TopAssumption, NEW row \in [Docs -> 0 .. MaxScore], row = scores, NEW g, Pooled(row, g),
           NEW s, NEW o, o = out, Emitted(row, g, s, o)
    PROVE  HitsAreTopK
<1>1. PICK l \in Nat : l = Len(o) /\ l = Len(Hits) /\ \A n \in 1 .. l : Hits[n] = o[n]
  <2>1. Len(o) \in Nat
    BY DEF Emitted
  <2> QED
    BY <2>1, WinnersAreHits
<1>2. \A m, n \in 1 .. l : m < n => o[m].score >= o[n].score /\ o[m].doc # o[n].doc
  BY <1>1 DEF Emitted
<1>3. HitsAreDistinct
  <2> SUFFICES ASSUME NEW m \in 1 .. l, NEW n \in 1 .. l, m # n PROVE Hits[m].doc # Hits[n].doc
    BY <1>1 DEF HitsAreDistinct
  <2>1. m < n \/ n < m
    OBVIOUS
  <2>2. o[m].doc # o[n].doc
    BY <1>2, <2>1
  <2> QED
    BY <1>1, <2>2
<1>4. BestAreHits
  <2> SUFFICES ASSUME l = K
               PROVE  /\ Len(Hits) = K
                      /\ \A n \in 1 .. K : Hits[n].score = scores[Hits[n].doc]
                      /\ \A n \in 1 .. K - 1 : Hits[n].score >= Hits[n + 1].score
                      /\ \A d \in Docs \ {Hits[n].doc : n \in 1 .. K} : scores[d] <= Hits[K].score
    BY <1>1 DEF BestAreHits
  <2>1. K \in Nat /\ K \in 1 .. K /\ \A n \in 1 .. K - 1 : n \in 1 .. K /\ n + 1 \in 1 .. K /\ n < n + 1
    BY DEF TopAssumption
  <2>2. \A n \in 1 .. K : Hits[n] = o[n] /\ o[n].score = row[o[n].doc]
    BY <1>1 DEF Emitted
  <2>3. \A n \in 1 .. K : Hits[n].score = scores[Hits[n].doc]
    BY <2>2
  <2>4. \A n \in 1 .. K - 1 : Hits[n].score >= Hits[n + 1].score
    BY <1>2, <2>1, <2>2
  <2>5. ASSUME NEW d \in Docs, d \notin {Hits[n].doc : n \in 1 .. K} PROVE scores[d] =< Hits[K].score
    <3>1. \A m \in 1 .. K : o[m].doc # d
      BY <2>2, <2>5
    <3>2. Len(o) = K
      BY <1>1
    <3>3. row[d] =< o[K].score
      BY <3>1, <3>2, LosersAreNoBetter DEF Lost
    <3> QED
      BY <2>1, <2>2, <3>3
  <2> QED
    BY <1>1, <2>3, <2>4, <2>5
<1> QED
  BY <1>3, <1>4 DEF HitsAreTopK

LEMMA TopIInvImplies == ASSUME TopAssumption, TopIInv PROVE HitsAreTopK
<1>1. PICK row \in [Docs -> 0 .. MaxScore] : row = scores
  BY DEF TopIInv, TopTypeOK
<1>2. CASE stage = "insert"
  <2>1. out = <<>>
    BY <1>2 DEF TopIInv
  <2>2. DOMAIN out = {} /\ Len(out) = 0
    BY <2>1
  <2>3. {n \in DOMAIN out : out[n].doc # NoDoc} = 1 .. 0
    BY <2>2
  <2>4. PICK at : at = InOrder(1 .. 0)
    OBVIOUS
  <2>5. DOMAIN at = 1 .. 0
    BY <2>4, InOrderFromOne
  <2>6. PICK h : h = Hits /\ h = [k \in 1 .. 0 |-> out[at[k]]]
    <3>1. Hits = [k \in DOMAIN at |-> out[at[k]]]
      BY <2>3, <2>4 DEF Hits, Chosen
    <3> QED
      BY <2>5, <3>1
  <2>7. h \in [1 .. 0 -> Entries]
    BY <2>6
  <2>8. Len(h) = 0
    BY <2>7, FunctionIsSeq
  <2> QED
    BY <2>2, <2>6, <2>8 DEF HitsAreTopK, HitsAreDistinct, BestAreHits, TopAssumption
<1>3. CASE stage # "insert"
  <2>1. PICK g : g = Given0
    OBVIOUS
  <2>2. \A t \in ThreadIds : Kept(row, ScoredDocs, t, lists[t])
    BY <1>1, <1>3 DEF TopIInv
  <2>3. Given(row, lists, g)
    BY <2>1, <2>2 DEF Given, Given0, Shared
  <2>4. Pooled(row, g)
    BY <2>3, Pools
  <2>5. Emitted(row, g, sv, out)
    BY <1>1, <1>3, <2>1 DEF TopIInv
  <2> QED
    BY <1>1, <2>4, <2>5, WinnersAreTopK
<1> QED
  BY <1>2, <1>3

(* If there are k documents at least, the hits of a query are its k best
   documents, each once, whatever the scores, the number of documents and of
   threads: what a thread's list drops is no better than k that it keeps, and
   the tree of a round misses no slot (bm25_topk, score_batch). *)
THEOREM BestHitsFound == ASSUME TopAssumption, EnoughDocs PROVE TopSpec => []HitsAreTopK
<1>1. TopInit => TopIInv
  BY TopIInvStarts
<1>2. TopIInv /\ [TopNext]_topVars => TopIInv'
  BY TopIInvKeeps
<1>3. TopIInv => HitsAreTopK
  BY TopIInvImplies
<1> QED
  BY <1>1, <1>2, <1>3, PTL DEF TopSpec
=============================================================================
