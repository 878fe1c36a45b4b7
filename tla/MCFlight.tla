------------------------------ MODULE MCFlight ------------------------------
(***************************************************************************)
(* The Flight layer for TLC, one part at a time: the columns of a DoPut    *)
(* job from value to buffer (Coercion) and from buffer to segments         *)
(* (ColumnBuffers), and the two calls that read a directory an IndexWriter *)
(* goes on changing (FlightRead, Hydrate).  A behaviour runs one part and  *)
(* leaves the variables of the others alone.  How a job becomes files is in*)
(* WriteSession.                                                           *)
(***************************************************************************)
EXTENDS ColumnBuffers, FlightRead, Hydrate

CONSTANTS
    W, Factors, Scales, MaxBatch, ColumnRows    \* Coercion

VARIABLES
    part,                                                   \* the part that runs
    type, scale, metadata, strict, phase, sent, stored      \* Coercion

coercionVars == <<type, scale, metadata, strict, phase, sent, stored>>
flightVars == <<part, coercionVars, jobVars, vars, hydrateVars>>

(* The variables of a part that does not run. *)
CoercionIdle == /\ type = 0 /\ scale = 0 /\ metadata = 0 /\ strict = 0
                /\ phase = 0 /\ sent = 0 /\ stored = 0
ColumnsIdle == /\ kind = <<>> /\ buffers = <<>> /\ docs_in_segment = 0
               /\ written = <<>> /\ finished = FALSE /\ arrived = <<>>
ReadIdle == /\ segs = <<>> /\ dels = <<>> /\ commits = <<>> /\ oldest = 0
            /\ pc = "none" /\ call = "none" /\ request = "none" /\ seen = 0 /\ next = 0
            /\ schema = <<>> /\ info = <<>> /\ doc_base = 0 /\ out = <<>>
HydrateIdle == /\ segments = <<>> /\ pairs = <<>> /\ stage = "none" /\ by_seg = {}
               /\ rows = <<>> /\ buf = 0 /\ arrays = <<>>

-----------------------------------------------------------------------------
(* Every type but those whose accepted columns the code then cannot take. *)
AcceptableTypes ==
    {"Int32", "UInt32", "Boolean", "Timestamp", "Date32", "Utf8", "Dictionary", "List<Int64>",
     "List<Utf8>", "Int64", "UInt64", "Decimal128", "Float64", "Float32", "Binary",
     "List<Dictionary>", "Struct"}
Conversions == INSTANCE Coercion WITH Types <- AcceptableTypes, MaxRows <- ColumnRows

(* An Int64 column, which starts in the dense lane, beside a nullable one; and
   a list column, where null and the empty list are both absent. *)
JobSchemas == {[f \in {"n", "s"} |-> IF f = "n" THEN "int64" ELSE "scalar"],
               [f \in {"l"} |-> "longs"]}

(* Segments of one and of two rows; "t" has one term per document in some,
   several in others, and is absent in some.  The third row's is not UTF-8. *)
NamesOfFields == <<"n", "t">>
Shaped(n, t) == [f \in {"n", "t"} |-> IF f = "n" THEN n ELSE t]
SmallFlushes == {[size |-> 2, shapes |-> Shaped("int", "none")],
                 [size |-> 1, shapes |-> Shaped("int", "term")],
                 [size |-> 1, shapes |-> Shaped("none", "terms")]}
ShapesOfTerms == {"term", "terms"}
TermsNotUtf8 == Shaped({}, {3})
CpuOnly == {"auto", "cpu"}

(* Everything in both modes; a projection without rows per batch; two segments
   in the opposite order, one twice; columns that do not exist; a bad mode; an
   executor the server does not have. *)
Request(all, names, every, columns, mode, batch) ==
    [all |-> all, names |-> names, every |-> every, columns |-> columns,
     row_mode |-> mode, batch_rows |-> batch, frame_version |-> 1, executor |-> "auto"]
SomeRequests ==
    {Request(TRUE, <<>>, TRUE, {}, "compact", 1),
     Request(TRUE, <<>>, TRUE, {}, "positional", 2),
     Request(TRUE, <<>>, FALSE, {"t", "_doc", "_live"}, "compact", 0),
     Request(FALSE, <<2, 1>>, TRUE, {}, "compact", 2),
     Request(FALSE, <<1, 1>>, FALSE, {"n", "_live"}, "positional", 5),
     Request(FALSE, <<>>, FALSE, {"x"}, "compact", 1),
     Request(TRUE, <<>>, FALSE, {"x"}, "compact", 1),
     Request(TRUE, <<>>, TRUE, {}, "sparse", 1),
     [Request(TRUE, <<>>, TRUE, {}, "compact", 1) EXCEPT !.executor = "gpu"]}

(* Documents that store nothing, another field, one value of either type, or
   two of different types, in segments of one and of two. *)
Of(field, t) == [field |-> field, type |-> t]
SomeStored == {<<>>, <<Of("g", "str")>>, <<Of("f", "str")>>, <<Of("f", "i64")>>,
               <<Of("f", "str"), Of("f", "i64")>>}
RowsOfSizes == <<1, 2>>
FieldsOfRows == <<"f", "g">>

ASSUME PartsAssumption ==
    /\ Conversions!ConstantsAssumption /\ JobAssumption
    /\ ConstantsAssumption /\ HydrateAssumption

-----------------------------------------------------------------------------
FlightInit ==
    \/ part = "conversions" /\ Conversions!Init /\ ColumnsIdle /\ ReadIdle /\ HydrateIdle
    \/ part = "columns" /\ JobInit /\ CoercionIdle /\ ReadIdle /\ HydrateIdle
    \/ part = "read" /\ Init /\ CoercionIdle /\ ColumnsIdle /\ HydrateIdle
    \/ part = "rows" /\ HydrateInit /\ CoercionIdle /\ ColumnsIdle /\ ReadIdle

Others(p) ==
    /\ UNCHANGED part
    /\ p # "conversions" => UNCHANGED coercionVars
    /\ p # "columns" => UNCHANGED jobVars
    /\ p # "read" => UNCHANGED vars
    /\ p # "rows" => UNCHANGED hydrateVars

FlightNext ==
    \/ part = "conversions" /\ Conversions!Next /\ Others("conversions")
    \/ part = "columns" /\ JobNext /\ Others("columns")
    \/ part = "read" /\ Next /\ Others("read")
    \/ part = "rows" /\ HydrateNext /\ Others("rows")

(* The server goes on with a call; the client and the IndexWriter need not. *)
Answer == \/ part = "read" /\ Server /\ Others("read")
          \/ part = "rows" /\ HydrateStep /\ Others("rows")

FlightSpec == FlightInit /\ [][FlightNext]_flightVars /\ WF_flightVars(Answer)

-----------------------------------------------------------------------------
(* The state of the part that runs is well typed. *)
TypesOK ==
    CASE part = "conversions" -> Conversions!TypeOK
      [] part = "columns"     -> JobTypeOK
      [] part = "read"        -> TypeOK
      [] part = "rows"        -> HydrateTypeOK

(* What the policy accepts is stored without loss, but by name. *)
NothingIsLost == part = "conversions" => Conversions!NothingIsLost /\ Conversions!PolicyIsKept

(* Stored integers sort as they were sent; scaled decimals are the nearest
   integers, ties away from zero. *)
ConversionsAreExact ==
    part = "conversions" => /\ Conversions!IntegersKeepTheirOrder
                            /\ Conversions!DecimalsRoundToNearest

(* Every call the server has begun ends, in an answer or an error. *)
EveryCallEnds == (pc \in {"open", "plan", "batch"} \/ stage \in {"called", "fetch", "build"})
                    ~> (pc \in {"done", "failed"} \/ stage \in {"done", "failed"})
=============================================================================
