------------------------------- MODULE MCGpu --------------------------------
(***************************************************************************)
(* The GPU layer for TLC, one part at a time: the ring of pinned staging   *)
(* buffers (PinnedRing), the upload a packer keeps between two calls       *)
(* (PackerCache), the statistics kernel (GpuStats), the text ingest        *)
(* (TextIngest) and the top k of BM25 (Bm25TopK).  A behaviour runs one    *)
(* part.  All but the text are extended: the ring, the cache and the       *)
(* kernel's table stay in their initial state when they do not run.        *)
(***************************************************************************)
EXTENDS PinnedRing, PackerCache, GpuStats, Bm25TopK

CONSTANTS
    MaxTokenLen, BUCKETS, NumFree, HostThreads, SLICE,     \* TextIngest
    IngestSlots, CompactCap, SpanCap, DirtyShare, DirtyExtra

VARIABLES
    part,                                                  \* the part that runs
    text, host_threads, kpc, at, slot, terms, pairs,       \* TextIngest
    dirty, doc_tokens, tphase, inv

textVars == <<text, host_threads, kpc, at, slot, terms, pairs, dirty, doc_tokens, tphase, inv>>
gpuVars == <<part, vars, cacheVars, statsVars, textVars, topVars>>

(* The variables of a part that does not run. *)
StatsIdle == /\ values = <<>> /\ tpc = [t \in Threads |-> "value"] /\ ti = 0 /\ probe = 0
             /\ lmin = 0 /\ lmax = 0 /\ lgcd = 0 /\ cur = 0
             /\ table = [s \in 0 .. TableSlots - 1 |-> Sentinel] /\ count = 0
             /\ overflow = FALSE /\ has_sentinel = FALSE /\ out_of_range = FALSE
             /\ out_min = High /\ out_max = Low /\ gcds = <<0>>
TextIdle == /\ text = 0 /\ host_threads = 0 /\ kpc = 0 /\ at = 0 /\ slot = 0 /\ terms = 0
            /\ pairs = 0 /\ dirty = 0 /\ doc_tokens = 0 /\ tphase = "none" /\ inv = 0
TopIdle == /\ scores = 0 /\ stage = "none" /\ lists = 0 /\ seen = 0 /\ sv = 0 /\ sd = 0
           /\ rv = 0 /\ step = 0 /\ out = <<>>

-----------------------------------------------------------------------------
(* Every column of up to four of a few values, among them the sentinel, a value
   out of the half range and values with a common divisor; values of one
   residue collide in the table. *)
StatsColumns == UNION {[1 .. n -> {-8, -3, 0, 3}] : n \in {1, 3}}
                \cup {v \in [1 .. 4 -> {-8, -2, 0, 2, 4}] : v[1] =< v[2]}
StatsSlotOf(v, k) == ((v % 2) + k) % TableSlots

(* Every text of four characters but for some starts, and three words of one
   letter; b and aa collide. *)
Characters == {<<2>>, <<4>>, <<5>>, <<8, 10>>, <<0>>, <<1>>, <<9, 10>>}
Letters == {<<2>>, <<4>>, <<5>>, <<8, 10>>}
Joined(c) == c[1] \o c[2] \o c[3] \o c[4]
Corpora == {Joined(c) : c \in {d \in [1 .. 4 -> Characters] :
                                  d[1] \notin {<<0>>, <<5>>} /\ d[2] # <<5>>}}
           \cup {x \o s \o y \o u \o z : x, y, z \in Letters, s, u \in {<<0>>, <<1>>}}
HashOf(t) == (Len(t) + (IF t[1] = 5 THEN 1 ELSE 0)) % IngestSlots
Text == INSTANCE TextIngest WITH Slots <- IngestSlots, pc <- kpc, table <- terms,
                                    phase <- tphase

ASSUME PartsAssumption ==
    /\ WidthAssumption /\ GridAssumption /\ ProbeAssumption
    /\ Text!TextAssumption /\ Text!IngestAssumption

-----------------------------------------------------------------------------
GpuInit ==
    /\ Init /\ CacheInit
    /\ \/ part \in {"ring", "cache"} /\ StatsIdle /\ TextIdle /\ TopIdle
       \/ part = "stats" /\ StatsInit /\ TextIdle /\ TopIdle
       \/ part = "text" /\ Text!Init /\ StatsIdle /\ TopIdle
       \/ part = "top" /\ TopInit /\ StatsIdle /\ TextIdle

Others(p) ==
    /\ UNCHANGED part
    /\ p # "ring" => UNCHANGED vars
    /\ p # "cache" => UNCHANGED cacheVars
    /\ p # "stats" => UNCHANGED statsVars
    /\ p # "text" => UNCHANGED textVars
    /\ p # "top" => UNCHANGED topVars

GpuNext ==
    \/ part = "ring" /\ Next /\ Others("ring")
    \/ part = "cache" /\ CacheNext /\ Others("cache")
    \/ part = "stats" /\ StatsNext /\ Others("stats")
    \/ part = "text" /\ Text!Next /\ Others("text")
    \/ part = "top" /\ TopNext /\ Others("top")

(* A launched grid goes on, thread by thread. *)
GpuFairness ==
    /\ \A t \in Threads :
           WF_gpuVars(part = "stats" /\ Step(t) /\ Others("stats"))
    /\ WF_gpuVars(part = "text" /\ Text!Kernel /\ Others("text"))

GpuSpec == GpuInit /\ [][GpuNext]_gpuVars /\ GpuFairness

-----------------------------------------------------------------------------
(* The state of the part that runs is well typed (PinnedRing has its own). *)
TypesOK ==
    /\ CacheTypeOK
    /\ part = "stats" => StatsTypeOK
    /\ part = "text" => Text!TypeOK
    /\ part = "top" => TopTypeOK

(* The three builders of an inverted field agree, whatever the number of host
   threads, the slices of the text and the order of the device's threads. *)
IndexersAgree == part = "text" => Text!IngestEqualsCpu /\ Text!BuildersAgree

(* Both kernels end: their compare-and-swap loops and probes do. *)
KernelsEnd == /\ part = "stats" ~> part = "stats" /\ Finished
              /\ part = "text" ~> part = "text" /\ Text!KernelDone
=============================================================================
