---------------------------- MODULE IndexOptions ----------------------------
(***************************************************************************)
(* WITH options: what CREATE INDEX refuses, the quantizer and the core     *)
(* parameters they give, and what a core's constructor makes of those.     *)
(* Options are a function from names to typed values.  alpha and           *)
(* closure_factor are in hundredths.                                       *)
(***************************************************************************)
EXTENDS Quantizers

Classes == {"hnsw", "ivf", "spann", "diskann", "aisaq"}

Larger(a, b) == IF a >= b THEN a ELSE b
Smaller(a, b) == IF a <= b THEN a ELSE b
UInt16Max == 65535
(* The fields of both; where both have one, that of the first.             *)
Joined(f, g) == [key \in DOMAIN f \cup DOMAIN g |-> IF key \in DOMAIN f THEN f[key] ELSE g[key]]
Has(o, key) == key \in DOMAIN o
Option(o, key, default) == IF Has(o, key) THEN o[key].v ELSE default
InRange(o, key, lo, hi) == Has(o, key) => o[key].v \in lo..hi

-----------------------------------------------------------------------------
(* CreatePlan: the persistence gate, the keys, the types, the least values *)

PersistenceGate(vindexOn, hnswOn) == vindexOn \/ hnswOn     \* the database is on disk

(* What a plan asks of an option: a type and a value, or nothing.          *)
OneOf(words) == [types |-> {"varchar"}, values |-> words]
AtLeast(types, n) == [types |-> types, values |-> n .. 2^30]
Unchecked == [types |-> {}, values |-> {}]
Takes(rule, o) == rule = Unchecked \/ (o.t \in rule.types /\ o.v \in rule.values)
Int32 == {"integer"}
AnyInt == {"integer", "bigint"}
SomeInt == AtLeast(AnyInt, -(2^30))

CommonOptions ==
    [metric |-> OneOf(Metrics), quantizer |-> Unchecked, eta |-> Unchecked,
     bits |-> AtLeast(Int32, -(2^30)), rerank |-> AtLeast(Int32, 1)]
HnswOptions ==
    Joined(CommonOptions, [m |-> AtLeast(Int32, 2), m0 |-> AtLeast(Int32, 2),
                           ef_construction |-> AtLeast(Int32, 1), ef_search |-> AtLeast(Int32, 1)])
IvfOptions ==
    Joined(CommonOptions, [m |-> SomeInt, nlist |-> AtLeast(AnyInt, 2), nprobe |-> AtLeast(AnyInt, 1)])
SpannOptions ==
    Joined(IvfOptions, [replica_count |-> AtLeast(AnyInt, 1), closure_factor |-> Unchecked])
DiskannOptions ==
    Joined(CommonOptions, [m |-> SomeInt, diskann_r |-> SomeInt, diskann_l |-> SomeInt,
                           diskann_alpha |-> Unchecked])
AisaqInts == {"m", "aisaq_r", "aisaq_l", "aisaq_l_build", "aisaq_inline_pq", "aisaq_beam_width",
              "aisaq_io_limit", "aisaq_entry_points", "ram_budget_mb"}
AisaqOptions ==
    Joined(Joined(CommonOptions, [key \in AisaqInts |-> SomeInt]),
           [label_column |-> OneOf(STRING), aisaq_alpha |-> Unchecked,
            build_strategy |-> OneOf({"auto", "paged", "pq_buffer", "exact_prune"})])

OptionsFor(class) ==
    CASE class = "hnsw" -> HnswOptions [] class = "ivf" -> IvfOptions
      [] class = "spann" -> SpannOptions [] class = "diskann" -> DiskannOptions
      [] class = "aisaq" -> AisaqOptions
PlanAccepts(class, o) ==
    \A key \in DOMAIN o :
        key \in DOMAIN OptionsFor(class) /\ Takes(OptionsFor(class)[key], o[key])

(* One key, an array of floats; a label column of the table, a BIGINT.     *)
KeysAccepted(keys) == keys = <<"FLOAT[N]">>
LabelAccepted(columns, o) ==
    Has(o, "label_column") =>
        o["label_column"].v \in DOMAIN columns /\ columns[o["label_column"].v] = "BIGINT"

-----------------------------------------------------------------------------
(* CreateQuantizer.                                                        *)

IsInteger(o, key) == Has(o, key) => o[key].t = "integer"
SlotsAsked(o, dim) == Option(o, "m", IF dim >= 4 THEN dim \div 4 ELSE 1)
Slots(o, dim) == SlotsAsked(o, dim) % 2^ByteBits    \* static_cast<uint8_t>

PqAccepts(metric, dim, o) ==
    /\ IsInteger(o, "bits") /\ Option(o, "bits", ByteBits) \in {ByteBits \div 2, ByteBits}
    /\ IsInteger(o, "m") /\ InRange(o, "m", 1, 2^ByteBits - 1)
    /\ dim % SlotsAsked(o, dim) = 0
    /\ metric # "cosine" /\ Slots(o, dim) # 0
    /\ dim % Slots(o, dim) = 0

RabitqAccepts(o) == IsInteger(o, "bits") /\ Option(o, "bits", 3) \in SupportedBits
ScannAccepts(metric, dim, o) == PqAccepts(metric, dim, o) /\ Option(o, "eta", 4) > 0

Kind(o) == Option(o, "quantizer", "flat")
QuantizerAccepts(metric, dim, o) ==
    CASE Kind(o) = "flat" -> TRUE
      [] Kind(o) = "rabitq" -> RabitqAccepts(o)
      [] Kind(o) = "pq" -> PqAccepts(metric, dim, o)
      [] Kind(o) = "scann" -> ScannAccepts(metric, dim, o)
      [] OTHER -> FALSE

NewFlat(metric, dim) == [kind |-> "flat", metric |-> metric, dim |-> dim]
NewRabitq(metric, dim, o) ==
    [kind |-> "rabitq", metric |-> metric, dim |-> dim, bits |-> Option(o, "bits", 3),
     centroid |-> Zero(dim), normSq |-> 0, trained |-> FALSE]
NewPq(metric, dim, o) ==
    [kind |-> "pq", metric |-> metric, dim |-> dim, m |-> Slots(o, dim),
     bits |-> Option(o, "bits", ByteBits), book |-> <<>>, table |-> <<>>, trained |-> FALSE]
NewScann(metric, dim, o) ==
    [kind |-> "scann", metric |-> metric, dim |-> dim, m |-> Slots(o, dim),
     bits |-> Option(o, "bits", ByteBits), eta |-> Option(o, "eta", 4),
     book |-> <<>>, trained |-> FALSE]
CreateQuantizer(metric, dim, o) ==
    CASE Kind(o) = "flat" -> NewFlat(metric, dim)
      [] Kind(o) = "rabitq" -> NewRabitq(metric, dim, o)
      [] Kind(o) = "pq" -> NewPq(metric, dim, o)
      [] Kind(o) = "scann" -> NewScann(metric, dim, o)

-----------------------------------------------------------------------------
(* ParseMetric, ParseRerankMultiple, ParseCoreParams.                      *)

ParseMetric(o) == Option(o, "metric", "l2sq")
ParseRerankMultiple(o) == Option(o, "rerank", 1)

HnswAccepts(o) == \A key \in {"m", "m0", "ef_construction", "ef_search"} : InRange(o, key, 1, UInt16Max)
HnswParams(o) ==
    [m |-> Option(o, "m", 16),
     m0 |-> Option(o, "m0", Smaller(2 * Option(o, "m", 16), UInt16Max)),
     efc |-> Option(o, "ef_construction", 100), efs |-> Option(o, "ef_search", 64)]

IvfParams(o) ==
    [nlist |-> Option(o, "nlist", 1024),
     nprobe |-> Smaller(Option(o, "nprobe", 16), Option(o, "nlist", 1024))]

SpannAccepts(o) == Option(o, "closure_factor", 110) >= 100
SpannParams(o) ==
    [nlist |-> Option(o, "nlist", 1024),
     nprobe |-> Smaller(Option(o, "nprobe", 16), Option(o, "nlist", 1024)),
     replicas |-> Smaller(Option(o, "replica_count", 8), Option(o, "nlist", 1024)),
     closure |-> Option(o, "closure_factor", 110)]

DiskannAccepts(o) ==
    /\ InRange(o, "diskann_r", 4, 256) /\ InRange(o, "diskann_l", 4, 1024)
    /\ InRange(o, "diskann_alpha", 100, 200)
DiskannParams(o) ==
    LET r == Option(o, "diskann_r", 64)
    IN  [R |-> r, L |-> Larger(r, Option(o, "diskann_l", 100)), alpha |-> Option(o, "diskann_alpha", 120)]

AisaqAccepts(o) ==
    /\ InRange(o, "aisaq_r", 4, 256) /\ InRange(o, "aisaq_l", 4, 1024)
    /\ Option(o, "aisaq_l_build", 0) \in {0} \cup 4..1024
    /\ InRange(o, "aisaq_alpha", 100, 200)
    /\ InRange(o, "aisaq_inline_pq", 0, Option(o, "aisaq_r", 64))
    /\ InRange(o, "aisaq_entry_points", 1, 64)
AisaqParams(o) ==
    LET r == Option(o, "aisaq_r", 64)
    IN  [R |-> r, L |-> Larger(r, Option(o, "aisaq_l", 100)), lBuild |-> Option(o, "aisaq_l_build", 0),
         alpha |-> Option(o, "aisaq_alpha", 120), inlinePq |-> Option(o, "aisaq_inline_pq", 0),
         beam |-> Option(o, "aisaq_beam_width", 8) % 2^16,     \* uint16_t, unchecked
         entries |-> Option(o, "aisaq_entry_points", 16)]

ParamsAccepted(class, o) ==
    CASE class = "hnsw" -> HnswAccepts(o)
      [] class = "ivf" -> TRUE
      [] class = "spann" -> SpannAccepts(o)
      [] class = "diskann" -> DiskannAccepts(o)
      [] class = "aisaq" -> AisaqAccepts(o)
ParseCoreParams(class, o) ==
    CASE class = "hnsw" -> HnswParams(o)
      [] class = "ivf" -> IvfParams(o)
      [] class = "spann" -> SpannParams(o)
      [] class = "diskann" -> DiskannParams(o)
      [] class = "aisaq" -> AisaqParams(o)

(* DiskANN takes no FLAT, AiSAQ neither FLAT nor RaBitQ, which has no LUT. *)
RefusedKinds(class) == CASE class = "diskann" -> {"flat"}
                         [] class = "aisaq" -> {"flat", "rabitq"}
                         [] OTHER -> {}

InitAccepts(class, dim, o) ==
    /\ ParamsAccepted(class, o)
    /\ QuantizerAccepts(ParseMetric(o), dim, o)
    /\ Kind(o) \notin RefusedKinds(class)
=============================================================================
