------------------------------- MODULE Reopen -------------------------------
(***************************************************************************)
(* The life of an index from CREATE INDEX with its options to the index a  *)
(* restart opens: the options make a facade, a quantizer and a core, the   *)
(* rows train and fill them, a checkpoint or the log writes the state      *)
(* stream, and the constructor makes a new facade, quantizer and core from *)
(* the options it is given before it reads the stream into them.           *)
(*                                                                         *)
(* DuckDB 1.5 may hand the constructor no options (the comment in          *)
(* aisaq_index.cpp, RegisterIndex), so a restart keeps them or not.        *)
(***************************************************************************)
EXTENDS IndexOptions

CONSTANTS Creations,   \* [class, keys, options] CREATE INDEX is tried with
          Columns,     \* the table's other columns and their types
          Dim, Vectors,
          MaxRows      \* bound: rows of the table

ASSUME ReopenAssumption ==
    /\ Dim \in Nat \ {0} /\ MaxRows \in Nat /\ MaxRows < 2^(ByteBits \div 2)
    /\ \A v \in Vectors : v \in [1..Dim -> Int]
    /\ \A c \in Creations : c.class \in Classes

(* What the quantizers' arithmetic asks for: under the cosine metric the   *)
(* vectors lie on an axis, and ScaNN's eta is a whole number.              *)
OnAxis(n, v) == \E k \in 1..n : \A i \in 1..n : i # k => v[i] = 0
ASSUME AxisVectors ==
    \A c \in Creations : ParseMetric(c.options) = "cosine" => \A v \in Vectors : OnAxis(Dim, v)
ASSUME WholeEta == \A c \in Creations : Option(c.options, "eta", 4) \in Int

VARIABLES index,    \* the bound index
          catalog,  \* CREATE INDEX's class and options
          vecs,     \* the vectors of the rows, in order of their row ids
          gone,     \* the rows deleted since CREATE INDEX
          file,     \* what the last checkpoint wrote, and the table it found
          built,    \* the index as the last checkpoint found it
          given     \* did every restart so far keep the options?

vars == <<index, catalog, vecs, gone, file, built, given>>

None == [status |-> "none"]
Refused == [status |-> "refused"]
Crashed == [status |-> "crashed"]
IsOpen == index.status = "open"
NoOptions == [key \in {} |-> key]

Init ==
    /\ index = None /\ catalog = None /\ vecs = <<>> /\ gone = {}
    /\ file = None /\ built = None /\ given = TRUE

-----------------------------------------------------------------------------
(* The cores as their constructors make them.  A core keeps the codes of   *)
(* its entries in the order of their insertion - HNSW's and AiSAQ's lie in *)
(* the blocks of the store - and IVF and SPANN their centroids, for which  *)
(* the rows they were trained on stand here.                               *)

Core(params, q) == [params |-> params, dim |-> Dim, codeSize |-> CodeSize(q), codes |-> <<>>]
HnswCore(p, q) == Core([p EXCEPT !.efc = Larger(@, p.m)], q)
CellCore(p, q) == Joined([centroids |-> <<>>], Core(p, q))
IvfCore(p, q) == CellCore([p EXCEPT !.nprobe = Smaller(@, p.nlist)], q)
SpannCore(p, q) == CellCore([p EXCEPT !.nprobe = Smaller(@, p.nlist),
                                      !.replicas = Smaller(@, p.nlist),
                                      !.closure = Larger(@, 100)], q)
DiskannCore(p, q) == Core(p, q)
AisaqCore(p, q) == Core([p EXCEPT !.L = Larger(@, p.R), !.alpha = Larger(@, 100)], q)

(* The facades' constructors, before they look for a stream.               *)
Facade(class, o, params, q, core) ==
    [status |-> "open", class |-> class, metric |-> ParseMetric(o), params |-> params,
     rerank |-> ParseRerankMultiple(o), quantizer |-> q, core |-> core,
     rows |-> {}, tombstones |-> {}]
HnswIndex(o, q) == Facade("hnsw", o, HnswParams(o), q, HnswCore(HnswParams(o), q))
IvfIndex(o, q) == Facade("ivf", o, IvfParams(o), q, IvfCore(IvfParams(o), q))
SpannIndex(o, q) == Facade("spann", o, SpannParams(o), q, SpannCore(SpannParams(o), q))
DiskannIndex(o, q) == Facade("diskann", o, DiskannParams(o), q, DiskannCore(DiskannParams(o), q))
AisaqIndex(o, q) == Facade("aisaq", o, AisaqParams(o), q, AisaqCore(AisaqParams(o), q))

InitFromOptions(class, o) ==
    LET q == CreateQuantizer(ParseMetric(o), Dim, o)
    IN  CASE class = "hnsw" -> HnswIndex(o, q) [] class = "ivf" -> IvfIndex(o, q)
          [] class = "spann" -> SpannIndex(o, q) [] class = "diskann" -> DiskannIndex(o, q)
          [] class = "aisaq" -> AisaqIndex(o, q)

-----------------------------------------------------------------------------
(* CREATE INDEX and the changes after it.                                  *)

TrainCentroids(core, samples) ==
    IF "centroids" \in DOMAIN core THEN [core EXCEPT !.centroids = samples] ELSE core
Constructed(ix, rows) ==
    [ix EXCEPT !.core.codes = @ \o [r \in 1..Len(rows) |-> Encode(ix.quantizer, rows[r])],
               !.rows = @ \cup (Len(ix.core.codes) + 1) .. (Len(ix.core.codes) + Len(rows))]

(* The plan's checks, the constructor, TrainQuantizer and TrainCentroids   *)
(* on the rows there are - on none, ScaNN takes the process down - and the *)
(* build.                                                                  *)
Create ==
    /\ catalog = None /\ index = None
    /\ \E c \in Creations, vindexOn, hnswOn \in BOOLEAN :
         /\ PersistenceGate(vindexOn, hnswOn)
         /\ PlanAccepts(c.class, c.options)
         /\ KeysAccepted(c.keys) /\ (c.class = "aisaq" => LabelAccepted(Columns, c.options))
         /\ InitAccepts(c.class, Dim, c.options)
         /\ LET fresh == InitFromOptions(c.class, c.options)
            IN  IF TrainSurvives(fresh.quantizer, vecs)
                THEN /\ catalog' = [status |-> "created", class |-> c.class, options |-> c.options]
                     /\ index' = Constructed([fresh EXCEPT !.quantizer = Train(@, vecs),
                                                           !.core = TrainCentroids(@, vecs)], vecs)
                ELSE index' = Crashed /\ UNCHANGED catalog
    /\ UNCHANGED <<vecs, gone, file, built, given>>

(* DuckDB opened again after that: CREATE INDEX was never committed.       *)
Recover ==
    /\ index = Crashed
    /\ index' = None
    /\ UNCHANGED <<catalog, vecs, gone, file, built, given>>

(* A row before the index, or a live insert into it.                       *)
Insert(v) ==
    /\ Len(vecs) < MaxRows /\ (index = None \/ IsOpen)
    /\ vecs' = Append(vecs, v)
    /\ index' = IF IsOpen THEN Constructed(index, <<v>>) ELSE index
    /\ UNCHANGED <<catalog, gone, file, built, given>>

Delete(r) ==
    /\ IsOpen /\ r \notin gone
    /\ gone' = gone \cup {r}
    /\ index' = IF r \in index.rows THEN [index EXCEPT !.tombstones = @ \cup {r}] ELSE index
    /\ UNCHANGED <<catalog, vecs, file, built, given>>

-----------------------------------------------------------------------------
(* What the cores' SerializeState writes, and their DeserializeState takes *)
(* or refuses.  HNSW checks its parameters, IVF and SPANN take those that  *)
(* shape the posting lists, DiskANN and AiSAQ all.                         *)

HnswState(c) == [params |-> c.params, dim |-> c.dim, codes |-> c.codes]
HnswRestored(c, b) ==
    IF b.dim # c.dim \/ b.params # c.params THEN Refused ELSE [c EXCEPT !.codes = b.codes]

IvfState(c) == [nlist |-> c.params.nlist, dim |-> c.dim, centroids |-> c.centroids, codes |-> c.codes]
IvfRestored(c, b) ==
    IF b.dim # c.dim THEN Refused
    ELSE [c EXCEPT !.params.nlist = b.nlist,
                   !.params.nprobe = IF b.nlist # c.params.nlist THEN Smaller(@, b.nlist) ELSE @,
                   !.centroids = b.centroids, !.codes = b.codes]

SpannState(c) == Joined([replicas |-> c.params.replicas, closure |-> c.params.closure], IvfState(c))
SpannRestored(c, b) ==
    IF b.dim # c.dim THEN Refused
    ELSE [IvfRestored(c, b) EXCEPT !.params.replicas = Smaller(b.replicas, b.nlist),
                                   !.params.closure = Larger(b.closure, 100)]

DiskannState(c) == [dim |-> c.dim, params |-> c.params, codeSize |-> c.codeSize, codes |-> c.codes]
DiskannRestored(c, b) ==
    IF b.dim # c.dim \/ b.codeSize # c.codeSize THEN Refused
    ELSE [c EXCEPT !.params = b.params, !.codes = b.codes]

AisaqState(c) ==
    [dim |-> c.dim, codeSize |-> c.codeSize, codes |-> c.codes,
     params |-> [key \in DOMAIN c.params \ {"lBuild"} |-> c.params[key]]]
AisaqRestored(c, b) ==
    IF b.dim # c.dim THEN Refused
    ELSE [c EXCEPT !.params = Joined(b.params, @),
                   !.codeSize = b.codeSize, !.codes = b.codes]

-----------------------------------------------------------------------------
(* The facades' WriteStateStream and ReadStateStream.                      *)

Stream(magic, ix, state) ==
    [magic |-> magic, rerank |-> ix.rerank, quantizer |-> Serialize(ix.quantizer),
     core |-> state, rows |-> ix.rows, tombstones |-> ix.tombstones]
HnswStream(ix) == Stream("VNDXHNW2", ix, HnswState(ix.core))
IvfStream(ix) == Stream("VNDXIVF1", ix, IvfState(ix.core))
SpannStream(ix) == Stream("VNDXSPN2", ix, SpannState(ix.core))
DiskannStream(ix) == Stream("VISNDDDV2", ix, DiskannState(ix.core))
AisaqStream(ix) == Stream("SQAIDAIS1", ix, AisaqState(ix.core))

WriteStateStream(ix) ==
    CASE ix.class = "hnsw" -> HnswStream(ix) [] ix.class = "ivf" -> IvfStream(ix)
      [] ix.class = "spann" -> SpannStream(ix) [] ix.class = "diskann" -> DiskannStream(ix)
      [] ix.class = "aisaq" -> AisaqStream(ix)

(* Read in order: what refuses first ends the constructor.                 *)
Taken(ix, s, core) ==
    IF core = Refused THEN Refused
    ELSE [ix EXCEPT !.rerank = Larger(1, s.rerank), !.core = core,
                    !.quantizer = Deserialize(ix.quantizer, s.quantizer),
                    !.rows = s.rows, !.tombstones = s.tombstones]
Readable(ix, s, magic) == s.magic = magic /\ CanDeserialize(ix.quantizer, s.quantizer)
HnswRead(ix, s) ==
    IF Readable(ix, s, "VNDXHNW2") THEN Taken(ix, s, HnswRestored(ix.core, s.core)) ELSE Refused
IvfRead(ix, s) ==
    IF Readable(ix, s, "VNDXIVF1") THEN Taken(ix, s, IvfRestored(ix.core, s.core)) ELSE Refused
SpannRead(ix, s) ==
    IF Readable(ix, s, "VNDXSPN2") THEN Taken(ix, s, SpannRestored(ix.core, s.core)) ELSE Refused
DiskannRead(ix, s) ==
    IF Readable(ix, s, "VISNDDDV2") THEN Taken(ix, s, DiskannRestored(ix.core, s.core)) ELSE Refused
AisaqRead(ix, s) ==
    IF Readable(ix, s, "SQAIDAIS1") THEN Taken(ix, s, AisaqRestored(ix.core, s.core)) ELSE Refused

ReadStateStream(ix, s) ==
    CASE ix.class = "hnsw" -> HnswRead(ix, s) [] ix.class = "ivf" -> IvfRead(ix, s)
      [] ix.class = "spann" -> SpannRead(ix, s) [] ix.class = "diskann" -> DiskannRead(ix, s)
      [] ix.class = "aisaq" -> AisaqRead(ix, s)

(* SerializeToDisk and SerializeToWAL: only AiSAQ stores the options.      *)
Persist ==
    /\ IsOpen
    /\ file' = [status |-> "written", stream |-> WriteStateStream(index),
                options |-> IF catalog.class = "aisaq" THEN catalog.options ELSE NoOptions,
                vecs |-> vecs, gone |-> gone]
    /\ built' = index
    /\ UNCHANGED <<index, catalog, vecs, gone, given>>

(* create_instance: AiSAQ falls back on the options it stored.             *)
OptionsOf_Catalog(class, kept) == IF kept THEN catalog.options ELSE NoOptions
OptionsOf(class, kept) ==
    LET input == IF kept THEN catalog.options ELSE NoOptions
    IN  IF class = "aisaq" /\ input = NoOptions THEN file.options ELSE input

(* The table is that of the checkpoint again; what came after it is        *)
(* replayed from the log by inserts and deletes.                           *)
Restart(kept) ==
    /\ file # None
    /\ given' = (given /\ kept)
    /\ LET o == OptionsOf(catalog.class, kept)
       IN  index' = IF InitAccepts(catalog.class, Dim, o)
                    THEN ReadStateStream(InitFromOptions(catalog.class, o), file.stream) ELSE Refused
    /\ vecs' = file.vecs /\ gone' = file.gone
    /\ UNCHANGED <<catalog, file, built>>

Next ==
    \/ Create \/ Recover \/ Persist
    \/ \E v \in Vectors : Insert(v)
    \/ \E r \in 1..Len(vecs) : Delete(r)
    \/ \E kept \in BOOLEAN : Restart(kept)
Spec == Init /\ [][Next]_vars

-----------------------------------------------------------------------------
Faithful == given \/ catalog.class = "aisaq"

\* When restarts are given the options of CREATE INDEX, or find those AiSAQ
\* stored, a restart opens the index (no option CREATE INDEX accepts makes a core
\* refuse its own stream) and it is the index that was written - the facade,
\* the quantizer with its trained tables, the core's parameters and centroids -
\* with the changes since: it knows every row of the table, and no deleted one.
Settings(ix) == [ix EXCEPT !.core.codes = <<>>, !.rows = {}, !.tombstones = {}]
ReopensAsWritten ==
    file # None /\ Faithful =>
        /\ index # Refused
        /\ Settings(index) = Settings(built)
        /\ index.rows = 1..Len(vecs) /\ index.tombstones = gone

\* Whatever options a restart is given, an index that opens reads its codes
\* with the quantizer that wrote them: the core cuts codes of the quantizer's
\* size, every row keeps its distance to every query and to every other row,
\* and that distance is the one the row's vector would be coded to now.
CodesAreRead ==
    IsOpen =>
        LET q == index.quantizer
            codes == index.core.codes
        IN  /\ index.core.codeSize = CodeSize(q)
            /\ q.kind # "flat" => q.trained
            /\ Len(codes) = Len(vecs)
            /\ \A r \in 1..Len(vecs) : codes[r] = Encode(q, vecs[r])
            /\ built # None =>
                 \A v \in Vectors : \A r \in 1..Smaller(Len(built.core.codes), Len(codes)) :
                    EstimateDistance(q, codes[r], PreprocessQuery(q, v)) =
                    EstimateDistance(built.quantizer, built.core.codes[r],
                                     PreprocessQuery(built.quantizer, v))

\* Graphs are linked by CodeDistance and searched by EstimateDistance.  For
\* FLAT, PQ and ScaNN the distance of two codes is the estimate of one for the
\* vector the other stands for - for PQ under "ip" only where no slot of the
\* two shares a centroid.  RaBitQ's code is within half a step of the rotated
\* residual in every component.
SharesCentroid(q, a, b) == \E s \in 1..q.m : ReadCode(q, a, s) = ReadCode(q, b, s)
StandsFor(q, code) == IF q.kind = "flat" THEN code ELSE Decode(q, code)
SameFraction(f, g) == f[1] * g[2] = g[1] * f[2]
DistancesAgree ==
    IsOpen =>
        LET q == index.quantizer
        IN  \A r, s \in 1..Len(vecs) :
              LET a == index.core.codes[r]
                  b == index.core.codes[s]
              IN  IF q.kind = "rabitq"
                  THEN q.bits > 1 =>
                       \A i \in 1..Dim : 2 * Abs(Residual(q, vecs[r])[i] * a.scale[2]
                                                 - a.scale[1] * LevelOf(q, a, i)) <= a.scale[1]
                  ELSE (q.kind = "pq" /\ q.metric = "ip" => ~SharesCentroid(q, a, b)) =>
                       SameFraction(CodeDistance(q, a, b),
                                    EstimateDistance(q, a, PreprocessQuery(q, StandsFor(q, b))))
=============================================================================
