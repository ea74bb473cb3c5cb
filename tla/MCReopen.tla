------------------------------ MODULE MCReopen ------------------------------
(* Reopen on vectors of four components and bytes of four bits.            *)
EXTENDS Reopen

Whole32(v) == [t |-> "integer", v |-> v]
Whole64(v) == [t |-> "bigint", v |-> v]
Text(v) == [t |-> "varchar", v |-> v]
Decimal(v) == [t |-> "decimal", v |-> v]

Quarter(v) == <<-v[2], v[1], v[4], -v[3]>>      \* a rotation

QuantizerOptions ==
    {[key \in {} |-> key],
     [quantizer |-> Text("rabitq")],
     [quantizer |-> Text("rabitq"), bits |-> Whole32(1)],
     [quantizer |-> Text("pq")],
     [quantizer |-> Text("pq"), m |-> Whole32(2), bits |-> Whole32(2)],
     [quantizer |-> Text("pq"), m |-> Whole32(3)],
     [quantizer |-> Text("scann"), m |-> Whole32(2), bits |-> Whole32(2), eta |-> Whole32(2)],
     [quantizer |-> Text("lvq")]}
MetricOptions == {[key \in {} |-> key], [metric |-> Text("cosine")], [metric |-> Text("ip")]}
ExtraOptions ==
    {[key \in {} |-> key],
     [rerank |-> Whole32(5)], [rerank |-> Whole32(0)],
     [ef_construction |-> Whole32(8)], [ef_search |-> Whole32(7), m0 |-> Whole32(9)],
     [nlist |-> Whole64(8), nprobe |-> Whole64(9)],
     [nlist |-> Whole32(4), replica_count |-> Whole64(9), closure_factor |-> Decimal(150)],
     [diskann_r |-> Whole32(128), diskann_alpha |-> Decimal(100)], [diskann_r |-> Whole32(3)],
     [aisaq_r |-> Whole64(128), aisaq_l_build |-> Whole32(4), aisaq_inline_pq |-> Whole32(2)],
     [aisaq_beam_width |-> Whole64(65537), label_column |-> Text("tag")],
     [label_column |-> Text("name")]}

SomeCreations ==
    [class : Classes, keys : {<<"FLOAT[N]">>},
     options : {Joined(q, Joined(m, e)) : q \in QuantizerOptions, m \in MetricOptions, e \in ExtraOptions}]
SomeColumns == [tag |-> "BIGINT", name |-> "VARCHAR"]
SomeVectors == {<<2, 0, 0, 0>>, <<0, 0, -3, 0>>}
=============================================================================
