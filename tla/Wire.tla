-------------------------------- MODULE Wire --------------------------------
(***************************************************************************)
(* The payload of a record: how session-rs writes an operation             *)
(* (encode.rs, write_payload) and reads one back (dispatch.rs,             *)
(* parse_payload).                                                         *)
(*                                                                         *)
(* A payload is a sequence of fields, each with its width and its bits; a  *)
(* string is a length and, unless it is empty, its bytes.  To read a field *)
(* of one width where another was written would be to read across fields   *)
(* ("Misframed").  Bits keep their width, with Size numbers to each.       *)
(* Strings and lists are short enough for the fields that hold their       *)
(* lengths.                                                                *)
(***************************************************************************)
EXTENDS Ternary, FiniteSetsExt, SequencesExt

CONSTANTS
  Size,         \* how many numbers a field of each width can hold
  Text,         \* texts
  Float,        \* floating-point numbers, by name
  Operation     \* the operations that are sent

ASSUME WireAssumption ==
  /\ DOMAIN Size = {"u8", "u16", "u32", "u64"}
  /\ \A w \in DOMAIN Size : Size[w] \in Nat \ {0}
  /\ Size["u8"] > 11
  /\ Size["u16"] > 1 /\ Size["u8"] <= Size["u64"]
  /\ \A s \in Text : Len(s) \in 0 .. Size["u16"] - 1 /\ (Len(s) = 0 <=> s = "")
  /\ "" \in Text /\ "quiet NaN" \in Float

VARIABLE sent           \* the operation that was sent, if any

-----------------------------------------------------------------------------
(* Writing *)

word(width, n) == [width |-> width, bits |-> n % Size[width]]
push(width, n) == <<word(width, n)>>
push_raw(width, bits) == <<[width |-> width, bits |-> bits]>>
push_uid(id) == push("u64", id)
push_uids(ids) == push("u32", Len(ids)) \o [i \in 1 .. Len(ids) |-> word("u64", ids[i])]
push_str(s) == push("u16", Len(s)) \o IF s = "" THEN <<>> ELSE push_raw("utf8", s)

\* i8 in two's complement.
t_to_wire == [Neg |-> Size["u8"] - 1, Zero |-> 0, Pos |-> 1]

\* Every NaN is written, and read, as the quiet one.
Canonical(f) == IF f = "signalling NaN" THEN "quiet NaN" ELSE f

\* The elements of a set of numbers in their order.
Sorted(S) ==
  CHOOSE s \in [1 .. Cardinality(S) -> S] : \A i, j \in 1 .. Cardinality(S) : i < j => s[i] < s[j]

\* A map in the order of its keys.
push_map(map, entry(_)) ==
  LET keys == Sorted(DOMAIN map)
  IN  push("u16", Cardinality(DOMAIN map))
        \o FlattenSeq([i \in 1 .. Cardinality(DOMAIN map) |-> entry(keys[i])])

push_val(val) ==
  CASE "bool" \in DOMAIN val    -> push("u8", 1) \o push("u8", IF val.bool THEN 1 ELSE 0)
    [] "int" \in DOMAIN val     -> push("u8", 2) \o push("u64", val.int)
    [] "float" \in DOMAIN val   -> push("u8", 3) \o push_raw("u64", Canonical(val.float))
    [] "text" \in DOMAIN val    -> push("u8", 4) \o push_str(val.text)
    [] "ternary" \in DOMAIN val -> push("u8", 6) \o push("u8", t_to_wire[val.ternary])

\* Keys stand for strings, in their order.
push_attr(key, val) == push("u16", 1) \o push_raw("utf8", key) \o push_val(val)
write_attr_map(attrs) == push_map(attrs, LAMBDA key : push_attr(key, attrs[key]))

rule_byte ==
  [Input |-> 0, Identity |-> 1, MvNeg |-> 2, MvAdd |-> 3, MvMul |-> 4, MvSub |-> 5,
   Merge |-> 6, MeetAll |-> 7, JoinAny |-> 8, BochvarFold |-> 9, PowerProduct |-> 10]
port_byte == [Signal |-> 0, Effort |-> 1, Flow |-> 2, Bond |-> 3]
zero_byte == [Conflict |-> 0, Incomplete |-> 1, Ambiguous |-> 2, Retracted |-> 3,
              BoundaryViolation |-> 4, VersionSkew |-> 5]
mode_byte == [Eager |-> 0, Lazy |-> 1, Stabilizing |-> 2]

write_local(dep) ==
  IF dep.port = <<>> THEN push("u8", 0) \o push("u8", 0) \o push_str("")
  ELSE push("u8", 0) \o push("u8", port_byte[Head(dep.port).kind])
         \o push_str(Head(dep.port).name)

\* payload_kind: definite, or a Zero of some kind.
push_kind(zero) ==
  IF zero = "None" THEN push("u8", 0) ELSE push("u8", 1) \o push("u8", zero_byte[zero])

push_entry(partition, clock) == push_uid(partition) \o push("u64", clock)
push_frontier(frontier) == push_map(frontier, LAMBDA p : push_entry(p, frontier[p]))

write_remote(dep) ==
  push("u8", 1) \o push("u8", port_byte[dep.port_kind]) \o push_str("")
    \o push_uid(dep.source_partition) \o push_uid(dep.source_uid)
    \o push("u64", dep.source_version) \o push_kind(dep.zero) \o push_frontier(dep.frontier)
    \o push_uid(dep.authority) \o push("u64", dep.class) \o push("u8", dep.capability)
    \o push("u64", dep.scope.bits)

write_extension(o) ==
  CASE o.op = "NodeCreate"  -> push_uid(o.node) \o push_str(o.typ)
                                 \o push("u8", rule_byte[o.rule]) \o write_attr_map(o.attrs)
    [] o.op = "EdgeConnect" -> push_uid(o.edge) \o push_uid(o.src) \o push_uid(o.tgt)
                                 \o IF o.dep.kind = "Local" THEN write_local(o.dep)
                                    ELSE write_remote(o.dep)
    [] o.op = "SetValue"    -> push_uid(o.node) \o push("u8", t_to_wire[o.val])
    [] o.op = "Subscribe"   -> push_uid(o.src) \o push_uid(o.sub)

\* All nodes, or those of a list.
write_stabilize(o) == IF o.all THEN push("u32", 0) ELSE push_uids(o.ids)

write_declaration(o) ==
  push_uid(o.partition)
    \o IF o.op = "PartitionCreate" THEN push_uid(o.root) ELSE <<>>
write_authority(o) ==
  CASE o.op \in {"PartitionCreate", "SetPartitionAuthority"} ->
         write_declaration(o) \o push("u64", o.class) \o push("u64", o.domain.bits)
    [] o.op = "PartitionBind" -> push_uid(o.node) \o push_uid(o.partition)
    [] o.op = "SetEdgeLabel"  ->
         push_uid(o.src) \o push_uid(o.tgt) \o push("u64", o.label.class)
           \o push("u8", o.label.capability) \o push("u64", o.label.scope.bits)

write_config(o) ==
  push_uid(o.node)
    \o push("u8", IF o.strategy.kind = "FullL3" THEN 0 ELSE o.strategy.mask)
    \o push("u8", [LocalOnly |-> 0, Federated |-> 1, Inherit |-> 2][o.domain])
    \o push("u32", o.max_iterations)
    \o push("u8", [Canonical |-> 0, Witness |-> 1, BudgetExhausted |-> 2][o.convergence])

write_policy(o) ==
  push_uid(o.node)
    \o push("u8", [Normal |-> 0, High |-> 1, Low |-> 2][o.priority])
    \o push("u8", [Fail |-> 0, Retry |-> 1][o.retry.kind])

\* Mutant: the tag is left out.
push_boundary_untagged(b) ==
  CASE b.how = "DepClosure"      -> push("u32", b.max_depth)
    [] b.how = "ExplicitSet"     -> push("u8", 1) \o push_uids(b.nodes)
    [] b.how = "PartitionScoped" -> push("u8", 2) \o push_uid(b.partition)

push_boundary(b) ==
  CASE b.how = "DepClosure"      -> push("u8", 0) \o push("u32", b.max_depth)
    [] b.how = "ExplicitSet"     -> push("u8", 1) \o push_uids(b.nodes)
    [] b.how = "PartitionScoped" -> push("u8", 2) \o push_uid(b.partition)

write_region(o) ==
  push_uid(o.root) \o push_boundary(o.boundary)
    \o push("u8", [Pinned |-> 0, EpochTracked |-> 1][o.stability])
    \o push("u8", [Eager |-> 0, Lazy |-> 1, Never |-> 2][o.compile])

write_payload(o) ==
  CASE o.op \in {"NodeCreate", "EdgeConnect", "SetValue", "Subscribe"} -> write_extension(o)
    [] o.op \in {"Propagate", "DelNode", "DelEdge", "Demand", "Reflect"} -> push_uid(o.node)
    [] o.op = "SetMode" -> push_uid(o.node) \o push("u8", mode_byte[o.mode])
    [] o.op = "Stabilize" -> write_stabilize(o)
    [] o.op = "SetStabilizationConfig" -> write_config(o)
    [] o.op = "SetExecutionPolicy" -> write_policy(o)
    [] o.op = "RegionDeclare" -> write_region(o)
    [] OTHER -> write_authority(o)

opcode_for ==
  [NodeCreate |-> 1, EdgeConnect |-> 2, SetValue |-> 3, Propagate |-> 4, Subscribe |-> 5,
   DelNode |-> 6, DelEdge |-> 7, Demand |-> 8, SetMode |-> 9, Reflect |-> 10,
   Stabilize |-> 11, PartitionCreate |-> 12, PartitionBind |-> 13,
   SetPartitionAuthority |-> 14, SetEdgeLabel |-> 15, SetStabilizationConfig |-> 16,
   SetExecutionPolicy |-> 17, RegionDeclare |-> 18]

-----------------------------------------------------------------------------
(* Reading *)

\* A Reader: what is left, what was read, and the error that ended it.
Reader(payload) == [rest |-> payload, got |-> <<>>, err |-> "None"]

fail(r, error) == IF r.err = "None" THEN [r EXCEPT !.err = error] ELSE r

\* What was read last, and x in the place of the last k things.
Read(r) == Last(r.got)
Made(r, k, x) ==
  IF r.err # "None" THEN r ELSE [r EXCEPT !.got = Append(SubSeq(@, 1, Len(@) - k), x)]

expect(r, ok, error) == IF r.err = "None" /\ ~ok THEN fail(r, error) ELSE r

read(r, width) ==
  IF r.err # "None" THEN r
  ELSE IF r.rest = <<>> THEN fail(r, "PayloadTruncated")
  ELSE IF Head(r.rest).width # width THEN fail(r, "Misframed")
  ELSE [r EXCEPT !.rest = Tail(@), !.got = Append(@, Head(r.rest).bits)]

read_str(r) ==
  LET n == read(r, "u16") IN
  IF n.err # "None" THEN n
  ELSE IF Read(n) = 0 THEN Made(n, 1, "")
  ELSE LET s == read(n, "utf8") IN Made(s, 2, Read(s))

\* Fields one after another.
read_all(r, widths) ==
  LET a[i \in 0 .. Len(widths)] == IF i = 0 THEN r ELSE read(a[i - 1], widths[i])
  IN  a[Len(widths)]

\* n times what a step reads.
read_many(r, n, step(_)) ==
  LET a[i \in 0 .. n] == IF i = 0 THEN r ELSE step(a[i - 1])
  IN  a[n]

\* A byte that stands for an entry of a table.
read_code(r, table, error) ==
  LET b == read(r, "u8")
      c == expect(b, Read(b) < Len(table), error)
  IN  Made(c, 1, table[Read(c) + 1])

\* A count of ids, and the ids.
read_uids(r) ==
  LET n == read(r, "u32") IN
  IF n.err # "None" THEN n
  ELSE LET ids == read_all(n, [i \in 1 .. Read(n) |-> "u64"])
       IN  Made(ids, Read(n) + 1, SubSeq(ids.got, Len(n.got) + 1, Len(ids.got)))

\* Pairs put into a map: a key that comes twice keeps the last.
MapOf(pairs) ==
  LET Of(k) == {i \in DOMAIN pairs : pairs[i][1] = k}
  IN  [k \in {pairs[i][1] : i \in DOMAIN pairs} |-> pairs[Max(Of(k))][2]]

\* A count of pairs, and the pairs.
read_map(r, step(_)) ==
  LET n == read(r, "u16") IN
  IF n.err # "None" THEN n
  ELSE LET all == read_many(n, Read(n), step)
       IN  Made(all, Read(n) + 1, MapOf(SubSeq(all.got, Len(n.got) + 1, Len(all.got))))

Signed(n) == IF 2 * n >= Size["u8"] THEN n - Size["u8"] ELSE n

wire_to_t(r) ==
  LET b == read(r, "u8")
      t == expect(b, Signed(Read(b)) \in -1 .. 1, "InvalidTernaryValue")
  IN  Made(t, 1, CHOOSE v \in T : Level[v] = Signed(Read(t)))

\* Tags that are never written give an error (Bytes) or an Int (Uid).
read_val(r) ==
  LET tag == read(r, "u8") IN
  IF tag.err # "None" THEN tag
  ELSE CASE Read(tag) = 1 -> LET v == read(tag, "u8") IN Made(v, 2, [bool |-> Read(v) # 0])
         [] Read(tag) \in {2, 7} -> LET v == read(tag, "u64") IN Made(v, 2, [int |-> Read(v)])
         [] Read(tag) = 3 -> LET v == read(tag, "u64")
                             IN Made(v, 2, [float |-> Canonical(Read(v))])
         [] Read(tag) = 4 -> LET v == read_str(tag) IN Made(v, 2, [text |-> Read(v)])
         [] Read(tag) = 6 -> LET v == wire_to_t(tag) IN Made(v, 2, [ternary |-> Read(v)])
         [] OTHER -> fail(tag, "UnsupportedAttrTag")

\* A pair of the last two things read.
Pair(r) == Made(r, 2, SubSeq(r.got, Len(r.got) - 1, Len(r.got)))

read_attr(r) == Pair(read_val(read_str(r)))

\* Mutant: attributes that are missing are none.
parse_attr_map_optional(r) ==
  IF r.err = "None" /\ r.rest = <<>> THEN Made(r, 0, [k \in {} |-> 0])
  ELSE read_map(r, read_attr)

parse_attr_map(r) == read_map(r, read_attr)

RuleOf == <<"Input", "Identity", "MvNeg", "MvAdd", "MvMul", "MvSub", "Merge", "MeetAll",
            "JoinAny", "BochvarFold", "PowerProduct">>
PortOf == <<"Signal", "Effort", "Flow", "Bond">>
ZeroOf == <<"Conflict", "Incomplete", "Ambiguous", "Retracted", "BoundaryViolation",
            "VersionSkew">>

\* An operation, unless the reader failed.
Parsed(r, o) == IF r.err = "None" THEN [err |-> "None", op |-> o] ELSE [err |-> r.err]

parse_node_create(r) ==
  LET c == parse_attr_map(read_code(read_str(read(r, "u64")), RuleOf, "UnknownNodeRule"))
  IN  Parsed(c, [op |-> "NodeCreate", node |-> c.got[1], typ |-> c.got[2],
                 rule |-> c.got[3], attrs |-> c.got[4]])

\* payload_kind, and the kind of a typed Zero.
read_kind(r) ==
  LET b == read(r, "u8")
      c == expect(b, Read(b) \in {0, 1}, "UnknownPayloadKind") IN
  IF c.err # "None" THEN c
  ELSE IF Read(c) = 0 THEN Made(c, 1, "None")
  ELSE LET z == read_code(c, ZeroOf, "UnknownZeroKind") IN Made(z, 2, Read(z))

read_entry(r) == Pair(read_all(r, <<"u64", "u64">>))
read_frontier(r) == read_map(r, read_entry)

\* The scope of another partition comes without its root.
parse_remote(r, port) ==
  LET kind == read_kind(read_all(r, <<"u64", "u64", "u64">>))
      past == read_frontier(kind)
      c    == read_all(past, <<"u64", "u64", "u8", "u64">>)
      at(i) == c.got[6 + i]
  IN  Made(c, 9, [kind |-> "Remote", port_kind |-> port, source_partition |-> at(1),
                  source_uid |-> at(2), source_version |-> at(3), zero |-> at(4),
                  frontier |-> at(5), authority |-> at(6), class |-> at(7),
                  capability |-> at(8), scope |-> [bits |-> at(9), root |-> 0]])

parse_edge_connect(r) ==
  LET e == read_str(read_all(r, <<"u64", "u64", "u64", "u8", "u8">>))
      p == expect(e, e.got[5] < Len(PortOf), "UnknownPortKind")
      k == expect(p, p.got[4] \in {0, 1}, "UnknownDepKind")
      port == PortOf[k.got[5] + 1]
      c == IF k.err # "None" THEN k
           ELSE IF k.got[4] = 1 THEN parse_remote(k, port)
           ELSE Made(k, 0, [kind |-> "Local",
                            port |-> IF k.got[6] = "" THEN <<>>
                                     ELSE <<[name |-> k.got[6], kind |-> port]>>])
  IN  Parsed(c, [op |-> "EdgeConnect", edge |-> c.got[1], src |-> c.got[2],
                 tgt |-> c.got[3], typ |-> "dep", dep |-> c.got[7]])

parse_stabilize(r) ==
  LET c == read_uids(r)
  IN  Parsed(c, [op |-> "Stabilize", all |-> Read(c) = <<>>, ids |-> Read(c)])

parse_partition_create(r) ==
  LET c == read_all(r, <<"u64", "u64", "u64", "u64">>)
  IN  Parsed(c, [op |-> "PartitionCreate", partition |-> c.got[1], root |-> c.got[2],
                 class |-> c.got[3], domain |-> [bits |-> c.got[4], root |-> c.got[1]]])

parse_set_partition_authority(r) ==
  LET c == read_all(r, <<"u64", "u64", "u64">>)
  IN  Parsed(c, [op |-> "SetPartitionAuthority", partition |-> c.got[1],
                 class |-> c.got[2], domain |-> [bits |-> c.got[3], root |-> 0]])

parse_set_edge_label(r) ==
  LET c == read_all(r, <<"u64", "u64", "u64", "u8", "u64">>)
  IN  Parsed(c, [op |-> "SetEdgeLabel", src |-> c.got[1], tgt |-> c.got[2],
                 label |-> [class |-> c.got[3], capability |-> c.got[4], mask |-> "wildcard",
                            scope |-> [bits |-> c.got[5], root |-> 0]]])

\* Mutant: the strategies are numbered from zero.
StrategyOf_shifted(b) ==
  IF b = 0 THEN [kind |-> "FullL3", mask |-> 0] ELSE [kind |-> "Restricted", mask |-> b - 1]

StrategyOf(b) ==
  IF b = 0 THEN [kind |-> "FullL3", mask |-> 0] ELSE [kind |-> "Restricted", mask |-> b]

parse_config(r) ==
  LET c == read_all(r, <<"u64", "u8", "u8", "u32", "u8">>)
  IN  Parsed(c, [op |-> "SetStabilizationConfig", node |-> c.got[1],
                 strategy |-> StrategyOf(c.got[2]), max_iterations |-> c.got[4],
                 domain |-> CASE c.got[3] = 0 -> "LocalOnly" [] c.got[3] = 1 -> "Federated"
                              [] OTHER -> "Inherit",
                 convergence |-> CASE c.got[5] = 0 -> "Canonical" [] c.got[5] = 1 -> "Witness"
                                   [] OTHER -> "BudgetExhausted"])

parse_policy(r) ==
  LET c == read_all(r, <<"u64", "u8", "u8">>)
  IN  Parsed(c, [op |-> "SetExecutionPolicy", node |-> c.got[1],
                 priority |-> CASE c.got[2] = 1 -> "High" [] c.got[2] = 2 -> "Low"
                                [] OTHER -> "Normal",
                 retry |-> IF c.got[3] = 1 THEN [kind |-> "Retry", attempts |-> 3]
                           ELSE [kind |-> "Fail", attempts |-> 0]])

read_boundary(r) ==
  LET tag == read(r, "u8") IN
  IF tag.err # "None" THEN tag
  ELSE CASE Read(tag) = 0 -> LET d == read(tag, "u32")
                             IN Made(d, 2, [how |-> "DepClosure", max_depth |-> Read(d)])
         [] Read(tag) = 1 -> LET d == read_uids(tag)
                             IN Made(d, 2, [how |-> "ExplicitSet", nodes |-> Read(d)])
         [] Read(tag) = 2 -> LET d == read(tag, "u64")
                             IN Made(d, 2, [how |-> "PartitionScoped", partition |-> Read(d)])
         [] OTHER -> fail(tag, "UnknownRegionBoundaryTag")

parse_region(r) ==
  LET b == read_boundary(read(r, "u64"))
      s == read_code(b, <<"Pinned", "EpochTracked">>, "UnknownStabilityContract")
      c == read_code(s, <<"Eager", "Lazy", "Never">>, "UnknownCompilePolicy")
  IN  Parsed(c, [op |-> "RegionDeclare", root |-> c.got[1], boundary |-> c.got[2],
                 stability |-> c.got[3], compile |-> c.got[4]])

\* The operations on two ids, on one, and on an id and something more.
parse_two(r, name, first, second) ==
  LET c == read_all(r, <<"u64", "u64">>)
  IN  Parsed(c, [f \in {"op", first, second} |->
                   IF f = "op" THEN name ELSE IF f = first THEN c.got[1] ELSE c.got[2]])

parse_node(r, name) ==
  LET c == read(r, "u64") IN Parsed(c, [op |-> name, node |-> c.got[1]])

parse_set_value(r) ==
  LET c == wire_to_t(read(r, "u64"))
  IN  Parsed(c, [op |-> "SetValue", node |-> c.got[1], val |-> c.got[2]])

parse_set_mode(r) ==
  LET c == read_code(read(r, "u64"), <<"Eager", "Lazy", "Stabilizing">>, "UnknownExecMode")
  IN  Parsed(c, [op |-> "SetMode", node |-> c.got[1], mode |-> c.got[2]])

parse_payload(opcode, payload) ==
  LET r == Reader(payload) IN
  CASE opcode = 1  -> parse_node_create(r)
    [] opcode = 2  -> parse_edge_connect(r)
    [] opcode = 3  -> parse_set_value(r)
    [] opcode = 4  -> parse_node(r, "Propagate")
    [] opcode = 5  -> parse_two(r, "Subscribe", "src", "sub")
    [] opcode = 6  -> parse_node(r, "DelNode")
    [] opcode = 7  -> parse_node(r, "DelEdge")
    [] opcode = 8  -> parse_node(r, "Demand")
    [] opcode = 9  -> parse_set_mode(r)
    [] opcode = 10 -> parse_node(r, "Reflect")
    [] opcode = 11 -> parse_stabilize(r)
    [] opcode = 12 -> parse_partition_create(r)
    [] opcode = 13 -> parse_two(r, "PartitionBind", "node", "partition")
    [] opcode = 14 -> parse_set_partition_authority(r)
    [] opcode = 15 -> parse_set_edge_label(r)
    [] opcode = 16 -> parse_config(r)
    [] opcode = 17 -> parse_policy(r)
    [] opcode = 18 -> parse_region(r)
    [] OTHER -> [err |-> "UnknownOpcode"]

-----------------------------------------------------------------------------
(* The operations there are, with the types of their fields *)

u64 == 0 .. Size["u64"] - 1
Scope == [bits : u64, root : Nat]

\* Lists and maps, like texts, are short enough for the fields of their lengths.
IsList(ids) == ids \in Seq(Nat) /\ Len(ids) < Size["u32"]
HasKeys(map) ==
  /\ DOMAIN map \subseteq Nat
  /\ IsFiniteSet(DOMAIN map) /\ Cardinality(DOMAIN map) < Size["u16"]

IsVal(val) ==
  val \in [bool : BOOLEAN] \cup [int : u64] \cup [float : Float] \cup [text : Text] \cup [ternary : T]

IsAttrs(attrs) ==
  /\ HasKeys(attrs) /\ attrs = [k \in DOMAIN attrs |-> attrs[k]]
  /\ \A k \in DOMAIN attrs : IsVal(attrs[k])

IsLocal(dep) ==
  /\ dep \in [kind : {"Local"}, port : Seq([name : Text, kind : DOMAIN port_byte])]
  /\ Len(dep.port) <= 1

IsRemote(dep) ==
  /\ dep.kind = "Remote"
  /\ dep = [kind |-> "Remote", port_kind |-> dep.port_kind,
            source_partition |-> dep.source_partition, source_uid |-> dep.source_uid,
            source_version |-> dep.source_version, zero |-> dep.zero,
            frontier |-> dep.frontier, authority |-> dep.authority, class |-> dep.class,
            capability |-> dep.capability, scope |-> dep.scope]
  /\ dep.port_kind \in DOMAIN port_byte /\ dep.zero \in {"None"} \cup DOMAIN zero_byte
  /\ {dep.source_partition, dep.source_uid, dep.authority} \subseteq Nat
  /\ {dep.source_version, dep.class, dep.capability} \subseteq u64 /\ dep.scope \in Scope
  /\ HasKeys(dep.frontier) /\ dep.frontier \in [DOMAIN dep.frontier -> u64]

IsBoundary(b) ==
  \/ b \in [how : {"DepClosure"}, max_depth : Nat]
           \cup [how : {"PartitionScoped"}, partition : Nat]
  \/ b \in [how : {"ExplicitSet"}, nodes : Seq(Nat)] /\ IsList(b.nodes)

IsOperation(o) ==
  \/ /\ o.op = "NodeCreate"
     /\ o = [op |-> "NodeCreate", node |-> o.node, typ |-> o.typ, rule |-> o.rule,
              attrs |-> o.attrs]
     /\ o.node \in Nat /\ o.typ \in Text /\ o.rule \in DOMAIN rule_byte /\ IsAttrs(o.attrs)
  \/ /\ o.op = "EdgeConnect"
     /\ o = [op |-> "EdgeConnect", edge |-> o.edge, src |-> o.src, tgt |-> o.tgt,
              typ |-> o.typ, dep |-> o.dep]
     /\ {o.edge, o.src, o.tgt} \subseteq Nat
     /\ IsLocal(o.dep) \/ IsRemote(o.dep)
  \/ o \in [op : {"Propagate", "DelNode", "DelEdge", "Demand", "Reflect"}, node : Nat]
  \/ o \in [op : {"SetValue"}, node : Nat, val : T]
  \/ o \in [op : {"SetMode"}, node : Nat, mode : DOMAIN mode_byte]
  \/ o \in [op : {"Subscribe"}, src : Nat, sub : Nat]
  \/ o \in [op : {"Stabilize"}, all : BOOLEAN, ids : Seq(Nat)] /\ IsList(o.ids)
  \/ o \in [op : {"PartitionBind"}, node : Nat, partition : Nat]
  \/ o \in [op : {"PartitionCreate"}, partition : Nat, root : Nat, class : u64, domain : Scope]
  \/ o \in [op : {"SetPartitionAuthority"}, partition : Nat, class : u64, domain : Scope]
  \/ o \in [op : {"SetEdgeLabel"}, src : Nat, tgt : Nat,
             label : [class : u64, capability : u64, scope : Scope,
                      mask : {"wildcard", "attribute_only", "structural", "boundary"}]]
  \/ o \in [op : {"SetStabilizationConfig"}, node : Nat,
             strategy : [kind : {"FullL3"}, mask : {0}] \cup [kind : {"Restricted"}, mask : Nat],
             domain : {"LocalOnly", "Federated", "Inherit"}, max_iterations : Nat,
             convergence : {"Canonical", "Witness", "BudgetExhausted"}]
  \/ o \in [op : {"SetExecutionPolicy"}, node : Nat, priority : {"Normal", "High", "Low"},
             retry : [kind : {"Fail"}, attempts : {0}] \cup [kind : {"Retry"}, attempts : Nat]]
  \/ /\ o.op = "RegionDeclare"
     /\ o = [op |-> "RegionDeclare", root |-> o.root, boundary |-> o.boundary,
              stability |-> o.stability, compile |-> o.compile]
     /\ o.root \in Nat /\ IsBoundary(o.boundary)
     /\ o.stability \in {"Pinned", "EpochTracked"} /\ o.compile \in {"Eager", "Lazy", "Never"}

ASSUME OperationAssumption == \A o \in Operation : IsOperation(o)

-----------------------------------------------------------------------------
\* An engine's peer writes an operation and its receiver reads it.
Received(o) == parse_payload(opcode_for[o.op], write_payload(o))

WireInit == sent = <<>>
WireNext == sent = <<>> /\ \E o \in Operation : sent' = <<o>>
WireSpec == WireInit /\ [][WireNext]_sent

\* What the format has no room for: wide ids and numbers, the projection of a
\* label, roots of scopes, the type of an edge, the attempts of a retry, a
\* port without a name, a list of no nodes to stabilize, a strategy without
\* rules, NaNs.
IdFields == {"node", "edge", "src", "tgt", "sub", "partition", "root",
             "source_partition", "source_uid", "authority"}
IdsOf(x) == {x[f] : f \in DOMAIN x \cap IdFields}
IdsIn(o) ==
  IdsOf(o)
    \cup (IF "dep" \in DOMAIN o THEN IdsOf(o.dep) ELSE {})
    \cup (IF "boundary" \in DOMAIN o THEN IdsOf(o.boundary) ELSE {})
    \cup (IF "ids" \in DOMAIN o THEN ToSet(o.ids) ELSE {})

Quiet(attrs) ==
  \A k \in DOMAIN attrs : "float" \in DOMAIN attrs[k] => attrs[k].float # "signalling NaN"

Narrow(x) == x.capability < Size["u8"] /\ x.scope.root = 0

Expressible(o) ==
  /\ \A id \in IdsIn(o) : id < Size["u64"]
  /\ CASE o.op = "NodeCreate"  -> Quiet(o.attrs)
       [] o.op = "EdgeConnect" ->
            /\ o.typ = "dep"
            /\ IF o.dep.kind = "Remote"
               THEN Narrow(o.dep) /\ \A p \in DOMAIN o.dep.frontier : p < Size["u64"]
               ELSE o.dep.port # <<>> => Head(o.dep.port).name # ""
       [] o.op = "Stabilize"             -> o.all <=> o.ids = <<>>
       [] o.op = "PartitionCreate"       -> o.domain.root = o.partition
       [] o.op = "SetPartitionAuthority" -> o.domain.root = 0
       [] o.op = "SetEdgeLabel"          -> Narrow(o.label) /\ o.label.mask = "wildcard"
       [] o.op = "SetStabilizationConfig" ->
            /\ o.strategy.kind = "Restricted" => o.strategy.mask \in 1 .. Size["u8"] - 1
            /\ o.max_iterations < Size["u32"]
       [] o.op = "SetExecutionPolicy" -> o.retry.kind = "Retry" => o.retry.attempts = 3
       [] o.op = "RegionDeclare" ->
            /\ o.boundary.how = "DepClosure" => o.boundary.max_depth < Size["u32"]
            /\ o.boundary.how = "ExplicitSet" =>
                 \A id \in ToSet(o.boundary.nodes) : id < Size["u64"]
       [] OTHER -> TRUE

\* An operation that the format has room for is received as it was sent
\* (encode.rs: "symmetric complement to dispatch::parse_payload").
RoundTrip ==
  [][\A o \in ToSet(sent') :
       Expressible(o) => Received(o) = [err |-> "None", op |-> o]]_sent

\* Any operation is received as one that the format has room for: what is lost
\* is lost at once, and a record that is passed on arrives everywhere as the
\* operation that its first receiver applied.
RelaysAgree ==
  [][\A o \in ToSet(sent') : LET first == Received(o) IN
       first.err = "None" /\ Received(first.op) = first]_sent

\* Payloads delimit themselves: one that is cut short at any field is refused
\* and never taken for another operation (dispatch.rs: "PayloadTruncated --
\* payload is too short for the declared opcode").
PrefixesRefused ==
  [][\A o \in ToSet(sent') : LET p == write_payload(o) IN
       \A k \in 0 .. Len(p) - 1 :
         parse_payload(opcode_for[o.op], SubSeq(p, 1, k)) = [err |-> "PayloadTruncated"]]_sent
=============================================================================
