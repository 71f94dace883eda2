----------------------------- MODULE ConfigParse -----------------------------
(***************************************************************************)
(* The parser of configuration descriptors (main/xesp_usbh_parse.c) as     *)
(* operators, and what a configuration descriptor means.                   *)
(*                                                                         *)
(* A device has its descriptors in a sequence d, the configuration         *)
(* descriptor first: of each the type, the length, and num (bNumInterfaces *)
(* or bInterfaceNumber) and neps (bNumEndpoints) where it has them.  The   *)
(* parser sees n bytes of them.  Its offsets are always the beginning of a *)
(* descriptor, so the bytes themselves are only read as descriptors.       *)
(***************************************************************************)
EXTENDS Naturals, Sequences, FiniteSetsExt, SequencesExt

CONSTANT
    Garbage     \* what the byte behind the received ones may be

\* The n-th of a set of numbers.
Nth(S, n) == CHOOSE k \in S : Cardinality({i \in S : i <= k}) = n

Descriptors == [type : Nat, len : Nat, num : Nat, neps : Nat]

CONFIG == 2
INTERFACE == 4
ENDPOINT == 5
CS_INTERFACE == 36
CS_ENDPOINT == 37

ConfigSize == 9         \* sizeof(usb_desc_cfg_t)
InterfaceSize == 9      \* sizeof(usb_desc_intf_t)
EndpointSize == 7       \* sizeof(usb_desc_ep_t)

-----------------------------------------------------------------------------
(* The memory pool *)

POOL_PTRS_PER_NODE == 10

\* The nodes that can be reached from the head, with the number of pointers in each;
\* the node that end points to; and the blocks allocated for it.
MallocPoolCreate == [nodes |-> <<0>>, end |-> 1, blocks |-> 2]

\* mutant: pool->end stays at the node that is full
MallocPoolEndKept(q) ==
    IF q.nodes[q.end] = POOL_PTRS_PER_NODE
    THEN [nodes |-> SubSeq(q.nodes, 1, q.end) \o <<1>>, end |-> q.end,
          blocks |-> q.blocks + 2]
    ELSE [q EXCEPT !.nodes[q.end] = @ + 1, !.blocks = @ + 1]

MallocPool(q) ==
    IF q.nodes[q.end] = POOL_PTRS_PER_NODE
    THEN [nodes |-> SubSeq(q.nodes, 1, q.end) \o <<1>>, end |-> q.end + 1,
          blocks |-> q.blocks + 2]
    ELSE [q EXCEPT !.nodes[q.end] = @ + 1, !.blocks = @ + 1]

\* n allocations.
MallocPoolN(q, n) == LET f[k \in 0 .. n] == IF k = 0 THEN q ELSE MallocPool(f[k - 1])
                     IN  f[n]

\* The blocks that malloc_pool_free_all_ptrs frees: those of each node, the nodes, the pool.
Freed(q) == LET f[k \in 0 .. Len(q.nodes)] == IF k = 0 THEN 1 ELSE f[k - 1] + q.nodes[k] + 1
            IN  f[Len(q.nodes)]

-----------------------------------------------------------------------------
(* The buffer *)

\* Where descriptor k begins: behind the k - 1 before it.
StartOf(d, k) == LET f[i \in 0 .. Len(d)] == IF i = 0 THEN 0 ELSE f[i - 1] + d[i].len
                 IN  f[k - 1]
TotalLength(d) == StartOf(d, Len(d) + 1)

\* n bytes of d were received; next is the byte behind them.  A loop over the bytes passes
\* a descriptor at least in each turn, so that it is left after as many turns as there are.
Buffer(d, n, next) ==
    [at |-> [o \in {StartOf(d, k) : k \in DOMAIN d} |->
                d[CHOOSE k \in DOMAIN d : StartOf(d, k) = o]],
     n |-> n, next |-> next, turns |-> Len(d)]

\* The two bytes of a header.  Of the last descriptor only the length may have come.
LengthAt(b, o) == b.at[o].len
TypeAt(b, o) == IF o + 1 < b.n THEN b.at[o].type ELSE b.next
Left(b, o) == b.n - o

\* The offset behind the descriptors of type t that begin at o.
SkipTurn(b, t, o) == IF o < b.n /\ TypeAt(b, o) = t THEN o + LengthAt(b, o) ELSE o

SkipAll(b, t, o) ==
    LET f[k \in 0 .. b.turns] == IF k = 0 THEN o ELSE SkipTurn(b, t, f[k - 1])
    IN  f[b.turns]

-----------------------------------------------------------------------------
(* The parser.  A state s of it has the offset, the pool, the interfaces found *)
(* so far (of the one being parsed: its endpoints), and whether it goes on.    *)

Fail(s) == [s EXCEPT !.ok = FALSE]

\* The offset behind the descriptor at o and the ones of type t that follow it, and the
\* descriptor with the length of those.
Behind(b, o, t) == SkipAll(b, t, o + LengthAt(b, o))

\* mutant: the length of the descriptor itself is counted
ItemOwnLength(b, o, t) == [at |-> o, extras |-> Behind(b, o, t) - o]
Item(b, o, t) == [at |-> o, extras |-> Behind(b, o, t) - (o + LengthAt(b, o))]

\* mutant: the length that is left is not checked
ParseEndpointCut(b, s) ==
    IF TypeAt(b, s.off) # ENDPOINT THEN Fail(s)
    ELSE LET e == Item(b, s.off, CS_ENDPOINT)
         IN  [s EXCEPT !.off = Behind(b, @, CS_ENDPOINT), !.found = Append(@, e),
                       !.pool = MallocPoolN(@, IF e.extras > 0 THEN 2 ELSE 1)]

\* xesp_usbh_parse_endpoint.
ParseEndpoint(b, s) ==
    IF Left(b, s.off) < EndpointSize \/ TypeAt(b, s.off) # ENDPOINT THEN Fail(s)
    ELSE LET e == Item(b, s.off, CS_ENDPOINT)
         IN  [s EXCEPT !.off = Behind(b, @, CS_ENDPOINT), !.found = Append(@, e),
                       !.pool = MallocPoolN(@, IF e.extras > 0 THEN 2 ELSE 1)]

\* The loop of xesp_usbh_parse_interface, which stops at the end of the data, and after
\* bNumEndpoints endpoints.
EndpointTurn(b, t, k, neps) ==
    IF t.ok /\ t.off < b.n /\ k <= neps THEN ParseEndpoint(b, t) ELSE t

ParseEndpoints(b, s, neps) ==
    LET f[k \in 0 .. b.turns] == IF k = 0 THEN s ELSE EndpointTurn(b, f[k - 1], k, neps)
    IN  f[b.turns]

\* xesp_usbh_parse_interface.
ParseInterface(b, s) ==
    IF Left(b, s.off) < InterfaceSize THEN Fail(s)
    ELSE LET i == Item(b, s.off, CS_INTERFACE)
             inner == [s EXCEPT !.off = Behind(b, @, CS_INTERFACE), !.found = <<>>,
                                !.pool = MallocPoolN(@, IF i.extras > 0 THEN 3 ELSE 2)]
             e == ParseEndpoints(b, inner, b.at[s.off].neps)
         IN  [e EXCEPT !.found = Append(s.found, [at |-> i.at, extras |-> i.extras,
                                                  endpoints |-> e.found])]

\* config_interface_count.
CountTurn(b, c) ==
    IF c.off >= b.n THEN c
    ELSE [off |-> c.off + LengthAt(b, c.off),
          count |-> c.count + IF TypeAt(b, c.off) = INTERFACE THEN 1 ELSE 0]

ConfigInterfaceCount(b) ==
    LET f[k \in 0 .. b.turns] == IF k = 0 THEN [off |-> 0, count |-> 0] ELSE CountTurn(b, f[k - 1])
    IN  f[b.turns].count

\* The loop of xesp_usbh_parse_config.
InterfaceTurn(b, t) ==
    IF ~t.ok \/ t.off >= b.n THEN t
    ELSE IF TypeAt(b, t.off) = INTERFACE THEN ParseInterface(b, t)
    ELSE [t EXCEPT !.off = @ + LengthAt(b, t.off)]

ParseInterfaces(b, s) ==
    LET f[k \in 0 .. b.turns] == IF k = 0 THEN s ELSE InterfaceTurn(b, f[k - 1])
    IN  f[b.turns]

NumberOf(b, i) == b.at[i.at].num

\* alternate_counts has an element for each interface found, and is indexed by their
\* numbers: a number beyond it is counted in memory behind the array.
Overruns(b, found) == \E i \in ToSet(found) : NumberOf(b, i) >= Len(found)

\* merge_alternate_interfaces, when it does not overrun the array: an interface for each
\* element of alternate_counts that is not 0, and in the j-th the descriptors that have
\* the number j - 1.
MergeAlternateInterfaces(b, found) ==
    LET mine(j) == {k \in DOMAIN found : NumberOf(b, found[k]) = j - 1}
        unique == Cardinality({j \in DOMAIN found : mine(j) # {}})
    IN  [j \in 1 .. unique |-> [n \in 1 .. Cardinality(mine(j)) |-> found[Nth(mine(j), n)]]]

\* The blocks of a merge: the counters, the array, and two for each interface.
MergeBlocks(merged) == 2 + 2 * Len(merged)

NoConfig(blocks) ==
    [ok |-> FALSE, fault |-> FALSE, interfaces |-> <<>>, pool |-> MallocPoolCreate,
     blocks |-> blocks]

\* The heap was written outside of a block: what the program does then is undefined.
Corrupt == [NoConfig(0) EXCEPT !.fault = TRUE]

\* xesp_usbh_parse_config: the configuration with the pool it is made of, and the blocks
\* that stay allocated.
ParseConfig(d, n, next) ==
    LET b == Buffer(d, n, next)
        s == ParseInterfaces(b, [off |-> ConfigSize, pool |-> MallocPool(MallocPoolCreate),
                                 found |-> <<>>, ok |-> TRUE])
        merged == MergeAlternateInterfaces(b, s.found)
        pool == MallocPoolN(s.pool, MergeBlocks(merged))
        all == MallocPool(pool)
    IN  IF n < ConfigSize \/ d[1].type # CONFIG THEN NoConfig(0)
        ELSE IF ~s.ok \/ Len(s.found) # ConfigInterfaceCount(b)
        THEN NoConfig(s.pool.blocks - Freed(s.pool))
        ELSE IF Overruns(b, s.found) THEN Corrupt
        ELSE IF Len(merged) # d[1].num THEN NoConfig(pool.blocks - Freed(pool))
        ELSE [ok |-> TRUE, fault |-> FALSE, interfaces |-> merged, pool |-> all, blocks |-> all.blocks]

-----------------------------------------------------------------------------
(* What the descriptors mean: an interface descriptor is followed by its own   *)
(* class specific descriptors and its endpoints, an endpoint descriptor by     *)
(* its class specific ones; interfaces with the same number are alternatives.  *)

IndexesOf(d, t) == {k \in DOMAIN d : d[k].type = t}

\* The last descriptor of the interface that k begins.
LastOf(d, k) == Min({j - 1 : j \in {i \in IndexesOf(d, INTERFACE) : i > k}} \cup {Len(d)})

\* The first descriptor behind k that is not of type t, and the length of those before it.
After(d, k, t) == Min({j \in (k + 1) .. Len(d) : d[j].type # t} \cup {Len(d) + 1})

ExtrasOf(d, k, t) == StartOf(d, After(d, k, t)) - StartOf(d, k + 1)

Means(d, k, t) == [at |-> StartOf(d, k), extras |-> ExtrasOf(d, k, t)]

EndpointsOf(d, k) ==
    LET eps == (k .. LastOf(d, k)) \cap IndexesOf(d, ENDPOINT)
    IN  [n \in 1 .. Cardinality(eps) |-> Means(d, Nth(eps, n), CS_ENDPOINT)]

InterfaceOf(d, k) ==
    [at |-> StartOf(d, k), extras |-> ExtrasOf(d, k, CS_INTERFACE),
     endpoints |-> EndpointsOf(d, k)]

Numbers(d) == {d[k].num : k \in IndexesOf(d, INTERFACE)}

\* The interfaces in the order of their numbers, each with its alternatives.
Meaning(d) ==
    LET alternatives(j) == {k \in IndexesOf(d, INTERFACE) : d[k].num = Nth(Numbers(d), j)}
    IN  [j \in 1 .. Cardinality(Numbers(d)) |->
            [n \in 1 .. Cardinality(alternatives(j)) |-> InterfaceOf(d, Nth(alternatives(j), n))]]

\* What a device sends for a configuration descriptor: no descriptor is shorter than the
\* specification of the bus says.
WellFormed(d) ==
    /\ d \in Seq(Descriptors) /\ d # <<>>
    /\ d[1].type = CONFIG /\ d[1].len = ConfigSize
    /\ \A k \in DOMAIN d :
          /\ d[k].len >= 2
          /\ d[k].type = INTERFACE => d[k].len >= InterfaceSize
          /\ d[k].type = ENDPOINT => d[k].len >= EndpointSize

\* The configurations the parser is made for: the numbers begin at 0 without a gap, the
\* counters are right, and between an interface descriptor and the last of its endpoints
\* there are class specific audio descriptors only, each behind what it belongs to.
Regular(d) ==
    /\ Numbers(d) = 0 .. (d[1].num - 1)
    /\ \A k \in IndexesOf(d, INTERFACE) :
          LET mine == (k + 1) .. LastOf(d, k)
              eps == mine \cap IndexesOf(d, ENDPOINT)
          IN  /\ d[k].neps = Cardinality(eps)
              /\ \A j \in mine, e \in eps : j < e =>
                    \/ d[j].type = CS_INTERFACE /\ \A i \in (k + 1) .. j : d[i].type = CS_INTERFACE
                    \/ d[j].type = ENDPOINT
                    \/ d[j].type = CS_ENDPOINT /\ \E i \in eps : i < j

\* The interfaces come in the order of their numbers: before each of them there is one with
\* every smaller number.
InOrder(d) ==
    \A k \in IndexesOf(d, INTERFACE) : \A m \in 0 .. d[k].num - 1 :
        \E i \in IndexesOf(d, INTERFACE) : i < k /\ d[i].num = m

-----------------------------------------------------------------------------
(* Parser and meaning compared *)

\* What came whole is parsed as what its descriptors mean.
AsMeant(d) ==
    \A next \in Garbage :
        LET config == ParseConfig(d, TotalLength(d), next)
        IN  config.ok /\ config.interfaces = Meaning(d)

\* Cut anywhere it is refused, or parsed as every interface with the first of its
\* alternatives and of their endpoints; and if the interfaces come in order, no write of
\* the parser misses its block.  (If they do not, one can: the number of an interface may
\* be beyond the count of those that came.)
Places(items) == [k \in DOMAIN items |-> items[k].at]

BeginsAs(is, means) ==
    /\ IsPrefix(Places(is), Places(means))
    /\ \A k \in DOMAIN is : IsPrefix(Places(is[k].endpoints), Places(means[k].endpoints))

AsPrefix(d) ==
    LET means == Meaning(d)
        ordered == InOrder(d)
        halved == {StartOf(d, k) + 1 : k \in DOMAIN d}    \* only then Garbage is looked at
    IN  \A n \in 0 .. TotalLength(d) - 1 :
            \A next \in IF n \in halved THEN Garbage ELSE {0} :
                LET config == ParseConfig(d, n, next)
                IN  /\ ordered => ~config.fault
                    /\ config.ok =>
                           /\ DOMAIN config.interfaces = DOMAIN means
                           /\ \A j \in DOMAIN means : BeginsAs(config.interfaces[j], means[j])
=============================================================================
