------------------------------- MODULE Inflate ------------------------------
(***************************************************************************)
(* inflate.c: decompression of a DEFLATE stream, one symbol at a time.     *)
(* The widths of a byte and of the header fields, the alphabets and their  *)
(* tables are constants; the code's own are those of RFC 1951.             *)
(*                                                                         *)
(* The streams come from a reference encoder at the end of the module: a   *)
(* stream is a list of blocks, written out with the codes the RFC defines, *)
(* and its meaning is stated without the decoder.                          *)
(***************************************************************************)
EXTENDS Integers, Sequences, FiniteSets, FiniteSetsExt, SequencesExt

CONSTANTS
  ByteBits,                           \* 8 in the code
  MAX_BITS,                           \* 15: the longest code
  LENGTH_BASE, LENGTH_EXTRA,          \* the tables, indexed from 0
  DIST_BASE, DIST_EXTRA,
  CL_ORDER,                           \* in this order code length codes come
  HlitBits, HdistBits, HclenBits,     \* 5, 5 and 4: the fields of the header
  HclenMin, ClBits,                   \* 4, and 3: one code length code length
  Repeat,                             \* for 16, 17 and 18: [extra, base]
  FixedLit, FixedDistBits,            \* the lengths of build_fixed_tables()
  MAX_LIT_SYMBOLS, MAX_DIST_SYMBOLS,  \* 288 and 30
  Streams,                            \* the streams tried
  Room                                \* bytes of dst beyond those needed

VARIABLES
  io,       \* the call: [src (bits), dst_cap, want]
  br,       \* the bitreader: [byte_pos, bit_pos, error]
  dst,      \* dst[0 .. dst_pos - 1]
  final,    \* the block under way is the last
  tables,   \* [lit, dist] of the block, once known
  dyn,      \* read_dynamic_tables(): [hlit, total, cl_table, lengths]
  ipc       \* "header" | "lengths" | "symbols" | "true" | "false"

ivars == <<io, br, dst, final, tables, dyn, ipc>>

END == 2 ^ ByteBits                   \* 256: the symbol that ends a block
MAX_CL_SYMBOLS == Len(CL_ORDER)
src_len == Len(io.src) \div ByteBits
Byte(n) == FoldSet(LAMBDA k, v : v + io.src[n * ByteBits + k + 1] * 2 ^ k,
                   0, 0 .. ByteBits - 1)

-----------------------------------------------------------------------------
(***************************************************************************)
(* The bit reader.  A reading is the value with the reader after it; past  *)
(* the end it is 0 and sets error.                                         *)
(***************************************************************************)
Reading(v, b) == [v |-> v, br |-> b]

br_getbit(b) ==
  IF b.byte_pos >= src_len THEN Reading(0, [b EXCEPT !.error = TRUE])
  ELSE Reading(io.src[b.byte_pos * ByteBits + b.bit_pos + 1],
               IF b.bit_pos + 1 = ByteBits
               THEN [b EXCEPT !.bit_pos = 0, !.byte_pos = @ + 1]
               ELSE [b EXCEPT !.bit_pos = @ + 1])

br_getbits(b, n) ==
  LET read[k \in 0 .. n] ==
        IF k = 0 THEN Reading(0, b)
        ELSE LET r == br_getbit(read[k - 1].br)
             IN  Reading(read[k - 1].v + r.v * 2 ^ (k - 1), r.br)
  IN  read[n]

br_align(b) ==
  IF b.bit_pos # 0 THEN [b EXCEPT !.bit_pos = 0, !.byte_pos = @ + 1] ELSE b

(***************************************************************************)
(* Canonical Huffman tables: how many codes have each length, and the      *)
(* symbols sorted by length and then by value.                             *)
(***************************************************************************)
huffman_build(lengths) ==
  LET used == {s \in DOMAIN lengths : lengths[s] # 0}
      before(s) == {t \in used : \/ lengths[t] < lengths[s]
                                 \/ lengths[t] = lengths[s] /\ t < s}
  IN  [count |-> [n \in 1 .. MAX_BITS |-> Cardinality({s \in used : lengths[s] = n})],
       symbol |-> [k \in 0 .. Cardinality(used) - 1 |->
                     CHOOSE s \in used : Cardinality(before(s)) = k]]

\* (Mutant.) The first code of the next length is not doubled.
NextFirstFlat(first, count) == first + count
NextFirst(first, count) == 2 * (first + count)

\* -1 at the end of the input, and after MAX_BITS bits that are no code.
huffman_decode(h, b) ==
  LET walk[n \in 0 .. MAX_BITS] ==
        IF n = 0 THEN [code |-> 0, first |-> 0, index |-> 0, br |-> b, sym |-> -1, stop |-> FALSE]
        ELSE LET w == walk[n - 1]
                 r == br_getbit(w.br)
                 code == w.code + r.v
                 hit == code - w.first < h.count[n]
             IN  IF w.stop THEN w
                 ELSE IF r.br.error THEN [w EXCEPT !.br = r.br, !.stop = TRUE]
                 ELSE IF hit
                 THEN [w EXCEPT !.br = r.br, !.stop = TRUE,
                                !.sym = h.symbol[w.index + (code - w.first)]]
                 ELSE [w EXCEPT !.br = r.br, !.index = @ + h.count[n],
                                !.first = NextFirst(@, h.count[n]), !.code = 2 * code]
  IN  Reading(walk[MAX_BITS].sym, walk[MAX_BITS].br)

build_fixed_tables ==
  [lit |-> huffman_build(FixedLit),
   dist |-> huffman_build([s \in 0 .. MAX_DIST_SYMBOLS - 1 |-> FixedDistBits])]

-----------------------------------------------------------------------------
Fail == ipc' = "false" /\ UNCHANGED <<dst, tables, dyn>>

\* The end of a block: return true after the last one, else the next header.
EndBlock(last) == ipc' = IF last THEN "true" ELSE "header"

\* Nothing is written unless all of the block is there and fits.
inflate_block_stored(b, last) ==
  LET at == br_align(b).byte_pos
      lenv == Byte(at) + Byte(at + 1) * END
      nlen == Byte(at + 2) + Byte(at + 3) * END
  IN  IF \/ at + 4 > src_len
         \/ END * END - 1 - lenv # nlen
         \/ at + 4 + lenv > src_len
         \/ Len(dst) + lenv > io.dst_cap
      THEN br' = br_align(b) /\ Fail
      ELSE /\ br' = [br_align(b) EXCEPT !.byte_pos = at + 4 + lenv]
           /\ dst' = dst \o [k \in 1 .. lenv |-> Byte(at + 3 + k)]
           /\ EndBlock(last)
           /\ UNCHANGED <<tables, dyn>>

\* The counts and the code length code of a dynamic block.
ReadCounts(b) ==
  LET r1 == br_getbits(b, HlitBits)
      r2 == br_getbits(r1.br, HdistBits)
      r3 == br_getbits(r2.br, HclenBits)
      hlit == r1.v + END + 1
      total == hlit + r2.v + 1
      hclen == r3.v + HclenMin
      read[k \in 0 .. hclen] == IF k = 0 THEN Reading(0, r3.br)
                                ELSE br_getbits(read[k - 1].br, ClBits)
      cl_lengths == [s \in 0 .. MAX_CL_SYMBOLS - 1 |->
                       LET at == CHOOSE k \in 1 .. MAX_CL_SYMBOLS : CL_ORDER[k] = s
                       IN  IF at <= hclen THEN read[at].v ELSE 0]
  IN  /\ br' = read[hclen].br
      /\ IF br'.error \/ total > MAX_LIT_SYMBOLS + MAX_DIST_SYMBOLS THEN Fail
         ELSE /\ dyn' = [hlit |-> hlit, total |-> total,
                         cl_table |-> huffman_build(cl_lengths), lengths |-> <<>>]
              /\ ipc' = "lengths"
              /\ UNCHANGED <<dst, tables>>

\* One round of the loop of inflate(): the header of a block, and the whole of
\* a stored one.
BlockHeader ==
  LET f == br_getbit(br)
      r == br_getbits(f.br, 2)
  IN  /\ ipc = "header"
      /\ final' = (f.v # 0)
      /\ CASE r.br.error \/ r.v = 3 -> br' = r.br /\ Fail
           [] ~r.br.error /\ r.v = 0 -> inflate_block_stored(r.br, f.v # 0)
           [] ~r.br.error /\ r.v = 1 -> /\ tables' = build_fixed_tables
                                        /\ ipc' = "symbols"
                                        /\ br' = r.br
                                        /\ UNCHANGED <<dst, dyn>>
           [] ~r.br.error /\ r.v = 2 -> ReadCounts(r.br)
      /\ UNCHANGED io

\* The tables, once all lengths are there: huffman_build(lit, lengths, hlit)
\* and huffman_build(dist, &lengths[hlit], hdist).
ToTables(lengths) ==
  IF Len(lengths) < dyn.total THEN ipc' = ipc /\ UNCHANGED tables
  ELSE /\ tables' =
            [lit |-> huffman_build([s \in 0 .. dyn.hlit - 1 |-> lengths[s + 1]]),
             dist |-> huffman_build([s \in 0 .. dyn.total - dyn.hlit - 1 |->
                                       lengths[dyn.hlit + s + 1]])]
       /\ ipc' = "symbols"

\* (Mutant.) The repetition copies zeros, whatever length came before.
RepeatedZero(sym) == 0
Repeated(sym) == IF sym = MAX_BITS + 1 THEN Last(dyn.lengths) ELSE 0

\* One round of the loop of read_dynamic_tables(): a length, or a repetition of
\* the last one or of 0, cut off at the total.
read_dynamic_tables ==
  LET s == huffman_decode(dyn.cl_table, br)
      rule == Repeat[s.v - MAX_BITS]
      r == br_getbits(s.br, rule.extra)
      left == dyn.total - Len(dyn.lengths)
      rep == IF r.v + rule.base < left THEN r.v + rule.base ELSE left
      more == IF s.v <= MAX_BITS THEN <<s.v>> ELSE [k \in 1 .. rep |-> Repeated(s.v)]
  IN  /\ ipc = "lengths"
      /\ br' = IF s.v <= MAX_BITS \/ (s.v = MAX_BITS + 1 /\ dyn.lengths = <<>>)
               THEN s.br ELSE r.br
      /\ IF \/ s.v < 0
            \/ s.v = MAX_BITS + 1 /\ dyn.lengths = <<>>
            \/ br'.error
         THEN Fail
         ELSE /\ dyn' = [dyn EXCEPT !.lengths = @ \o more]
              /\ ToTables(dyn.lengths \o more)
              /\ UNCHANGED dst
      /\ UNCHANGED <<io, final>>

\* (Mutant.) The source of the copy is the text before it, repeated blocks of
\* which are not seen.
CopiedOnce(distance, length) ==
  [k \in 1 .. length |-> IF k <= distance THEN dst[Len(dst) - distance + k] ELSE 0]
\* Byte by byte: a copy longer than its distance reads what it has just written.
Copied(distance, length) ==
  LET out[k \in 1 .. length] ==
        IF k <= distance THEN dst[Len(dst) - distance + k] ELSE out[k - distance]
  IN  [k \in 1 .. length |-> out[k]]

\* One round of the loop of inflate_block_huffman(): a literal, the end of the
\* block, or a back reference.
inflate_block_huffman ==
  LET s == huffman_decode(tables.lit, br)
      lidx == s.v - END - 1
      l == br_getbits(s.br, LENGTH_EXTRA[lidx])
      length == LENGTH_BASE[lidx] + l.v
      d == huffman_decode(tables.dist, l.br)
      e == br_getbits(d.br, DIST_EXTRA[d.v])
      distance == DIST_BASE[d.v] + e.v
  IN  /\ ipc = "symbols"
      /\ \/ s.v < 0 /\ br' = s.br /\ Fail
         \/ /\ s.v \in 0 .. END - 1
            /\ br' = s.br
            /\ IF Len(dst) >= io.dst_cap THEN Fail
               ELSE dst' = Append(dst, s.v) /\ UNCHANGED <<tables, dyn, ipc>>
         \/ s.v = END /\ br' = s.br /\ EndBlock(final) /\ UNCHANGED <<dst, tables, dyn>>
         \/ s.v > END /\ lidx \notin DOMAIN LENGTH_BASE /\ br' = s.br /\ Fail
         \/ /\ s.v > END /\ lidx \in DOMAIN LENGTH_BASE
            /\ IF d.v \notin DOMAIN DIST_BASE THEN br' = d.br /\ Fail
               ELSE /\ br' = e.br
                    /\ IF \/ e.br.error
                          \/ distance > Len(dst)
                          \/ Len(dst) + length > io.dst_cap
                       THEN Fail
                       ELSE /\ dst' = dst \o Copied(distance, length)
                            /\ UNCHANGED <<tables, dyn, ipc>>
      /\ UNCHANGED <<io, final>>

InflateNext == BlockHeader \/ read_dynamic_tables \/ inflate_block_huffman

-----------------------------------------------------------------------------
(***************************************************************************)
(* The reference.  A stored block has bytes, a compressed one tokens, each *)
(* with the symbols and the extra bits it is written with; a dynamic block *)
(* also has its header, with the items that make up the code lengths.      *)
(***************************************************************************)
Bits(v, n) == [k \in 1 .. n |-> (v \div 2 ^ (k - 1)) % 2]

\* RFC 1951, 3.2.2: codes of one length are consecutive, in the order of the
\* symbols, and follow the shorter ones; the highest bit is written first.
CodeBits(lengths, s) ==
  LET n == lengths[s]
      before == {t \in DOMAIN lengths : /\ lengths[t] # 0
                                        /\ lengths[t] < n \/ (lengths[t] = n /\ t < s)}
      code == MapThenSumSet(LAMBDA t : 2 ^ (MAX_BITS - lengths[t]), before)
                \div 2 ^ (MAX_BITS - n)
  IN  [k \in 1 .. n |-> (code \div 2 ^ (n - k)) % 2]

CodeLengths(items) ==
  FoldLeft(LAMBDA ls, it :
             IF it.sym <= MAX_BITS THEN Append(ls, it.sym)
             ELSE ls \o [k \in 1 .. Repeat[it.sym - MAX_BITS].base + it.extra |->
                           IF it.sym = MAX_BITS + 1 THEN Last(ls) ELSE 0],
           <<>>, items)

HeaderBits(h) ==
  Bits(h.hlit - END - 1, HlitBits) \o Bits(h.hdist - 1, HdistBits)
  \o Bits(h.hclen - HclenMin, HclenBits)
  \o FlattenSeq([k \in 1 .. h.hclen |-> Bits(h.cl[CL_ORDER[k]], ClBits)])
  \o FlattenSeq([k \in 1 .. Len(h.items) |->
       CodeBits(h.cl, h.items[k].sym)
       \o (IF h.items[k].sym <= MAX_BITS THEN <<>>
           ELSE Bits(h.items[k].extra, Repeat[h.items[k].sym - MAX_BITS].extra))])

Lengths(block) ==
  IF block.type = 1
  THEN [lit |-> FixedLit, dist |-> [s \in 0 .. MAX_DIST_SYMBOLS - 1 |-> FixedDistBits]]
  ELSE LET all == CodeLengths(block.head.items)
       IN  [lit |-> [s \in 0 .. block.head.hlit - 1 |-> all[s + 1]],
            dist |-> [s \in 0 .. block.head.hdist - 1 |-> all[block.head.hlit + s + 1]]]

TokenBits(ls, t) ==
  CodeBits(ls.lit, t.sym)
  \o IF t.sym - END - 1 \notin DOMAIN LENGTH_BASE THEN <<>>
     ELSE Bits(t.extra, LENGTH_EXTRA[t.sym - END - 1]) \o CodeBits(ls.dist, t.dsym)
          \o IF t.dsym \notin DOMAIN DIST_BASE THEN <<>>
             ELSE Bits(t.dextra, DIST_EXTRA[t.dsym])

Pad(bits) == bits \o [k \in 1 .. (-Len(bits)) % ByteBits |-> 0]

BlockBits(before, block, last) ==
  LET start == before \o <<IF last THEN 1 ELSE 0>> \o Bits(block.type, 2)
      len == Len(block.bytes)
  IN  CASE block.type = 0 ->
             Pad(start) \o Bits(len, 2 * ByteBits) \o Bits(END * END - 1 - len, 2 * ByteBits)
             \o FlattenSeq([k \in 1 .. len |-> Bits(block.bytes[k], ByteBits)])
        [] block.type \in {1, 2} ->
             start \o (IF block.type = 2 THEN HeaderBits(block.head) ELSE <<>>)
             \o FlattenSeq([k \in 1 .. Len(block.tokens) |->
                              TokenBits(Lengths(block), block.tokens[k])])
             \o CodeBits(Lengths(block).lit, END)
        [] block.type = 3 -> start

Encode(blocks) ==
  Pad(FoldLeft(LAMBDA bits, k : BlockBits(bits, blocks[k], k = Len(blocks)),
               <<>>, [k \in 1 .. Len(blocks) |-> k]))

\* What the tokens stand for, up to the first one that is not valid.
Expand(m, t) ==
  LET l == t.sym - END - 1
      valid == l \in DOMAIN LENGTH_BASE /\ t.dsym \in DOMAIN DIST_BASE
      distance == DIST_BASE[t.dsym] + t.dextra
      at == Len(m.text) - distance
  IN  CASE ~m.ok -> m
        [] m.ok /\ t.sym < END -> [m EXCEPT !.text = Append(@, t.sym)]
        [] m.ok /\ t.sym > END ->
             IF ~valid \/ distance > Len(m.text) THEN [m EXCEPT !.ok = FALSE]
             ELSE [m EXCEPT !.text = @ \o [k \in 1 .. LENGTH_BASE[l] + t.extra |->
                                             m.text[at + 1 + ((k - 1) % distance)]]]

Meaning(blocks) ==
  FoldLeft(LAMBDA m, b : CASE ~m.ok \/ b.type = 3 -> [m EXCEPT !.ok = FALSE]
                           [] m.ok /\ b.type = 0 -> [m EXCEPT !.text = @ \o b.bytes]
                           [] m.ok /\ b.type \in {1, 2} -> FoldLeft(Expand, m, b.tokens),
           [ok |-> TRUE, text |-> <<>>], blocks)

\* A whole stream into enough room or one byte too little, or a stream cut short.
InflateInit ==
  /\ \E s \in Streams :
       LET bits == Encode(s)
           m == Meaning(s)
           n == Len(bits) \div ByteBits
           need == Len(m.text)
       IN  \E len \in 0 .. n : \E cap \in {need - 1, need, need + Room} :
             /\ cap >= 0
             /\ len < n => cap = need + Room
             /\ io = [src |-> SubSeq(bits, 1, len * ByteBits), dst_cap |-> cap,
                      want |-> [ok |-> m.ok /\ len = n /\ cap >= need, text |-> m.text]]
  /\ br = [byte_pos |-> 0, bit_pos |-> 0, error |-> FALSE]
  /\ dst = <<>> /\ final = FALSE /\ ipc = "header"
  /\ tables = <<>> /\ dyn = <<>>

-----------------------------------------------------------------------------
InflateTypeOK ==
  /\ br.byte_pos \in 0 .. src_len + 1 /\ br.bit_pos \in 0 .. ByteBits - 1
  /\ br.error \in BOOLEAN /\ final \in BOOLEAN
  /\ Len(dst) <= io.dst_cap
  /\ ipc \in {"header", "lengths", "symbols", "true", "false"}

\* inflate() returns true exactly for a stream that is whole, well formed and
\* fits, and then dst is what the stream stands for; what has been written at
\* any time before is a part of it that starts at its beginning.
InflateExact ==
  /\ IsPrefix(dst, io.want.text)
  /\ ipc = "true" => io.want.ok /\ dst = io.want.text
  /\ ipc = "false" => ~io.want.ok
=============================================================================
