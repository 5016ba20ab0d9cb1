------------------------------- MODULE Rabit2Page -------------------------------
(***************************************************************************)
(* The bytes of one closed page: where rabit2_page_layout puts each part,  *)
(* what the three writers store there (the exact reference, the vectorized *)
(* writer of prefill chunks, the Triton encoder) and what the reference    *)
(* decoder and the attention kernels read back.                            *)
(*                                                                         *)
(* K and V elements are small naturals, which BF16 holds exactly; float32  *)
(* arithmetic on them is taken as exact.  Codes, packed bytes and BF16     *)
(* values are the real ones, bit for bit.  Decoded values are multiples of *)
(* 1 / One.                                                                *)
(***************************************************************************)
EXTENDS Integers, Sequences, SequencesExt, FiniteSets, FiniteSetsExt, Functions

CONSTANTS
  GroupSize,         \* RABIT2_GROUP_SIZE (32 in the code)
  MetadataGroupSize, \* RABIT2_METADATA_GROUP_SIZE (64 in the code)
  Shapes,            \* <<block_size, num_kv_heads, head_size>> of the layers
  Seeds,             \* names of the tensors a page may have to hold
  Element(_, _, _, _)\* element [token, head, dim] of the tensor of a seed

ASSUME PageAssumption ==
  /\ {GroupSize, MetadataGroupSize} \subseteq Nat \ {0} /\ GroupSize % 8 = 0
  /\ MetadataGroupSize >= 8
  /\ Shapes \subseteq (Nat \ {0}) \X (Nat \ {0}) \X (Nat \ {0})
  /\ \A s \in Shapes : s[1] % GroupSize = 0   \* rabit2_page_layout refuses others

VARIABLES
  shape, key, value, \* the layer and the page's tensors
  writer,            \* the writer that encoded it, or refused to
  page,              \* the page, by byte offset
  out,               \* the tensors read back
  status             \* "tensors", "written", "read" or "refused"

vars == <<shape, key, value, writer, page, out, status>>

block_size == shape[1]
num_kv_heads == shape[2]
head_size == shape[3]

Tokens == 0..(block_size - 1)
Heads == 0..(num_kv_heads - 1)
Dims == 0..(head_size - 1)

cdiv(n, d) == (n + d - 1) \div d
Upto(n) == 0..(n - 1)
-----------------------------------------------------------------------------
\* Layout.

rabit2_packed_dim(n, bits) == cdiv(n * bits, 8)

rabit2_encoded_metadata_bytes(n) == n + cdiv(n, MetadataGroupSize) * 4

v_groups == cdiv(head_size, GroupSize)
v_padded_dim == v_groups * GroupSize
k_packed_dim == rabit2_packed_dim(head_size, 3)
v_packed_dim == rabit2_packed_dim(v_padded_dim, 2)
k_primary == (block_size \div GroupSize) * num_kv_heads * head_size
v_primary == block_size * num_kv_heads * v_groups

\* The page's parts in order: sizes, and offsets as running sums.
PartBytes ==
  LET k == rabit2_encoded_metadata_bytes(k_primary)
      v == rabit2_encoded_metadata_bytes(v_primary)
  IN  <<block_size * num_kv_heads * k_packed_dim,
        block_size * num_kv_heads * v_packed_dim, k, k, v, v>>

\* Mutant: the V scales are placed over the V minima.
rabit2_page_layout_overlaps(part) ==
  FoldLeft(LAMBDA a, b : a + b, 0, SubSeq(PartBytes, 1, IF part = 6 THEN 4 ELSE part - 1))

rabit2_page_layout(part) ==
  FoldLeft(LAMBDA a, b : a + b, 0, SubSeq(PartBytes, 1, part - 1))

page_bytes == rabit2_page_layout(7)

\* Mutant: metadata that does not fill its groups is accepted.
stage3b1_validate_layout_unaligned ==
  block_size = GroupSize /\ head_size % GroupSize = 0

\* What the kernels and the Triton encoder accept.
stage3b1_validate_layout ==
  /\ block_size = GroupSize
  /\ head_size % GroupSize = 0
  /\ k_primary % MetadataGroupSize = 0 /\ v_primary % MetadataGroupSize = 0
-----------------------------------------------------------------------------
\* Numbers.

Distance(a, b) == IF a < b THEN b - a ELSE a - b

\* n / d to the nearest integer, and to the even one of two.
torch_round(n, d) ==
  CHOOSE q \in {n \div d, n \div d + 1} :
    LET off == 2 * Distance(n, q * d) IN off < d \/ (off = d /\ q % 2 = 0)


\* The kernels' rounding: by the fraction above the floor.
round_to_even_nonnegative(n, d) ==
  LET flo == n \div d  frac == n % d
      tie_up == flo % 2 # 0
  IN  CASE 2 * frac > d -> flo + 1
        [] 2 * frac < d -> flo
        [] OTHER -> IF tie_up THEN flo + 1 ELSE flo

One == 2^18

\* The BF16 bit pattern of n / d, for n = 0 or n / d in 2^-11 .. 2^8: eight
\* significant bits, rounded to even; a carry moves into the exponent field.
Bf16(n, d) ==
  LET e == CHOOSE e \in 0..18 : 128 * d <= n * 2^e /\ n * 2^e < 256 * d
  IN  IF n = 0 THEN 0 ELSE (134 - e) * 128 + torch_round(n * 2^e, d) - 128

\* _rabit2_u8pair_to_bf16_f32, times One.
u8pair_to_bf16(lo, hi) ==
  LET bits == lo + 256 * hi
  IN  IF bits = 0 THEN 0 ELSE (128 + (bits % 128)) * 2^((bits \div 128) - 116)

\* The affine quantizers of a group S, with codes 0..levels.  A scale is kept as
\* its multiple of 1 / levels; a constant group has scale 1.
Scale(S, levels) == IF Max(S) = Min(S) THEN levels ELSE Max(S) - Min(S)

\* Mutant: codes are truncated.
Code_truncates(x, S, levels) == (levels * (x - Min(S))) \div Scale(S, levels)

Code(x, S, levels) ==
  Min({levels, torch_round(levels * (x - Min(S)), Scale(S, levels))})

KernelCode(x, S, levels) ==
  Min({levels, round_to_even_nonnegative(levels * (x - Min(S)), Scale(S, levels))})
-----------------------------------------------------------------------------
\* Primary quantization: K along the tokens of a group, V along 32 dimensions.

\* quantize_k3_sequence_affine_ref: groups of adjacent tokens.
KGroup(t, h, d) ==
  LET g == t \div GroupSize
  IN  {key[<<x, h, d>>] : x \in (g * GroupSize)..(g * GroupSize + GroupSize - 1)}

KCode(t, h, d) == Code(key[<<t, h, d>>], KGroup(t, h, d), 7)

\* The vectorized writer reduces over all tokens of the page.
KGroupOfPage(h, d) == {key[<<t, h, d>>] : t \in Tokens}

KCodeOfPage(t, h, d) == Code(key[<<t, h, d>>], KGroupOfPage(h, d), 7)

\* The kernels' minima and scales are those of tokens 0..31.
k_primary_kernel(h, d) == {key[<<t, h, d>>] : t \in Upto(GroupSize)}

\* _quantize_v2_primary_ref, used by the reference and the vectorized writer: rows
\* are padded with zeros.
VAt(t, h, d) == IF d < head_size THEN value[<<t, h, d>>] ELSE 0
VGroup(t, h, g) == {VAt(t, h, d) : d \in (g * GroupSize)..(g * GroupSize + GroupSize - 1)}
VCode(t, h, d) == Code(VAt(t, h, d), VGroup(t, h, d \div GroupSize), 3)

\* The kernel masks what is past the row.
v_primary_kernel(t, h, group) ==
  {LET d == group * GroupSize + o IN IF d < head_size THEN value[<<t, h, d>>] ELSE 0 :
     o \in Upto(GroupSize)}

\* A blob holds the minima (parts 3 and 5) as they are, or the scales (4 and 6) as
\* multiples of 1 / Unit.
Unit(part) == CASE part \in {3, 5} -> 1 [] part = 4 -> 7 [] part = 6 -> 3

Statistic(part, S) == IF part \in {3, 5} THEN Min(S) ELSE Scale(S, Unit(part))

PrimaryCount(part) == IF part < 5 THEN k_primary ELSE v_primary

\* V metadata i is that of this <<token, head, group>>.
VIndex(i) ==
  LET row == i \div v_groups
  IN  <<row \div num_kv_heads, row % num_kv_heads, i % v_groups>>

\* Primary metadata i: K stored as [head, group, dim] by the reference ...
Primary(part, i) ==
  LET groups == block_size \div GroupSize
  IN  IF part < 5
      THEN Statistic(part, KGroup(((i \div head_size) % groups) * GroupSize,
                                  i \div (head_size * groups), i % head_size))
      ELSE LET x == VIndex(i) IN Statistic(part, VGroup(x[1], x[2], x[3]))

\* ... as [head, dim] by the vectorized writer ...
PrimaryOfPage(part, i) ==
  IF part < 5 THEN Statistic(part, KGroupOfPage(i \div head_size, i % head_size))
  ELSE LET x == VIndex(i) IN Statistic(part, VGroup(x[1], x[2], x[3]))

\* ... and at head * HEAD_SIZE + d by the kernels.
PrimaryOfKernel(part, i) ==
  IF part < 5 THEN Statistic(part, k_primary_kernel(i \div head_size, i % head_size))
  ELSE LET x == VIndex(i) IN Statistic(part, v_primary_kernel(x[1], x[2], x[3]))
-----------------------------------------------------------------------------
\* META8g64 blobs, byte by byte: codes, then BF16 minima, then BF16 scales.

MetaGroups(part) == cdiv(PrimaryCount(part), MetadataGroupSize)

Half(bits, i) == IF i % 2 = 0 THEN bits % 256 ELSE bits \div 256

Bf16Min(part, S) == Bf16(Min(S), Unit(part))
Bf16Scale(part, S) == Bf16(Scale(S, 255 * Unit(part)), 255 * Unit(part))

\* The reference's group g; the last one is padded with the last value.
MetaGroup(part, g) ==
  {Primary(part, Min({i, PrimaryCount(part) - 1})) :
     i \in (g * MetadataGroupSize)..(g * MetadataGroupSize + MetadataGroupSize - 1)}

metadata_blob_ref(part, i) ==
  LET groups == MetaGroups(part)
      rest == i - groups * MetadataGroupSize
  IN  CASE rest < 0 ->
             Code(Primary(part, Min({i, PrimaryCount(part) - 1})),
                  MetaGroup(part, i \div MetadataGroupSize), 255)
        [] rest \in Upto(2 * groups) ->
             Half(Bf16Min(part, MetaGroup(part, rest \div 2)), rest)
        [] OTHER -> Half(Bf16Scale(part, MetaGroup(part, rest \div 2 - groups)), rest)

\* The vectorized writer: one page's row, extended by copies of its last value.
meta_blob_pages(part, i) ==
  LET count == PrimaryCount(part)
      pad == (-count) % MetadataGroupSize
      flat(j) == PrimaryOfPage(part, IF j < count THEN j ELSE count - 1)
      grouped(g) == {flat(g * MetadataGroupSize + o) : o \in Upto(MetadataGroupSize)}
      groups == (count + pad) \div MetadataGroupSize
      at == i - (count + pad)
  IN  CASE at < 0 -> Code(flat(i), grouped(i \div MetadataGroupSize), 255)
        [] at \in Upto(2 * groups) -> Half(Bf16Min(part, grouped(at \div 2)), at)
        [] OTHER -> Half(Bf16Scale(part, grouped((at - 2 * groups) \div 2)), at)

\* The Triton encoder: whole groups only, no padding.
meta_encode_kernel(part, i) ==
  LET values == PrimaryCount(part)
      groups == values \div MetadataGroupSize
      x(group) == {PrimaryOfKernel(part, group * MetadataGroupSize + offs) :
                     offs \in Upto(MetadataGroupSize)}
      mins == values  scales == values + 2 * groups
  IN  CASE i < mins -> KernelCode(PrimaryOfKernel(part, i), x(i \div MetadataGroupSize), 255)
        [] mins <= i /\ i < scales -> Half(Bf16Min(part, x((i - mins) \div 2)), i - mins)
        [] OTHER -> Half(Bf16Scale(part, x((i - scales) \div 2)), i - scales)

BlobBytes(part) == MetaGroups(part) * (MetadataGroupSize + 4)
-----------------------------------------------------------------------------
\* Byte b of a packed row of n codes.

\* pack_lowbit_values and pack_int3_values, for the row of the K codes (3 bits)
\* or of the V codes (2 bits): value i starts at bit i * bits.
pack_lowbit_values(t, h, bits, b) ==
  LET n == IF bits = 3 THEN head_size ELSE v_padded_dim
      Value(i) == IF bits = 3 THEN KCode(t, h, i) ELSE VCode(t, h, i)
      Bit(p) == (Value(p \div bits) \div 2^(p % bits)) % 2
  IN  FoldSet(LAMBDA k, sum : sum + Bit(8 * b + k) * 2^k, 0,
              {k \in 0..7 : 8 * b + k < n * bits})

\* Eight codes to three bytes.
pack_int3_direct(t, h, b) ==
  LET c(i) == KCodeOfPage(t, h, 8 * (b \div 3) + i)
  IN  CASE b % 3 = 0 -> c(0) + c(1) * 8 + (c(2) % 4) * 64
        [] b % 3 = 1 -> (c(2) \div 4) + c(3) * 2 + c(4) * 16 + (c(5) % 2) * 128
        [] b % 3 = 2 -> (c(5) \div 2) + c(6) * 4 + c(7) * 32

\* The K pack kernel: four codes from base_d on, those past the row masked to 0.
k_pack_kernel(t, h, b) ==
  LET base_d == (8 * b) \div 3
      q(j) == IF base_d + j < head_size
              THEN KernelCode(key[<<t, h, base_d + j>>], k_primary_kernel(h, base_d + j), 7)
              ELSE 0
      word == q(0) + q(1) * 8 + q(2) * 64 + q(3) * 512
  IN  (word \div 2^((8 * b) % 3)) % 256

v_pack_kernel(t, h, b) ==
  LET base_d == 4 * b
      S == v_primary_kernel(t, h, base_d \div GroupSize)
      x(d) == IF d < head_size THEN value[<<t, h, d>>] ELSE 0
      q(j) == KernelCode(x(base_d + j), S, 3)
  IN  q(0) + q(1) * 4 + q(2) * 16 + q(3) * 64

\* Byte i of a part as writer w computes it; payload rows are [token, head].
PartByte(w, part, i) ==
  LET width == IF part = 1 THEN k_packed_dim ELSE v_packed_dim
      t == (i \div width) \div num_kv_heads
      h == (i \div width) % num_kv_heads
      b == i % width
  IN  CASE part = 1 /\ w = "reference"  -> pack_lowbit_values(t, h, 3, b)
        [] part = 1 /\ w = "vectorized" -> pack_int3_direct(t, h, b)
        [] part = 1 /\ w = "triton"     -> k_pack_kernel(t, h, b)
        [] part = 2 /\ w # "triton"     -> pack_lowbit_values(t, h, 2, b)
        [] part = 2 /\ w = "triton"     -> v_pack_kernel(t, h, b)
        [] part > 2 /\ w = "reference"  -> metadata_blob_ref(part, i)
        [] part > 2 /\ w = "vectorized" -> meta_blob_pages(part, i)
        [] part > 2 /\ w = "triton"     -> meta_encode_kernel(part, i)
-----------------------------------------------------------------------------
\* Writers.

\* The writer raises: for a blob whose size is not the layout's, for a layout it
\* does not support, or, in the vectorized writer, for rows that are not whole
\* groups of eight codes: their fallback, pack_int3_values, is a name that
\* rabit_kv2.py does not import.
Raises(w) ==
  \/ w # "triton" /\ \E p \in 3..6 : BlobBytes(p) # PartBytes[p]
  \/ w = "triton" /\ ~ stage3b1_validate_layout
  \/ w = "triton" /\ \E p \in 3..6 : PrimaryCount(p) % MetadataGroupSize # 0
  \/ w = "vectorized" /\ (block_size # GroupSize \/ head_size % 8 # 0)

\* The parts copied to their offsets in turn, over a page of zeros or, by the
\* Triton encoder, over memory that holds anything (256).
Assembled(w) ==
  [i \in Upto(page_bytes) |->
     LET covering == {p \in 1..6 : i - rabit2_page_layout(p) \in Upto(PartBytes[p])}
         last == Max(covering)
     IN  IF covering = {} THEN IF w = "triton" THEN 256 ELSE 0
         ELSE PartByte(w, last, i - rabit2_page_layout(last))]

Init ==
  /\ shape \in Shapes
  /\ \E k, v \in Seeds :
       /\ key = [x \in Tokens \X Heads \X Dims |-> Element(k, x[1], x[2], x[3])]
       /\ value = [x \in Tokens \X Heads \X Dims |-> Element(v, x[1], x[2], x[3])]
  /\ writer = "none" /\ page = <<>> /\ out = <<>>
  /\ status = "tensors"

encode_page(w) ==
  /\ status = "tensors"
  /\ writer' = w
  /\ IF Raises(w)
     THEN status' = "refused" /\ UNCHANGED page
     ELSE status' = "written" /\ page' = Assembled(w)
  /\ UNCHANGED <<shape, key, value, out>>
-----------------------------------------------------------------------------
\* Readers.

\* Primary value i of a metadata blob, times One: code * scale + min.  The
\* second-level arrays start behind `codes' code bytes.
MetaValue(part, codes, groups, i) ==
  LET o == rabit2_page_layout(part)
      g == i \div MetadataGroupSize
      Pair(at) == u8pair_to_bf16(page[at], page[at + 1])
  IN  page[o + i] * Pair(o + codes + 2 * groups + 2 * g) + Pair(o + codes + 2 * g)

\* decode_rabit2_page_ref: the blobs have padded code arrays.
RefMeta(part, i) ==
  MetaValue(part, MetaGroups(part) * MetadataGroupSize, MetaGroups(part), i)

\* unpack_lowbit_values at value d of the row that starts at byte o.
unpack_lowbit_values(o, d, bits) ==
  FoldSet(LAMBDA k, sum :
            LET p == d * bits + k
            IN  sum + ((page[o + (p \div 8)] \div 2^(p % 8)) % 2) * 2^k,
          0, 0..(bits - 1))

decode_rabit2_page_ref(t, h, d) ==
  LET row == t * num_kv_heads + h
      ki == (h * (block_size \div GroupSize) + t \div GroupSize) * head_size + d
      vi == row * v_groups + d \div GroupSize
  IN  [k |-> unpack_lowbit_values(row * k_packed_dim, d, 3) * RefMeta(4, ki) + RefMeta(3, ki),
       v |-> unpack_lowbit_values(rabit2_page_layout(2) + row * v_packed_dim, d, 2)
               * RefMeta(6, vi) + RefMeta(5, vi)]

\* Mutant: no second byte is read.
k_code_kernel_low(o, d) == (page[o + (3 * d) \div 8] \div 2^((3 * d) % 8)) % 8

\* The K code in the kernels: two bytes, the second masked past the row.
k_code_kernel(o, d) ==
  LET k_byte == (3 * d) \div 8
      lo == page[o + k_byte]
      hi == IF k_byte + 1 < k_packed_dim THEN page[o + k_byte + 1] ELSE 0
  IN  ((lo + hi * 256) \div 2^((3 * d) % 8)) % 8

\* Metadata in the kernels: unpadded counts.
KernelMeta(part, i) ==
  MetaValue(part, PrimaryCount(part), PrimaryCount(part) \div MetadataGroupSize, i)

\* What _rabit2_closed_page_partial_kernel computes scores and sums from.
closed_page_kernel(t, h, d) ==
  LET row == t * num_kv_heads + h
      k_idx == h * head_size + d
      v_idx == row * v_groups + d \div GroupSize
      vb == page[rabit2_page_layout(2) + row * v_packed_dim + d \div 4]
  IN  [k |-> k_code_kernel(row * k_packed_dim, d) * KernelMeta(4, k_idx)
               + KernelMeta(3, k_idx),
       v |-> ((vb \div 2^((d % 4) * 2)) % 4) * KernelMeta(6, v_idx)
               + KernelMeta(5, v_idx)]

read_page(reader) ==
  /\ status = "written"
  /\ IF reader = "kernel" /\ ~ stage3b1_validate_layout
     THEN status' = "refused" /\ UNCHANGED out
     ELSE /\ status' = "read"
          /\ out' = [x \in Tokens \X Heads \X Dims |->
                       IF reader = "kernel" THEN closed_page_kernel(x[1], x[2], x[3])
                       ELSE decode_rabit2_page_ref(x[1], x[2], x[3])]
  /\ UNCHANGED <<shape, key, value, writer, page>>

Next ==
  \/ \E w \in {"reference", "vectorized", "triton"} : encode_page(w)
  \/ \E reader \in {"reference", "kernel"} : read_page(reader)

Spec == Init /\ [][Next]_vars
-----------------------------------------------------------------------------
\* Every byte of a written page is a byte some part stored (the Triton encoder
\* starts from uninitialised memory), and a read returns every element.
TypeOK ==
  /\ shape \in Shapes
  /\ status \in {"tensors", "written", "read", "refused"}
  /\ writer \in {"none", "reference", "vectorized", "triton"}
  /\ page # <<>> => page \in [Upto(page_bytes) -> 0..255]
  /\ status = "read" => DOMAIN out = Tokens \X Heads \X Dims


\* The vectorized writer encodes "[pages, block, heads, dim] into exact opaque
\* physical pages": of pages of one K group, it refuses only those the reference
\* encoder refuses.  Its packer has a branch for rows that are not whole groups of
\* eight codes.
VectorizedWritesLikeReference ==
  status = "refused" /\ writer = "vectorized" /\ block_size = GroupSize =>
    Raises("reference")

\* decode_rabit2_page_ref and the closed-page kernel find the same values in a
\* page, although one unpacks bit by bit with padded metadata counts and the other
\* reads byte pairs with unpadded ones.
ReadersAgree ==
  status = "written" /\ stage3b1_validate_layout =>
    \A t \in Tokens, h \in Heads, d \in Dims :
      decode_rabit2_page_ref(t, h, d) = closed_page_kernel(t, h, d)

\* How far values read through second-level metadata may be off: half a code,
\* and BF16's half unit in the last place of scale and minimum.  S is the
\* metadata group.
MetaError(S, unit) ==
  LET range == Max(S) - Min(S)
  IN  cdiv(One * range, 510 * unit) + cdiv(One * range, 512 * unit)
        + cdiv(One * Min(S), 512 * unit)

\* What is read back is the element within half a quantization step, plus what
\* the compressed metadata adds.  Codes are computed from exact metadata and
\* read with rounded metadata, so this takes the whole chain to hold.
DecodedWithinStep ==
  status = "read" =>
    \A x \in DOMAIN out :
      LET t == x[1]  h == x[2]  d == x[3]
          k_groups == block_size \div GroupSize
          kg == ((h * k_groups + t \div GroupSize) * head_size + d) \div MetadataGroupSize
          vg == ((t * num_kv_heads + h) * v_groups + d \div GroupSize)
                  \div MetadataGroupSize
          Error(part, g) == MetaError(MetaGroup(part, g), Unit(part))
      IN  /\ Distance(out[x].k, One * key[x]) <=
               cdiv(One * Scale(KGroup(t, h, d), 7), 14) + 7 * Error(4, kg) + Error(3, kg)
          /\ Distance(out[x].v, One * value[x]) <=
               cdiv(One * Scale(VGroup(t, h, d \div GroupSize), 3), 6)
                 + 3 * Error(6, vg) + Error(5, vg)

\* A layout that the kernels accept is never refused by a writer or a reader,
\* so a page that closes in service can be stored and read.
AcceptedLayoutsWork == stage3b1_validate_layout => status # "refused"
=================================================================================
