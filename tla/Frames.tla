-------------------------------- MODULE Frames --------------------------------
(* The frames of the object plane and Teranode's serialization of a block:        *)
(* encode/encode.go, tnwire/block.go and hashid/hashid.go as functions on         *)
(* sequences of bytes.  A u64 is its eight bytes, most significant first, so no   *)
(* value of a count is out of range; headers and hashes may be shorter than the   *)
(* real 80 and 32 bytes.                                                          *)
EXTENDS Integers, Sequences, Functions

CONSTANTS
  HeaderLen, HashLen,  \* bytes of a block header and of a hash
  Bodies,              \* block records: encode.Block
  Refused              \* stands for an error return

PrefixLen == HeaderLen + 24   \* objfmt.BlockPrefixSize
SubtreeHeader == HashLen + 8  \* objfmt.SubtreeHeaderSize
MinTeranode == HeaderLen + 12

Slice(b, off, n) == SubSeq(b, off + 1, off + n)
From(b, off) == SubSeq(b, off + 1, Len(b))

Reverse(b) == [i \in DOMAIN b |-> b[Len(b) + 1 - i]]
\* Everything in a list of slices, appended one by one.
Flatten(bs) ==
  LET first[n \in 0..Len(bs)] == IF n = 0 THEN <<>> ELSE first[n - 1] \o bs[n]
  IN  first[Len(bs)]

Zeros(n) == [i \in 1..n |-> 0]
U64(n) == Zeros(5) \o <<(n \div 256) \div 256, (n \div 256) % 256, n % 256>>
MaxLen == 16777216   \* lengths of lists are below 2^24
\* int(v): a value that is no such length counts as MaxLen, more than any object has.
IntOf(v) ==
  IF \E i \in 1..5 : v[i] # 0 THEN MaxLen ELSE (v[6] * 256 + v[7]) * 256 + v[8]

\* objfmt.TxSize stands in for the walk over a transaction: here its first byte says
\* how many follow.  0 is its error.
TxSize(b) == IF b # <<>> /\ b[1] < Len(b) THEN b[1] + 1 ELSE 0

ZeroRoot == Zeros(HashLen)

Byte == 0..255
Hash == [1..HashLen -> Byte]
Count == [1..8 -> Byte]

\* A block as encode.Block holds it: its coinbase is one transaction, which has at
\* least a version, two counts and a lock time, and the lengths of its lists are
\* below MaxLen.
Block144 ==
  {b \in [header : [1..HeaderLen -> Byte], txCount : Count, size : Count, roots : Seq(Hash),
          coinbase : Seq(Byte), height : Count, bump : Seq(Byte)] :
     /\ TxSize(b.coinbase) = Len(b.coinbase) /\ Len(b.coinbase) >= 10
     /\ Len(b.roots) < MaxLen /\ Len(b.bump) < MaxLen}

ASSUME FramesAssumption ==
  /\ HeaderLen \in Nat /\ HashLen \in Nat \ {0}
  /\ \A b \in Bodies : b \in Block144 /\ ZeroRoot \notin Range(b.roots)
  /\ Refused \notin Seq(Byte) /\ Refused \notin Seq(Hash)

-----------------------------------------------------------------------------
(* CompactSize. *)

\* Mutant: 0xfd is written as a single byte.
AppendVarIntShort(v) ==
  LET Below(n) == Slice(v, 0, 8 - n) = Zeros(8 - n)
  IN  IF Below(1) /\ v[8] <= 253 THEN <<v[8]>>
      ELSE IF Below(2) THEN <<253>> \o Reverse(From(v, 6))
      ELSE IF Below(4) THEN <<254>> \o Reverse(From(v, 4))
      ELSE <<255>> \o Reverse(v)

AppendVarInt(v) ==
  LET Below(n) == Slice(v, 0, 8 - n) = Zeros(8 - n)   \* v fits into n bytes
  IN  IF Below(1) /\ v[8] < 253 THEN <<v[8]>>
      ELSE IF Below(2) THEN <<253>> \o Reverse(From(v, 6))
      ELSE IF Below(4) THEN <<254>> \o Reverse(From(v, 4))
      ELSE <<255>> \o Reverse(v)

\* How many bytes the first byte of a varint announces.
Following(lead) == CASE lead = 253 -> 2 [] lead = 254 -> 4 [] lead = 255 -> 8 [] OTHER -> 0

\* The value of a first byte and of the bytes w that it announces.
Decoded(lead, w) ==
  IF Following(lead) = 0 THEN Zeros(7) \o <<lead>> ELSE Zeros(8 - Following(lead)) \o Reverse(w)

\* The value at off and the offset behind it, 0 when the bytes are too short.
ReadVarInt(b, off) ==
  LET lead == b[off + 1]
      n == Following(lead)
  IN  IF off >= Len(b) \/ off + 1 + n > Len(b)
      THEN [v |-> Zeros(8), next |-> 0]
      ELSE [v |-> Decoded(lead, Slice(b, off + 1, n)), next |-> off + 1 + n]

-----------------------------------------------------------------------------
(* The push frames. *)

EncodeSubtree(root, nodes) ==
  IF nodes = <<>> THEN Refused
  ELSE root \o U64(Len(nodes)) \o Flatten(nodes)

\* The layout of a BRC-144 frame.
BlockFrame(b) ==
  b.header \o b.txCount \o b.size \o U64(Len(b.roots)) \o Flatten(b.roots)
    \o b.coinbase \o b.height \o U64(Len(b.bump)) \o b.bump

EncodeBlock(b) ==
  IF \/ Len(b.header) # HeaderLen
     \/ b.coinbase = <<>> \/ TxSize(b.coinbase) # Len(b.coinbase)
     \/ ZeroRoot \in Range(b.roots)
  THEN Refused
  ELSE BlockFrame(b)

\* Where the parts of a block frame lie.
RootCount(obj) == IntOf(Slice(obj, HeaderLen + 16, 8))
RootsEnd(obj) == PrefixLen + RootCount(obj) * HashLen

SubtreeRootsOf(obj) ==
  IF Len(obj) < PrefixLen \/ RootsEnd(obj) > Len(obj) THEN Refused
  ELSE [i \in 1..RootCount(obj) |-> Slice(obj, PrefixLen + (i - 1) * HashLen, HashLen)]

CoinbaseOf(obj) ==
  IF Len(obj) < PrefixLen \/ RootsEnd(obj) > Len(obj) THEN Refused
  ELSE LET n == TxSize(From(obj, RootsEnd(obj)))
       IN  IF n = 0 THEN Refused ELSE Slice(obj, RootsEnd(obj), n)

\* The height follows the coinbase, then the length of the BUMP and the BUMP.
HeightAt(obj) == RootsEnd(obj) + Len(CoinbaseOf(obj))
BumpLen(obj) == IntOf(Slice(obj, HeightAt(obj) + 8, 8))

\* The counts become varints, everything else is copied.
Converted(obj) ==
  Slice(obj, 0, HeaderLen)
    \o AppendVarInt(Slice(obj, HeaderLen, 8)) \o AppendVarInt(Slice(obj, HeaderLen + 8, 8))
    \o AppendVarInt(U64(Len(SubtreeRootsOf(obj)))) \o Flatten(SubtreeRootsOf(obj))
    \o CoinbaseOf(obj) \o AppendVarInt(Slice(obj, HeightAt(obj), 8))
    \o AppendVarInt(U64(BumpLen(obj))) \o From(obj, HeightAt(obj) + 16)

\* Mutant: the frame may end within its BUMP.
ToTeranodeLax(obj) ==
  IF \/ SubtreeRootsOf(obj) = Refused \/ CoinbaseOf(obj) = Refused
     \/ ZeroRoot \in Range(SubtreeRootsOf(obj))
     \/ HeightAt(obj) + 16 > Len(obj)
  THEN Refused
  ELSE Converted(obj)

\* BlockSize first checks that the frame is as long as its own lengths say.
ToTeranode(obj) ==
  IF \/ SubtreeRootsOf(obj) = Refused \/ CoinbaseOf(obj) = Refused
     \/ ZeroRoot \in Range(SubtreeRootsOf(obj))
     \/ HeightAt(obj) + 16 > Len(obj)
     \/ HeightAt(obj) + 16 + BumpLen(obj) # Len(obj)
  THEN Refused
  ELSE Converted(obj)

\* What is read of a Teranode block, one after the other.
TxCount(b) == ReadVarInt(b, HeaderLen)
SizeInBytes(b) == ReadVarInt(b, TxCount(b).next)
SubtreeCount(b) == ReadVarInt(b, SizeInBytes(b).next)
CoinbaseAt(b) == SubtreeCount(b).next + IntOf(SubtreeCount(b).v) * HashLen
cbLen(b) == TxSize(From(b, CoinbaseAt(b)))
Height(b) == ReadVarInt(b, CoinbaseAt(b) + cbLen(b))
BumpLength(b) == ReadVarInt(b, Height(b).next)

\* A body that ends right behind the height has no BUMP.
CoinbaseBUMP(b) ==
  IF Height(b).next = Len(b) THEN <<>> ELSE Slice(b, BumpLength(b).next, IntOf(BumpLength(b).v))

FromTeranode(b) ==
  IF \/ Len(b) < MinTeranode
     \/ TxCount(b).next = 0 \/ SizeInBytes(b).next = 0 \/ SubtreeCount(b).next = 0
     \/ CoinbaseAt(b) > Len(b) \/ cbLen(b) = 0 \/ Height(b).next = 0
     \/ /\ Height(b).next < Len(b)
        /\ BumpLength(b).next = 0 \/ BumpLength(b).next + IntOf(BumpLength(b).v) > Len(b)
  THEN Refused
  ELSE [header |-> Slice(b, 0, HeaderLen), txCount |-> TxCount(b).v, size |-> SizeInBytes(b).v,
        roots |-> [i \in 1..IntOf(SubtreeCount(b).v) |->
                     Slice(b, SubtreeCount(b).next + (i - 1) * HashLen, HashLen)],
        coinbase |-> Slice(b, CoinbaseAt(b), cbLen(b)), height |-> Height(b).v,
        bump |-> CoinbaseBUMP(b)]

-----------------------------------------------------------------------------
(* Hashes: wire order inside, reversed in an announcement and in a URL. *)

Display(h) == Reverse(h)
ParseDisplay(s) == IF Len(s) # HashLen THEN Refused ELSE Reverse(s)

-----------------------------------------------------------------------------
(* What is asked of the codecs, over all Bodies; Serving states it of the plane that *)
(* answers with them.                                                              *)

\* A block survives every path between its forms: frame to Teranode and back, with
\* its roots and its coinbase read off the frame alone.
Survives(b) ==
  LET frame == EncodeBlock(b)
      wire == ToTeranode(frame)
  IN  /\ FromTeranode(wire) = b
      /\ EncodeBlock(FromTeranode(wire)) = frame
      /\ SubtreeRootsOf(frame) = b.roots
      /\ CoinbaseOf(frame) = b.coinbase

\* A frame that lost its end, anywhere, is not converted; neither is a Teranode block
\* that did, except for the cut right behind the height that the format allows, which
\* costs the BUMP and nothing else.
CutsRefused(b) ==
  LET frame == EncodeBlock(b)
      wire == ToTeranode(frame)
      noBump == Len(wire) - Len(AppendVarInt(U64(Len(b.bump)))) - Len(b.bump)
  IN  /\ \A n \in 0..(Len(frame) - 1) : ToTeranode(Slice(frame, 0, n)) = Refused
      /\ \A n \in 0..(Len(wire) - 1) :
           FromTeranode(Slice(wire, 0, n)) =
             IF n = noBump THEN [b EXCEPT !.bump = <<>>] ELSE Refused

AllSurvive == \A b \in Bodies : Survives(b)
AllCutsRefused == \A b \in Bodies : CutsRefused(b)
================================================================================
