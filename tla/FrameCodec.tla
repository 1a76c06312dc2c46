------------------------------ MODULE FrameCodec ------------------------------
(***************************************************************************)
(* The wire formats of a telemetry frame: Builder.Build against Decode     *)
(* (builder.go, header.go, decode.go), and the delta and zig-zag           *)
(* compression of a sample block (compress.go).  Samples are words of      *)
(* SampleBits bits, 32 in the code; a station or channel code is a         *)
(* sequence of bytes, told apart only as "nul", "space" and others.        *)
(***************************************************************************)
EXTENDS Integers, SequencesExt, FiniteSetsExt

CONSTANTS
  SampleBits,                   \* 32
  StationWidth, ChannelWidth,   \* 8 and 4 bytes
  MaxCount                      \* maxSampleCount

CodecParameters ==
  /\ {SampleBits, StationWidth, ChannelWidth} \subseteq Nat \ {0}
  /\ MaxCount \in Nat

MinSample == -(2 ^ (SampleBits - 1))
MaxSample == 2 ^ (SampleBits - 1) - 1
Sample == MinSample..MaxSample

\* int32 to uint32 and back
Word(v) == v % (2 ^ SampleBits)
SampleOf(w) == IF w > MaxSample THEN w - 2 ^ SampleBits ELSE w

\* strings.TrimSpace leaves nothing; "nul" is not a space.
Blank(code) == \A k \in 1..Len(code) : code[k] = "space"

\* encodeFixedField: left-aligned, padded with NUL bytes
FixedField(code, width) == [k \in 1..width |-> IF k <= Len(code) THEN code[k] ELSE "nul"]

\* Without the NUL bytes at the end.
TrimPadding(field) ==
  SubSeq(field, 1, Max({0} \cup {k \in 1..Len(field) : field[k] # "nul"}))

\* Builder.validate and the comparison of the counts in Build; rate is
\* whether the rate is positive and finite, what else it says is not changed.
Buildable(h, samples) ==
  /\ ~Blank(h.station) /\ Len(h.station) <= StationWidth
  /\ ~Blank(h.channel) /\ Len(h.channel) <= ChannelWidth
  /\ h.rate = "valid"
  /\ 0 <= h.count /\ h.count <= MaxCount
  /\ Len(samples) = h.count

\* Build: the frame, field by field.
Build(h, samples) ==
  [magic |-> TRUE, start |-> h.start, rate |-> h.rate, count |-> h.count,
   station |-> FixedField(h.station, StationWidth),
   channel |-> FixedField(h.channel, ChannelWidth),
   body |-> [k \in 1..Len(samples) |-> Word(samples[k])]]

\* ParseHeader and the length check of Decode accept the frame.
Decodable(frame) ==
  /\ frame.magic /\ frame.rate = "valid" /\ frame.count <= MaxCount
  /\ TrimPadding(frame.station) # <<>> /\ TrimPadding(frame.channel) # <<>>
  /\ Len(frame.body) >= frame.count

Decode(frame) ==
  [station |-> TrimPadding(frame.station), channel |-> TrimPadding(frame.channel),
   start |-> frame.start, rate |-> frame.rate,
   samples |-> [k \in 1..frame.count |-> SampleOf(frame.body[k])]]
-----------------------------------------------------------------------------
\* clampInt32
Clamp(v) == IF v < MinSample THEN MinSample ELSE IF v > MaxSample THEN MaxSample ELSE v

\* Differences narrowed to the width of a sample.
DeltaEncodeNarrow(samples) ==
  [k \in 1..Len(samples) |->
     IF k = 1 THEN samples[1] ELSE Clamp(samples[k] - samples[k - 1])]

\* Differences, the first sample leading; not narrowed, so they do not wrap.
DeltaEncode(samples) ==
  [k \in 1..Len(samples) |-> IF k = 1 THEN samples[1] ELSE samples[k] - samples[k - 1]]

\* The explicit first value stands for the first difference.
DeltaDecode(deltas, first) ==
  LET v[k \in 1..Len(deltas)] == IF k = 1 THEN first ELSE Clamp(v[k - 1] + deltas[k])
  IN  v

\* (n << 1) ^ (n >> 63)
ZigZagEncode(n) == IF n >= 0 THEN 2 * n ELSE -2 * n - 1

\* (u >> 1) ^ -(u & 1)
ZigZagDecode(u) == IF u % 2 = 0 THEN u \div 2 ELSE -(u \div 2) - 1

DeltaEncodeZigZag(samples) ==
  LET d == DeltaEncode(samples) IN [k \in 1..Len(d) |-> ZigZagEncode(d[k])]

DeltaDecodeZigZag(encoded, first) ==
  DeltaDecode([k \in 1..Len(encoded) |-> ZigZagDecode(encoded[k])], first)

MaxAbsDelta(deltas) ==
  Max({0} \cup {IF d < 0 THEN -d ELSE d : d \in Range(deltas)})

\* One bit for the sign and those of the largest magnitude.
BitWidth(deltas) == 1 + Min({b \in 0..(SampleBits + 1) : MaxAbsDelta(deltas) < 2 ^ b})
=============================================================================
