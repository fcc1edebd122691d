------------------------------- MODULE CdrBuffer -------------------------------
(***************************************************************************)
(* The serializer that mcap_converter writes its SignalGroup messages with *)
(* (namespace cdr of mcap_converter.cpp), and a reader of CDR: what the    *)
(* tools that open the output bag make of the bytes.                       *)
(***************************************************************************)
EXTENDS Integers, Sequences

CONSTANTS
    Base,           \* values of a byte (256)
    Codes(_),       \* the character codes of a string
    FloatBits(_)    \* the uint32 of the bits of a float

ASSUME BufferAssumption == Base \in Nat /\ Base >= 2

UInt16 == Base * Base
UInt32 == UInt16 * UInt16

--------------------------------------------------------------------------------
(* Mutant: nothing is aligned.                                             *)
align_not(data, a) == data

(* Zeros up to a multiple of a, counted with the encapsulation header.     *)
align(data, a) ==
    LET r == Len(data) % a
    IN  IF r = 0 THEN data ELSE data \o [k \in 1 .. a - r |-> 0]

(* The two lowest bytes, the lower one first.                              *)
Two(v) == <<v % Base, (v \div Base) % Base>>

write_uint16(data, v) == align(data, 2) \o Two(v)

write_uint32(data, v) == align(data, 4) \o Two(v) \o Two((v \div Base) \div Base)

(* static_cast<uint32_t>                                                   *)
write_int32(data, v) == write_uint32(data, v % UInt32)

write_float32(data, v) == write_uint32(data, FloatBits(v))

(* Mutant: the length leaves the null terminator out.                      *)
write_string_uncounted(data, s) == write_uint32(data, Len(Codes(s))) \o Codes(s) \o <<0>>

(* The length counts the null terminator.                                  *)
write_string(data, s) == write_uint32(data, Len(Codes(s)) + 1) \o Codes(s) \o <<0>>

(* Little-endian CDR.                                                      *)
Header == <<0, 1, 0, 0>>

write_signal(data, s) == write_float32(write_uint16(data, s.name_id), s.value)

write_signals(data, signals) ==
    LET out[k \in 0 .. Len(signals)] ==
            IF k = 0 THEN data ELSE write_signal(out[k - 1], signals[k])
    IN  out[Len(signals)]

serialize_signal_group(g, data) ==
    LET sec == write_int32(data \o Header, g.header.stamp.sec)
        nanosec == write_uint32(sec, g.header.stamp.nanosec)
        frame_id == write_string(nanosec, g.header.frame_id)
        domain == write_string(frame_id, g.domain)
    IN  write_signals(write_uint32(domain, Len(g.signals)), g.signals)

--------------------------------------------------------------------------------
(* The reader: offsets are counted from the end of the header, and a value   *)
(* of n bytes begins at the next multiple of n.                            *)
Body(bytes) == SubSeq(bytes, Len(Header) + 1, Len(bytes))

Begin(at, n) == n * ((at + n - 1) \div n)

ByteAt(body, at) == IF at + 1 \in DOMAIN body THEN body[at + 1] ELSE 0

Pair(body, at) == ByteAt(body, at) + Base * ByteAt(body, at + 1)

Unsigned16(body, at) == Pair(body, Begin(at, 2))

Unsigned32(body, at) ==
    Pair(body, Begin(at, 4)) + UInt16 * Pair(body, Begin(at, 4) + 2)

Signed(n) == IF n > UInt32 \div 2 - 1 THEN n - UInt32 ELSE n

(* A string without its null terminator, and where it ends.                *)
ReadString(body, at) ==
    LET length == Unsigned32(body, at)
        from == Begin(at, 4) + 4
    IN  [ string |-> [k \in 1 .. length - 1 |-> ByteAt(body, from + k - 1)],
          end |-> from + length ]

ReadSignal(body, read) ==
    [ end |-> Begin(Begin(read.end, 2) + 2, 4) + 4,
      signals |-> Append(read.signals,
                         [ name_id |-> Unsigned16(body, read.end),
                           value |-> Unsigned32(body, Begin(read.end, 2) + 2) ]) ]

ReadSignals(body, at, count) ==
    LET read[k \in 0 .. count] ==
            IF k = 0 THEN [end |-> at, signals |-> <<>>] ELSE ReadSignal(body, read[k - 1])
    IN  read[count]

(* The fields of the message in bytes, and how many bytes follow it.       *)
Read(bytes) ==
    LET body == Body(bytes)
        frame_id == ReadString(body, 8)
        domain == ReadString(body, frame_id.end)
        signals == ReadSignals(body, Begin(domain.end, 4) + 4, Unsigned32(body, domain.end))
    IN  [ message |-> [ header |-> [ stamp |-> [ sec |-> Signed(Unsigned32(body, 0)),
                                                 nanosec |-> Unsigned32(body, 4) ],
                                     frame_id |-> frame_id.string ],
                        domain |-> domain.string,
                        signals |-> signals.signals ],
          unread |-> Len(body) - signals.end ]

================================================================================
