------------------------------- MODULE Consumers -------------------------------
(***************************************************************************)
(* The example programs that validate once, at a boundary, and then use    *)
(* what was validated without a check of their own: packet_parsing,        *)
(* narrow_exact_wire_fields, index_below_fixed_tables,                     *)
(* non_empty_processing, fixed_block_processing, set_once_configuration    *)
(* and the planning of nonzero_scaling.  A client gives a boundary         *)
(* something raw, keeps the carrier that it returns, and calls consumers   *)
(* with it, in any order and any number of times.                          *)
(*                                                                         *)
(* A byte has Base values, so that small numbers take several bytes.       *)
(*                                                                         *)
(* A definition Mutant_x is x with a fault, and is used by no other one.   *)
(***************************************************************************)
EXTENDS Integers, SequencesExt

CONSTANTS
  Base,                                     \* values of a byte
  header_size, packet_minimum, body_offset, \* of packet_parsing
  block_size,                               \* of fixed_block_processing
  Datagrams,      \* sequences of bytes that arrive
  Readings,       \* sequences of readings that are to be summarised
  Payloads,       \* sizes of payloads that are to be sent, and of input streams
  SequenceNumbers,
  fields,         \* the table of fields: their names and widths, in bytes
  opcode_names,
  RawIndices,     \* indices from outside, into either table
  None

ASSUME ConsumersAssumption ==
  /\ Base \in Nat \ {0, 1}
  /\ header_size \in Nat \ {0, 1} /\ packet_minimum \in Nat
  /\ body_offset \in 1 .. packet_minimum - 1 /\ header_size <= packet_minimum
  /\ block_size \in Nat \ {0}
  /\ Datagrams \subseteq Seq(0 .. Base - 1) /\ Readings \subseteq Seq(Int)
  /\ Payloads \subseteq Nat /\ SequenceNumbers \subseteq Int /\ RawIndices \subseteq Nat
  /\ fields \in Seq([name : STRING, width : Nat \ {0}]) /\ opcode_names \in Seq(STRING)
  /\ None \notin Datagrams \cup Readings \cup SequenceNumbers \cup RawIndices
  /\ None \notin STRING \cup [payload_length : Nat, sequence_number : Nat]

VARIABLES
  raw,      \* history: what a boundary was given last, and what it validates
  carrier,  \* what it has returned: a validated value, or None
  answer    \* what the latest consumer since has returned

consumer_vars == <<raw, carrier, answer>>

Nothing == [what |-> "nothing", given |-> None]
NoAnswer == [by |-> "nobody", is |-> None]

-----------------------------------------------------------------------------
(* The boundaries.                                                         *)

Boundary(what, given, validated) ==
  /\ raw' = [what |-> what, given |-> given]
  /\ carrier' = validated
  /\ answer' = NoAnswer

\* at_least_span<T, N>::try_from; the conversion from a fixed extent accepts too.
at_least(n, view) == IF Len(view) < n THEN None ELSE view

ReceivePacket == \E datagram \in Datagrams :
  \/ Boundary("packet", datagram, at_least(header_size, datagram))
  \/ Boundary("long packet", datagram, at_least(packet_minimum, datagram))

\* checked_span: the exact size, in the extent of a std::span.
ReceiveHeader == \E datagram \in Datagrams :
  Boundary("header", datagram, IF Len(datagram) # header_size THEN None ELSE datagram)

\* block_span::try_from; no bytes are no blocks, and accepted.
Decrypt == \E ciphertext \in Datagrams :
  Boundary("blocks", ciphertext, IF Len(ciphertext) % block_size # 0 THEN None ELSE ciphertext)

Measure == \E readings \in Readings : Boundary("readings", readings, at_least(1, readings))

Index == \E raw_index \in RawIndices :
  Boundary("index", raw_index, IF raw_index < Len(fields) THEN raw_index ELSE None)

\* The values of n bytes.
power(n) == <<1, Base, Base * Base, Base * Base * Base, Base * Base * Base * Base>>[n + 1]

\* narrow_exact to an unsigned field of that many bytes.
fits(number, bytes) == number \in 0 .. power(bytes) - 1

\* Takes the length as it comes.
Mutant_make_header(length, sequence) ==
  IF ~fits(sequence, 4) THEN None
  ELSE [payload_length |-> length % power(2), sequence_number |-> sequence]
make_header(length, sequence) ==
  IF ~(fits(length, 2) /\ fits(sequence, 4)) THEN None
  ELSE [payload_length |-> length, sequence_number |-> sequence]

MakeHeader == \E length \in Payloads, sequence \in SequenceNumbers :
  Boundary("record", <<length, sequence>>, make_header(length, sequence))

\* A set_once that a program tries to initialise twice.
try_emplace(slot, workers) == IF slot = None THEN workers ELSE slot

Configure == \E first, second \in SequenceNumbers :
  Boundary("configuration", <<first, second>>, try_emplace(try_emplace(None, first), second))

\* nonzero<T>::try_from, of a factor that T can hold.
parse_config(raw_decimation) == IF raw_decimation = 0 THEN None ELSE raw_decimation

ParseConfig == \E raw_decimation \in RawIndices :
  Boundary("decimation", raw_decimation, parse_config(raw_decimation))

\* lookup_opcode has one consumer only, and checks locally; it returns the name.
LookupOpcode == \E raw_index \in RawIndices :
  Boundary("opcode", raw_index,
           IF raw_index >= Len(opcode_names) THEN None ELSE opcode_names[raw_index + 1])

-----------------------------------------------------------------------------
(* The consumers.                                                          *)

Answer(what, by, result) ==
  /\ raw.what \in what /\ carrier # None
  /\ answer' = [by |-> by, is |-> result]
  /\ UNCHANGED <<raw, carrier>>

\* header[0] << 8 | header[1]
read_message_type(header) == header[1] * Base + header[2]

ReadHeader == Answer({"header"}, "read_message_type", read_message_type(carrier))

\* packet.prefix() and packet.rest().
ParsePacket == Answer({"packet", "long packet"}, "parse_packet",
  [type |-> read_message_type(SubSeq(carrier, 1, header_size)),
   payload |-> SubSeq(carrier, header_size + 1, Len(carrier))])

\* packet.subspan<body_offset>() for process_body, whose parameter has the
\* remaining minimum in its type.
ProcessPacket == Answer({"long packet"}, "process_packet",
  [minimum |-> packet_minimum - body_offset, size |-> Len(carrier) - body_offset])

\* A loop that adds up numbers, after each iteration.
running(numbers) ==
  LET sum[n \in 0 .. Len(numbers)] == IF n = 0 THEN 0 ELSE sum[n - 1] + numbers[n]
  IN  sum

checksum(bytes) == running(bytes)[Len(bytes)]
checksum_blocks(blocks) ==
  [k \in 1 .. Len(blocks) \div block_size |->
     checksum(SubSeq(blocks, (k - 1) * block_size + 1, k * block_size))]

ChecksumBlocks == Answer({"blocks"}, "checksum_blocks", checksum_blocks(carrier))

\* front() seeds the comparison.
compared(readings) ==
  LET seen[n \in 0 .. Len(readings)] ==
        IF n = 0 THEN [lowest |-> Head(readings), highest |-> Head(readings)]
        ELSE [lowest |-> IF readings[n] < seen[n - 1].lowest THEN readings[n]
                         ELSE seen[n - 1].lowest,
              highest |-> IF readings[n] > seen[n - 1].highest THEN readings[n]
                          ELSE seen[n - 1].highest]
  IN  seen

summarize(readings) == compared(readings)[Len(readings)]

ReportReadings == Answer({"readings"}, "report",
  [range |-> summarize(carrier), latest |-> Last(carrier)])

field_name(layout, index) == layout[index + 1].name
field_offset(layout, index) == running([i \in DOMAIN layout |-> layout[i].width])[index]

DecodeField == Answer({"index"}, "decode_field",
  [name |-> field_name(fields, carrier), offset |-> field_offset(fields, carrier)])

\* value >> 8 * n & 0xFF
byte(value, n) == (value \div power(n)) % Base
encode(header) ==
  <<byte(header.payload_length, 1), byte(header.payload_length, 0),
    byte(header.sequence_number, 3), byte(header.sequence_number, 2),
    byte(header.sequence_number, 1), byte(header.sequence_number, 0)>>

Encode == Answer({"record"}, "encode", encode(carrier))

ConfiguredWorkers == Answer({"configuration"}, "configured_workers", carrier)

\* The output that is planned for a stream: one element for each full step.
decimated_length(input_length, decimation) == input_length \div decimation

Plan == \E input_length \in Payloads : Answer({"decimation"}, "decimated_length",
  [input |-> input_length, output |-> decimated_length(input_length, carrier)])

ConsumersInit == raw = Nothing /\ carrier = None /\ answer = NoAnswer

ConsumersNext ==
  \/ ReceivePacket \/ ReceiveHeader \/ Decrypt \/ Measure \/ Index \/ MakeHeader \/ LookupOpcode
  \/ Configure \/ ParseConfig
  \/ ReadHeader \/ ParsePacket \/ ProcessPacket \/ ReportReadings \/ DecodeField \/ Encode
  \/ ConfiguredWorkers \/ Plan \/ ChecksumBlocks

ConsumersSpec == ConsumersInit /\ [][ConsumersNext]_consumer_vars

-----------------------------------------------------------------------------
(* Properties.                                                             *)

\* What each program promises of what it was given, beyond its carrier.
spelled(bytes) == checksum([i \in 1 .. Len(bytes) |-> bytes[i] * power(Len(bytes) - i)])

laid_out ==
  LET bytes[n \in 0 .. Len(fields)] ==
        IF n = 0 THEN << >> ELSE bytes[n - 1] \o [b \in 1 .. fields[n].width |-> n]
  IN  bytes
record_bytes == laid_out[Len(fields)]

Accepted(what, given) ==
  CASE what = "packet"      -> Len(given) >= header_size
    [] what = "long packet" -> Len(given) >= packet_minimum
    [] what = "header"      -> Len(given) = header_size
    [] what = "readings"    -> given # << >>
    [] what = "index"       -> given < Len(fields)
    [] what = "record"      -> given[1] \in 0 .. power(2) - 1 /\ given[2] \in 0 .. power(4) - 1
    [] what = "opcode"      -> given < Len(opcode_names)
    [] what = "blocks"      -> Len(given) % block_size = 0
    [] what = "configuration" -> TRUE
    [] what = "decimation"  -> given # 0

Right(by, given, is) ==
  CASE by = "read_message_type" -> is = spelled(SubSeq(given, 1, 2))
    [] by = "parse_packet"   -> /\ is.type = spelled(SubSeq(given, 1, 2))
                                /\ SubSeq(given, 1, header_size) \o is.payload = given
    [] by = "process_packet" -> is.size >= is.minimum /\ is.size + body_offset = Len(given)
    [] by = "report"         -> /\ is.latest = given[Len(given)]
                                /\ {is.range.lowest, is.range.highest} \subseteq ToSet(given)
                                /\ \A reading \in ToSet(given) :
                                     reading \in is.range.lowest .. is.range.highest
    [] by = "decode_field"   -> /\ is.name = fields[given + 1].name
                                /\ record_bytes[is.offset + 1] = given + 1
                                /\ is.offset > 0 => record_bytes[is.offset] = given
    [] by = "encode"         -> <<spelled(SubSeq(is, 1, 2)), spelled(SubSeq(is, 3, 6))>> = given
    [] by = "checksum_blocks" -> /\ Len(is) * block_size = Len(given)
                                 /\ checksum(is) = checksum(given)
    [] by = "configured_workers" -> is = given[1]
    [] by = "decimated_length"   -> is.input \in is.output * given .. (is.output + 1) * given - 1

\* A boundary lets pass exactly what meets its condition, and what consumers say
\* without a check of their own is true of what came in: the encoded bytes spell
\* the program's numbers, a decoded offset is the field's first byte, header and
\* payload make up the datagram, a second configuration changes nothing.
ResultsRight ==
  raw # Nothing =>
    /\ carrier # None <=> Accepted(raw.what, raw.given)
    /\ answer # NoAnswer => Right(answer.by, raw.given, answer.is)

=============================================================================
