------------------------------ MODULE Volumes ------------------------------
(***************************************************************************)
(* The way of a volume from the network to the ledger: the device fills a  *)
(* buffer, virtio_net_poll_rx looks for "38=" in it and reads the digits   *)
(* behind, a program makes something of the number, autarky_execute        *)
(* commits the result with 32 bits, and i32_to_dec_str writes it down.     *)
(*                                                                         *)
(* A packet is a FIX message: fields of a tag, "=", digits and the byte    *)
(* SOH.  It may be cut short; the buffer keeps what it held behind it.     *)
(* Bytes are what they are in the code, counted from fix_data.             *)
(***************************************************************************)
EXTENDS Integers, SequencesExt

CONSTANTS
  BUFFER_SIZE,   \* bytes of a buffer behind fix_data (256 - 26)
  Half,          \* 2^31: an int is one of -Half .. Half - 1
  Tags, Values,  \* of the fields that arrive: texts of digits
  Factors,       \* what programs multiply the volume by
  MaxPackets     \* bound: packets that arrive, and fields of one

SOH == 1
EQ == 61
Digits == 48..57
Text38 == <<51, 56>>  \* "38"
ASSUME HalfAssumption == Half \in Nat /\ Half > 9
ASSUME FieldAssumption == Tags \cup Values \subseteq Seq(Digits) /\ Factors \subseteq Int
ASSUME PacketAssumption == BUFFER_SIZE \in Nat /\ MaxPackets \in Nat

VARIABLES
  stage,    \* "empty", "arrived", "polled", "committed"
  packet,   \* the latest packet: its fields, and how many bytes were cut off
  pkt_len,  \* its length, from fix_data
  fix_data, \* the buffer
  factor,   \* of the program that polled
  volume,   \* what virtio_net_poll_rx returned
  result,   \* what the program computed
  vol_str,  \* the text of the volume in the receipt
  packets   \* ghost: packets arrived

volumesVars == <<stage, packet, pkt_len, fix_data, factor, volume, result, vol_str, packets>>

\* Two's complement: an overflow of int, which C leaves open, wraps in the build.
Wrap(n) == ((n + Half) % (2 * Half)) - Half

Fields == [tag : Tags, value : Values]
Packets == [fields : BoundedSeq(Fields, MaxPackets) \ {<<>>}, cut : 0..2]
FieldText(f) == f.tag \o <<EQ>> \o f.value \o <<SOH>>
Bytes(fields) ==
  LET upto[k \in 0..Len(fields)] == IF k = 0 THEN <<>> ELSE upto[k - 1] \o FieldText(fields[k])
  IN  upto[Len(fields)]
Sent(p) == SubSeq(Bytes(p.fields), 1, Len(Bytes(p.fields)) - p.cut)

\* The number that a text of digits stands for, in the int it is computed in.
Number(digits) == FoldLeft(LAMBDA n, d : Wrap(10 * n + (d - 48)), 0, digits)

VolumesInit ==
  /\ stage = "empty" /\ packets = 0 /\ packet = [fields |-> <<>>, cut |-> 0] /\ pkt_len = 0
  /\ fix_data = [i \in 1..BUFFER_SIZE |-> 0]
  /\ factor = 1 /\ volume = 0 /\ result = 0 /\ vol_str = <<>>

\* The device writes as much as the packet has, which fits in a buffer.
Arrive ==
  /\ stage \in {"empty", "committed"} /\ packets < MaxPackets
  /\ \E p \in Packets :
       LET bytes == Sent(p) IN
       /\ Len(bytes) <= BUFFER_SIZE
       /\ packet' = p /\ pkt_len' = Len(bytes)
       /\ fix_data' = [i \in 1..BUFFER_SIZE |->
                         IF i <= Len(bytes) THEN bytes[i] ELSE fix_data[i]]
  /\ stage' = "arrived" /\ packets' = packets + 1
  /\ UNCHANGED <<factor, volume, result, vol_str>>

-----------------------------------------------------------------------------
(* virtio_net_poll_rx *)

IsTag(i) == SubSeq(fix_data, i, i + 2) = Text38 \o <<EQ>>
Found == {i \in 1..(pkt_len - 2) : IsTag(i)}

\* The digits behind the tag, up to the first other byte, in the packet or not.
DigitsFrom(i) ==
  LET others == {j \in i..BUFFER_SIZE : fix_data[j] \notin Digits}
  IN  SubSeq(fix_data, i, IF others = {} THEN BUFFER_SIZE ELSE Min(others) - 1)

VolumeLast == IF Found = {} THEN 0 ELSE Number(DigitsFrom(Max(Found) + 3))  \* mutant: no break
VolumeIn == IF Found = {} THEN 0 ELSE Number(DigitsFrom(Min(Found) + 3))

\* Without a packet the poll returns 0; here it is one that finds one.
Poll ==
  /\ stage = "arrived" /\ stage' = "polled"
  /\ volume' = VolumeIn
  /\ \E f \in Factors : factor' = f
  /\ UNCHANGED <<packet, pkt_len, fix_data, result, vol_str, packets>>

-----------------------------------------------------------------------------
(* autarky_execute and watcher_commit_ledger *)

\* The digits of a number above zero, the way the loop finds them.
DigitsOf == [n \in 0..(Half - 1) |->
  LET digits[k \in 0..n] == IF k = 0 THEN <<>> ELSE Append(digits[k \div 10], 48 + (k % 10))
  IN  digits[n]]

\* mutant: the sign is forgotten
DecStrUnsigned(val) == IF val = 0 THEN <<48>> ELSE DigitsOf[IF val < 0 THEN 0 - val ELSE val]

\* The sign is taken off with a negation that the smallest int does not have.
i32_to_dec_str(val) ==
  LET m == IF val < 0 THEN Wrap(0 - val) ELSE val
  IN  IF val = 0 THEN <<48>>
      ELSE (IF val < 0 THEN <<45>> ELSE <<>>) \o (IF m > 0 THEN DigitsOf[m] ELSE <<>>)

Commit ==
  /\ stage = "polled" /\ stage' = "committed"
  /\ result' = volume * factor
  /\ vol_str' = i32_to_dec_str(Wrap(result'))
  /\ UNCHANGED <<packet, pkt_len, fix_data, factor, volume, packets>>

VolumesNext == Arrive \/ Poll \/ Commit
VolumesSpec == VolumesInit /\ [][VolumesNext]_volumesVars

-----------------------------------------------------------------------------
(* Properties *)

\* The first field of the message that is the order's quantity, or one that
\* the code takes for it: its tag ends with 38.
EndsIn38(tag) == Len(tag) >= 2 /\ tag[Len(tag) - 1] = 51 /\ tag[Len(tag)] = 56
Quantities == {i \in DOMAIN packet.fields : EndsIn38(packet.fields[i].tag)}

\* The volume of a whole message is that of its first quantity, 0 if it has
\* none, whatever an earlier packet left in the buffer.
VolumeOfMessage ==
  stage = "polled" /\ packet.cut = 0 =>
    volume = IF Quantities = {} THEN 0 ELSE Number(packet.fields[Min(Quantities)].value)

\* What a reader of the ledger takes the text for.
Decimal(digits) ==
  LET upto[k \in 0..Len(digits)] == IF k = 0 THEN 0 ELSE 10 * upto[k - 1] + (digits[k] - 48)
  IN  upto[Len(digits)]
ReadBack(text) ==
  IF text # <<>> /\ Head(text) = 45 THEN 0 - Decimal(Tail(text)) ELSE Decimal(text)

\* The receipt says what the program computed, if that fits in 32 bits and is
\* not the smallest such number, whose text is a sign alone.
ReceiptSaysResult ==
  stage = "committed" /\ result \in (1 - Half)..(Half - 1) => ReadBack(vol_str) = result
=============================================================================
