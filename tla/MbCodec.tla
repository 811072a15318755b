------------------------------- MODULE MbCodec -------------------------------
(***************************************************************************)
(* Frames byte by byte: mb_data_encap and mb_data_decap of mb_common.c,    *)
(* the MBAP header of mb_tcp.c, the address and checksum of mb_rtu.c, on   *)
(* hosts of either byte order and caches that may be too small. One        *)
(* exchange with a slave that reads frames as the protocol has them; its   *)
(* reply may come whole, damaged, cut short or twice.                      *)
(* Operators marked "Fault" are faulty variants of the ones after them;    *)
(* the specification does not use them.                                    *)
(***************************************************************************)
EXTENDS Integers, Sequences, SequencesExt, FiniteSets

CONSTANTS
  ValSize,   \* MAX_MBVALUE_SIZE: 2000
  CountMod,  \* n_byte is a UINT8_T: 256
  MaxSizes,  \* the sizes the cache may be created with
  Requests,  \* the MB_INFO_Ts callers send
  Data,      \* what the slave's registers and coils hold, per byte
  Units,     \* unit codes or slave addresses
  Codes,     \* transaction codes given out so far
  Damages    \* bound: what is added to a byte on the line

\* The values of UINT8_T and UINT16_T.
Unsigned(values) == 0..(values - 1)
Byte == Unsigned(256)
Word == Unsigned(65536)
ValIndex == 0..(ValSize - 1)
MBInfo == [code : Byte, err : Byte, reg : Word, n_reg : Word,
           n_byte : 0..(CountMod - 1), value : [ValIndex -> Byte]]
HeadSize == 7 \* sizeof(MBAP_HEAD_T)

ASSUME MbCodecAssumption ==
  /\ ValSize \in Nat /\ ValSize % 8 = 0 /\ CountMod \in 1..256 /\ CountMod <= ValSize
  /\ MaxSizes \subseteq {m \in Nat : m >= HeadSize}
  /\ Requests \subseteq MBInfo /\ Data \in Seq(Byte) \ {<<>>}
  /\ Units \subseteq Word /\ Codes \subseteq Word
  /\ Damages \subseteq 1..255

VARIABLES
  host,   \* "little" or "big"
  link,   \* "tcp" or "rtu"
  max,    \* max_data_len
  unit,   \* unit_code, a byte, or slaver_addr, of which the low byte is sent
  tcode,  \* transaction_code of the latest request
  rxAddr, \* slaver_addr of the latest reply
  info,   \* mb_info of the cache
  mine,   \* ghost: what the caller put there
  wire,   \* the frame sent
  reply,  \* ghost: the slave's answer to it
  got,    \* data of the cache after receiving
  ret     \* how far the exchange is, or what came out of it

vars == <<host, link, max, unit, tcode, rxAddr, info, mine, wire, reply, got, ret>>
-----------------------------------------------------------------------------
(* Words. is_big_endian is 1 on little-endian hosts.                        *)

Swap(w) == (w % 256) * 256 + w \div 256
Flag == host = "little"

\* Fault: the word goes out as it is.
NetWordRaw(w) == w
\* What l2b_endian and b2l_endian are used for.
NetWord(w) == IF Flag THEN Swap(w) ELSE w
LowFirst(w) == IF Flag THEN w ELSE Swap(w)

Stored(w) == IF host = "little" THEN <<w % 256, w \div 256>> ELSE <<w \div 256, w % 256>>
Loaded(a, b) == IF host = "little" THEN a + 256 * b ELSE 256 * a + b

\* Fault: the cache's size is not looked at.
SetByteUnchecked(c, b) == Append(c, b)
\* MBDATA_BYTE_SET and MBDATA_WORD_SET: what does not fit is left out.
SetByte(c, b) == IF Len(c) + 1 <= max THEN Append(c, b) ELSE c
SetWord(c, w) == IF Len(c) + 2 <= max THEN c \o Stored(w) ELSE c
-----------------------------------------------------------------------------
(* mb_data_encap.                                                          *)

Packed(v, i) ==
  LET On(j) == IF v[i * 8 + j] # 0 THEN 1 ELSE 0
  IN On(0) + 2 * On(1) + 4 * On(2) + 8 * On(3) + 16 * On(4) + 32 * On(5) + 64 * On(6) + 128 * On(7)

CoilBytes(n)     == ((n + 7) \div 8) % CountMod
RegisterBytes(n) == (n * 2) % CountMod

WithCount(c, x, bytes) ==
  FoldLeft(SetByte, SetByte(SetWord(c, NetWord(x.n_reg)), Len(bytes)), bytes)

Encap(c, x) ==
  LET head == SetWord(SetByte(c, x.code), NetWord(x.reg))
  IN CASE x.code \in 1..4 -> SetWord(head, NetWord(x.n_reg))
       [] x.code \in {5, 6} -> SetWord(head, LowFirst(Loaded(x.value[0], x.value[1])))
       [] x.code = 15 -> WithCount(head, x, [i \in 1..CoilBytes(x.n_reg) |-> Packed(x.value, i - 1)])
       [] x.code = 16 -> WithCount(head, x, [i \in 1..RegisterBytes(x.n_reg) |-> x.value[i - 1]])
       [] OTHER -> head

\* The bound of the packing loop is for bytes, not for the coils in them.
ReadsPastValue(x) == x.code = 15 /\ CoilBytes(x.n_reg) * 8 > ValSize
-----------------------------------------------------------------------------
(* mb_data_decap. d is the record and the read offset; MBDATA_BYTE_GET and  *)
(* MBDATA_WORD_GET leave both alone at the end of the data.                 *)

\* Fault: one byte behind the end is read.
FitsAlmost(f, d, n) == d.off + n <= Len(f) + 1
Fits(f, d, n) == d.off + n <= Len(f)

\* Behind what was received the cache is cleared.
At(f, k) == IF k < Len(f) THEN f[k + 1] ELSE 0
WordAt(f, k) == Loaded(At(f, k), At(f, k + 1))

GetByte(f, d, field) ==
  IF Fits(f, d, 1) THEN [d EXCEPT !.x[field] = At(f, d.off), !.off = @ + 1] ELSE d
GetCount(f, d) ==
  LET e == GetByte(f, d, "n_byte") IN [e EXCEPT !.x.n_byte = @ % CountMod]
GetNetWord(f, d, field) ==
  LET e == IF Fits(f, d, 2)
           THEN [d EXCEPT !.x[field] = WordAt(f, d.off), !.off = @ + 2] ELSE d
  IN [e EXCEPT !.x[field] = NetWord(@)]

\* n bytes at a time, into the same places of value.
GetValue(f, d, i, n) ==
  IF Fits(f, d, n)
  THEN [d EXCEPT !.x.value = [k \in ValIndex |->
                    IF k \in i..(i + n - 1) THEN At(f, d.off + k - i) ELSE @[k]],
                 !.off = @ + n]
  ELSE d
GetValues(f, d, count, n) ==
  FoldLeft(LAMBDA e, k : GetValue(f, e, (k - 1) * n, n), d,
           [k \in 1..((count + n - 1) \div n) |-> k])

Decap(f, d0) ==
  LET d == GetByte(f, d0, "code")
  IN IF d.x.code > 128 THEN GetByte(f, d, "err")
     ELSE CASE d.x.code \in {1, 2} ->
                 LET e == GetCount(f, d) IN GetValues(f, e, e.x.n_byte, 1)
            [] d.x.code \in {3, 4} ->
                 LET e == GetCount(f, d) IN GetValues(f, e, e.x.n_byte, 2)
            [] d.x.code \in {5, 6} -> GetValues(f, GetNetWord(f, d, "reg"), 2, 1)
            [] d.x.code \in {15, 16} -> GetNetWord(f, GetNetWord(f, d, "reg"), "n_reg")
            [] OTHER -> d
-----------------------------------------------------------------------------
(* crc_calc. A checksum is the set of its bits.                             *)

BitsOf(w) == {b \in 0..15 : (w \div 2^b) % 2 = 1}
WordOf(bits) == FoldLeft(LAMBDA w, b : 2 * w + (IF b \in bits THEN 1 ELSE 0), 0,
                         [k \in 1..16 |-> 16 - k])
Xor(a, b) == (a \ b) \union (b \ a)
Poly == {0, 13, 15} \* 0xA001
ShiftRight(crc) == {b - 1 : b \in crc \ {0}}

\* Fault: bits are shifted out without a trace.
CrcShift(crc) == ShiftRight(crc)
CrcStep(crc) == IF 0 \in crc THEN Xor(ShiftRight(crc), Poly) ELSE ShiftRight(crc)

\* The eight turns that a byte takes; a function, so that TLC evaluates what
\* comes before a byte before its turns.
CrcByte == [crc \in SUBSET (0..15) |->
              FoldLeft(LAMBDA c, k : CrcStep(c), crc, [k \in 1..8 |-> k])]

Crc(f) ==
  WordOf(FoldLeft(LAMBDA crc, byte : CrcByte[Xor(crc, BitsOf(byte))], 0..15, f))
-----------------------------------------------------------------------------
(* Frames: mb_tcp_send and mb_rtu_send.                                     *)

\* Fault: the unit code is not counted.
LengthShort(f) == Len(f) - HeadSize
LengthOf(f) == Len(f) - (HeadSize - 1)

\* The header is written before anything else, its length in the end.
TcpFrame(x, t) ==
  LET f == Encap(Stored(LowFirst(t)) \o <<0, 0, 0, 0, unit>>, x)
      n == Stored(NetWord(LengthOf(f)))
  IN [f EXCEPT ![5] = n[1], ![6] = n[2]]

RtuFrame(x) ==
  LET f == Encap(SetByte(<<>>, unit % 256), x) IN SetWord(f, LowFirst(Crc(f)))

Init ==
  /\ host \in {"little", "big"} /\ link \in {"tcp", "rtu"}
  /\ max \in MaxSizes /\ tcode \in Codes
  /\ unit \in Units /\ (link = "tcp" => unit \in Byte)
  /\ rxAddr \in {0, unit} \intersect Byte
  /\ info \in Requests /\ mine = info
  /\ wire = <<>> /\ reply = <<>> /\ got = <<>> /\ ret = "called"

Send ==
  /\ ret = "called"
  /\ IF ReadsPastValue(info)
     THEN ret' = "undefined" /\ UNCHANGED <<tcode, wire>>
     ELSE /\ ret' = "sent"
          /\ tcode' = IF link = "tcp" THEN (tcode + 1) % 65536 ELSE tcode
          /\ wire' = IF link = "tcp" THEN TcpFrame(info, tcode') ELSE RtuFrame(info)
  /\ UNCHANGED <<host, link, max, unit, rxAddr, info, mine, reply, got>>
-----------------------------------------------------------------------------
(* The slave, external. Words are high byte first, checksums low byte      *)
(* first.                                                                  *)

High(a, b) == 256 * a + b
Bytes(w) == <<w \div 256, w % 256>>
Malformed == [code |-> 0, reg |-> 0, n |-> 0, data |-> <<>>]

Weight == <<1, 2, 4, 8, 16, 32, 64, 128>>
Coils(bytes, n) ==
  [k \in 1..n |-> (bytes[(k - 1) \div 8 + 1] \div Weight[((k - 1) % 8) + 1]) % 2 = 1]

Understood(pdu) ==
  LET code == pdu[1]
      reg  == High(pdu[2], pdu[3])
      word == High(pdu[4], pdu[5])
      rest == SubSeq(pdu, 7, Len(pdu))
      Counted(n) == Len(pdu) = 6 + n /\ pdu[6] = n
  IN CASE Len(pdu) < 5 -> Malformed
       [] code \in 1..4 /\ Len(pdu) = 5 ->
            [code |-> code, reg |-> reg, n |-> word, data |-> <<>>]
       [] code \in {5, 6} /\ Len(pdu) = 5 ->
            [code |-> code, reg |-> reg, n |-> 1, data |-> <<pdu[4], pdu[5]>>]
       [] code = 15 /\ Len(pdu) > 6 /\ Counted((word + 7) \div 8) ->
            [code |-> code, reg |-> reg, n |-> word, data |-> Coils(rest, word)]
       [] code = 16 /\ Len(pdu) > 6 /\ Counted(word * 2) ->
            [code |-> code, reg |-> reg, n |-> word, data |-> rest]
       [] OTHER -> Malformed

CrcBytes(f) == LET crc == Crc(f) IN <<crc % 256, crc \div 256>>

\* The PDU of a frame, if it is one.
PduOf(f) ==
  IF link = "tcp"
  THEN IF /\ Len(f) > HeadSize /\ f[3] = 0 /\ f[4] = 0 /\ f[7] = unit
          /\ High(f[5], f[6]) = Len(f) - (HeadSize - 1)
       THEN SubSeq(f, HeadSize + 1, Len(f)) ELSE <<>>
  ELSE IF /\ Len(f) > 3 /\ f[1] = unit
          /\ SubSeq(f, Len(f) - 1, Len(f)) = CrcBytes(SubSeq(f, 1, Len(f) - 2))
       THEN SubSeq(f, 2, Len(f) - 2) ELSE <<>>

Heard == Understood(PduOf(wire))

\* A reply counts its bytes in one byte.
ByteCount(r) == IF r.code \in {1, 2} THEN (r.n + 7) \div 8 ELSE 2 * r.n
Held(r) == [k \in 1..ByteCount(r) |-> Data[((r.reg + k) % Len(Data)) + 1]]
Answer(r) ==
  CASE r.code \in 1..4 -> <<r.code, ByteCount(r)>> \o Held(r)
    [] r.code \in {5, 6} -> <<r.code>> \o Bytes(r.reg) \o r.data
    [] OTHER -> <<r.code>> \o Bytes(r.reg) \o Bytes(r.n)
Exception(r) == <<r.code + 128, 2>>

Framed(pdu) ==
  IF link = "tcp"
  THEN SubSeq(wire, 1, 4) \o Bytes(Len(pdu) + 1) \o <<unit>> \o pdu
  ELSE LET f == <<unit>> \o pdu IN f \o CrcBytes(f)

Serve ==
  /\ ret = "sent" /\ Heard # Malformed
  /\ \/ (Heard.code \in 1..4 => ByteCount(Heard) < CountMod) /\ reply' = Framed(Answer(Heard))
     \/ reply' = Framed(Exception(Heard))
  /\ ret' = "served"
  /\ UNCHANGED <<host, link, max, unit, tcode, rxAddr, info, mine, wire, got>>

\* Receiving stops when the cache is full.
Deliver(f) ==
  /\ got' = SubSeq(f, 1, IF Len(f) <= max THEN Len(f) ELSE max)
  /\ ret' = "received"
  /\ UNCHANGED <<host, link, max, unit, tcode, rxAddr, info, mine, wire, reply>>

Arrive ==
  /\ ret = "served"
  /\ \/ Deliver(reply)
     \/ \E k \in 0..(Len(reply) - 1) : Deliver(SubSeq(reply, 1, k))
     \/ Deliver(reply \o reply)
     \/ \E k \in DOMAIN reply, d \in Damages :
          link = "rtu" /\ Deliver([reply EXCEPT ![k] = (@ + d) % 256])
-----------------------------------------------------------------------------
(* mb_tcp_recv and mb_rtu_recv.                                             *)

\* Fault: only the received number is converted.
HeadMatchesSwapped(f) ==
  Swap(WordAt(f, 0)) = tcode /\ WordAt(f, 2) = 0 /\ At(f, 6) = unit

\* The header is compared as it is in memory.
HeadMatches(f) ==
  WordAt(f, 0) = tcode /\ WordAt(f, 2) = 0 /\ At(f, 6) = unit

TcpRecv ==
  /\ ret = "received" /\ link = "tcp"
  /\ IF HeadMatches(got)
     THEN ret' = "ok" /\ info' = Decap(got, [x |-> info, off |-> HeadSize]).x
     ELSE ret' = "error" /\ info' = info
  /\ UNCHANGED <<host, link, max, unit, tcode, rxAddr, mine, wire, reply, got>>

\* The checksum is looked for where the PDU ends, and is 0 behind the end.
CrcOfReply(f, d) == IF Fits(f, d, 2) THEN WordAt(f, d.off) ELSE 0

\* With less than two bytes the length of what is checked wraps around.
RtuRecv ==
  /\ ret = "received" /\ link = "rtu"
  /\ LET addr == IF got = <<>> THEN rxAddr ELSE got[1]
         d    == Decap(got, [x |-> info, off |-> IF got = <<>> THEN 0 ELSE 1])
     IN /\ rxAddr' = addr
        /\ info' = IF addr = unit THEN d.x ELSE info
        /\ ret' = CASE addr # unit -> "error"
                    [] Len(got) < 2 -> "undefined"
                    [] LowFirst(CrcOfReply(got, d)) # Crc(SubSeq(got, 1, Len(got) - 2)) -> "error"
                    [] OTHER -> "ok"
  /\ UNCHANGED <<host, link, max, unit, tcode, mine, wire, reply, got>>

Next == Send \/ Serve \/ Arrive \/ TcpRecv \/ RtuRecv
Spec == Init /\ [][Next]_vars
-----------------------------------------------------------------------------
(* Properties.                                                             *)

\* The cache is never filled beyond its size, whatever is sent or received.
TypeOK ==
  /\ info \in MBInfo
  /\ Len(wire) <= max /\ Len(got) <= max
  /\ \A k \in DOMAIN wire : wire[k] \in Byte
  /\ tcode \in Word /\ rxAddr \in Byte

NoByte == -1

\* What a record asks for. The values of single writes go out low byte first
\* on every host, those of multiple writes as they are in memory.
Asked ==
  LET v == [k \in Word |-> IF k \in ValIndex THEN mine.value[k] ELSE NoByte]
      n == mine.n_reg
      w == Loaded(v[0], v[1])
  IN [code |-> mine.code, reg |-> mine.reg, n |-> IF mine.code \in {5, 6} THEN 1 ELSE n,
      data |-> CASE mine.code \in 1..4 -> <<>>
                 [] mine.code \in {5, 6} -> <<w % 256, w \div 256>>
                 [] mine.code = 15 -> [k \in 1..n |-> v[k - 1] # 0]
                 [] OTHER -> [k \in 1..(2 * n) |-> v[k - 1]]]

\* Bytes of the frame a record should give.
Needed ==
  (IF link = "tcp" THEN HeadSize + 5 ELSE 8)
    + CASE mine.code = 15 -> 1 + (mine.n_reg + 7) \div 8
        [] mine.code = 16 -> 1 + 2 * mine.n_reg
        [] OTHER -> 0

\* The count of what is written is one byte, and the value has its size.
Countable ==
  /\ mine.code = 15 => (mine.n_reg + 7) \div 8 < CountMod /\ mine.n_reg \in 1..ValSize
  /\ mine.code = 16 => 2 * mine.n_reg < CountMod /\ mine.n_reg > 0

\* Any request that fits the cache and whose byte count fits n_byte is
\* understood as it was asked, on either link, from either kind of host, but
\* for an address of more than a byte, which is another slave's. One
\* that does not is cut or miscounted without an error, but never so that the
\* slave takes it for another request.
UnderstoodOrNotAtAll ==
  ret = "sent" =>
    /\ Heard \in {Malformed, Asked}
    /\ mine.code \in 1..6 \union {15, 16} /\ Countable /\ Needed <= max /\ unit \in Byte
         => Heard = Asked

\* A whole reply comes back as the slave gave it; only over TCP on a big-
\* endian host it is refused, as its number is compared unswapped.
SameBothWays(w) == w = Swap(w)
WholeReplyIsTaken ==
  got = reply /\ reply # <<>> /\ ret \in {"ok", "error"} =>
    IF link = "tcp" /\ host = "big" /\ ~SameBothWays(tcode) THEN ret = "error"
    ELSE /\ ret = "ok"
         /\ LET pdu == PduOf(reply)
            IN CASE pdu[1] > 128 -> info.code = pdu[1] /\ info.err = pdu[2]
                 [] pdu[1] \in 1..4 ->
                      /\ info.n_byte = pdu[2]
                      /\ \A k \in ValIndex :
                           info.value[k] = IF k < pdu[2] THEN pdu[k + 3] ELSE mine.value[k]
                 [] pdu[1] \in {5, 6} ->
                      <<info.reg, info.value[0], info.value[1]>> = <<mine.reg, pdu[4], pdu[5]>>
                 [] OTHER -> <<info.reg, info.n_reg>> = <<mine.reg, mine.n_reg>>

\* No damaged, cut or doubled frame passes the checksum, though where it is
\* looked for depends on what was decoded before it was checked.
DamagedIsRefused == link = "rtu" /\ ret = "ok" => got = reply

\* A reply that TCP delivers cut short is taken as if it were whole: what of
\* the value has come is the reply's, the rest is what the caller had there.
CutMixesOnlyOwn ==
  link = "tcp" /\ ret = "ok" /\ Len(got) < Len(reply) /\ mine.code \in 1..4
    => LET data == SubSeq(reply, HeadSize + 3, Len(reply))
       IN /\ info.code \in {mine.code, mine.code + 128}
          /\ \E have \in 0..Len(data) : \A k \in ValIndex :
               info.value[k] = IF k < have THEN data[k + 1] ELSE mine.value[k]
=============================================================================
