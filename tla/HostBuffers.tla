------------------------------- MODULE HostBuffers -------------------------------
(***************************************************************************)
(* Node's Buffer, as module-specifiers.ts uses it: the resolvers apply the *)
(* compiling host's own operations, and running the program applies the    *)
(* target's.  No stands for a RangeError or TypeError.  A byte is the      *)
(* place of its character in Alphabet, so every text is a sequence of      *)
(* single bytes.                                                           *)
(***************************************************************************)
EXTENDS JsSyntax

Bytes(bs) == [k |-> "buffer", bs |-> bs]
Byte(n) == n % 256

Digits == <<"0", "1", "2", "3", "4", "5", "6", "7", "8", "9", "a", "b", "c", "d", "e", "f">>
IsHex(s) == Len(s) % 2 = 0 /\ \A i \in 1 .. Len(s) : \E d \in DOMAIN Digits : Digits[d] = Lower(SubSeq(s, i, i))
Digit(c) == (CHOOSE d \in DOMAIN Digits : Digits[d] = Lower(c)) - 1
Decoded(s, encoding) ==        \* Buffer.from(s, encoding); what is no hex digit ends a hex text
  IF encoding = "hex"
  THEN LET n == Most({m \in 0 .. Len(s) \div 2 : IsHex(SubSeq(s, 1, 2 * m))}, 0)
       IN  Bytes([i \in 1 .. n |-> 16 * Digit(SubSeq(s, 2 * i - 1, 2 * i - 1)) + Digit(SubSeq(s, 2 * i, 2 * i))])
  ELSE Bytes([i \in 1 .. Len(s) |-> Code(SubSeq(s, i, i))])
Encoded(b, encoding) ==        \* b.toString(encoding)
  Str(Concat([i \in DOMAIN b.bs |->
        IF encoding = "hex" THEN Digits[(b.bs[i] \div 16) + 1] \o Digits[(b.bs[i] % 16) + 1]
        ELSE IF b.bs[i] \in DOMAIN Alphabet THEN Alphabet[b.bs[i]] ELSE NonAscii]))

Fixed == [readUInt8 |-> 1, readInt8 |-> 1, readUInt16LE |-> 2, readUInt16BE |-> 2, readInt16LE |-> 2, readUInt32LE |-> 4,
          writeUInt8 |-> 1, writeInt8 |-> 1, writeUInt16LE |-> 2, writeUInt16BE |-> 2, writeInt16LE |-> 2, writeUInt32LE |-> 4,
          readFloatLE |-> 4, readDoubleLE |-> 8, writeFloatLE |-> 4, writeDoubleLE |-> 8]
Unsigned == {"readUInt8", "readUInt16LE", "readUInt16BE", "readUInt32LE", "writeUInt8", "writeUInt16LE", "writeUInt16BE", "writeUInt32LE"}
Fits(m, n) ==                  \* the values a fixed-size write accepts
  CASE m \in {"writeFloatLE", "writeDoubleLE"} -> TRUE
    [] m \in Unsigned -> n >= 0 /\ (Fixed[m] = 4 \/ n < 256 ^ Fixed[m])
    [] OTHER -> 2 * n < 256 ^ Fixed[m] /\ -2 * n <= 256 ^ Fixed[m]
FixedRead(m, b, v) ==
  LET at == Integer(v, 0)
      n == Fixed[m]
      big == m = "readUInt16BE"
      part(i) == b.bs[at + (IF big THEN n + 1 - i ELSE i)] * 256 ^ (i - 1)
      sum == FoldLeft(LAMBDA a, i : a + part(i), 0, [i \in 1 .. n |-> i])
  IN CASE at < 0 \/ at + n > Len(b.bs) -> No
       [] m \in {"readFloatLE", "readDoubleLE"} -> IF \A i \in 1 .. n : b.bs[at + i] = 0 THEN Num(0) ELSE No
       [] m \in Unsigned \/ 2 * sum < 256 ^ n -> Num(sum)
       [] OTHER -> Num(sum - 256 ^ n)

Within(v, n) == v.k = "undefined" \/ Integer(v, n) \in 0 .. n
Cut(b, start, end) ==
  LET n == Len(b.bs)
      lo == From(Integer(start, n), n)
      hi == IF end.k = "undefined" THEN n ELSE From(Integer(end, n), n)
  IN  Bytes(SubSeq(b.bs, lo + 1, hi))
Order(b, c) ==                 \* Buffer.compare
  LET less(x, y) == \E i \in 0 .. Len(x.bs) : /\ i < Len(y.bs) /\ SubSeq(x.bs, 1, i) = SubSeq(y.bs, 1, i)
                                              /\ i = Len(x.bs) \/ x.bs[i + 1] < y.bs[i + 1]
  IN  IF less(b, c) THEN -1 ELSE IF less(c, b) THEN 1 ELSE 0
Found(b, c) == {i \in 0 .. Len(b.bs) : i + Len(c.bs) <= Len(b.bs) /\ SubSeq(b.bs, i + 1, i + Len(c.bs)) = c.bs}
Needle(v, encoding) ==
  CASE v.k = "buffer" -> v [] v.k = "str" -> Decoded(v.s, IF encoding.k = "undefined" THEN "utf8" ELSE encoding.s)
    [] OTHER -> Bytes(<<Byte(Whole(v))>>)
Exchanged(bs, n) == [i \in DOMAIN bs |-> bs[((i - 1) \div n) * n + n - ((i - 1) % n)]]

(* b[m](as), where as has one value for every parameter, Undef if absent.  *)
HostBuffer(m, b, as) ==
  LET n == Len(b.bs)
      start == IF Len(as) < 2 THEN 0 ELSE From(Integer(as[2], n + 1), n)
      found == Found(b, Needle(as[1], as[3]))
      room == Len(as[1].bs) - Integer(as[2], n)
      last == IF Len(as) < 4 \/ as[4].k = "undefined" THEN n ELSE Clamp(Integer(as[4], n), 0, n)
      source == last - Integer(as[3], n)
  IN CASE m \in {"slice", "subarray"} -> Cut(b, as[1], as[2])
       [] m = "fill" -> LET lo == Integer(as[2], n)
                            hi == IF as[3].k = "undefined" THEN n ELSE Integer(as[3], n)
                        IN  IF ~Within(as[2], n) \/ ~Within(as[3], n) THEN No
                            ELSE Bytes([i \in 1 .. n |-> IF i > lo /\ i <= hi THEN Byte(Whole(as[1])) ELSE b.bs[i]])
       [] m = "swap16" -> IF n % 2 # 0 THEN No ELSE Bytes(Exchanged(b.bs, 2))
       [] m = "swap32" -> IF n % 4 # 0 THEN No ELSE Bytes(Exchanged(b.bs, 4))
       [] m = "compare" -> LET c == as[1]
                           IN  IF \E i \in {2, 3} : ~Within(as[i], Len(c.bs)) THEN No
                               ELSE IF \E i \in {4, 5} : ~Within(as[i], n) THEN No
                               ELSE Num(Order(Cut(b, as[4], as[5]), Cut(c, as[2], as[3])))
       [] m = "copy" -> IF ~Within(as[3], n) \/ Integer(as[2], n) < 0 \/ Integer(as[4], n) < 0 THEN No
                        ELSE Num(Clamp(IF room < source THEN room ELSE source, 0, n))
       [] m = "write" -> LET c == Decoded(as[1].s, IF as[4].k = "undefined" THEN "utf8" ELSE as[4].s)
                             left == n - Integer(as[2], n)
                             most == IF as[3].k = "undefined" THEN left ELSE Clamp(Integer(as[3], n), 0, left)
                         IN  IF ~Within(as[2], n) \/ ~Within(as[3], n) THEN No ELSE Num(Clamp(Len(c.bs), 0, most))
       [] m \in DOMAIN Fixed /\ Len(as) = 1 -> FixedRead(m, b, as[1])
       [] m \in DOMAIN Fixed /\ Len(as) = 2 -> LET at == Integer(as[2], n)
                                               IN  IF ~Fits(m, Whole(as[1])) \/ at < 0 \/ at + Fixed[m] > n THEN No ELSE Num(at + Fixed[m])
       [] m = "equals" -> Bool(b.bs = as[1].bs)
       [] m = "indexOf" -> Num(Least({i \in found : i >= start}, -1))
       [] m = "lastIndexOf" -> Num(Most({i \in found : as[2].k = "undefined" \/ i <= (IF Integer(as[2], n + 1) < 0 THEN n + Integer(as[2], n + 1) ELSE start)}, -1))
       [] m = "includes" -> Bool(\E i \in found : i >= start)

===============================================================================
