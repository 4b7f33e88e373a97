---------------------------- MODULE VictronFrame ----------------------------
(***************************************************************************)
(* From the manufacturer data of an advertisement to the values posted:    *)
(* victron_crypto_decrypt (victron_crypto.c), victron_parser_parse         *)
(* (victron_parser.c) and the callback that runs both (ble_task.c).  The   *)
(* charger (external) packs its report into bits and encrypts it.  The     *)
(* cipher itself is not modelled: under the right key the first block of   *)
(* the output is the plain text, and what follows it is anything: padding, *)
(* and blocks for which mbedtls counts at the other end of the nonce.  The *)
(* key of another charger is one whose first byte is not ours.             *)
(***************************************************************************)
EXTENDS Integers, Sequences

CONSTANTS
  Reports,   \* what the charger may report
  Lengths,   \* lengths of the manufacturer data behind the company id
  Spares,    \* what may be in the seven bits behind the report
  Junk,      \* what may be behind the first block and the text after the decryption
  BufferLen  \* size of the output buffer (ble_task.c:48: 256)

VARIABLES
  pc,      \* where the callback is
  sent,    \* the report the charger sent
  frame,   \* the advertisement
  buf,     \* decrypted[], as far as it was written
  len,     \* decrypted_len
  out,     \* mppt_data
  err      \* why the frame was dropped, or "OK"

vars == <<pc, sent, frame, buf, len, out, err>>

\* A field that is not available.  No field takes this value otherwise.
NaN == 99999

Fields == {"state", "error", "volts", "amps", "yield", "solar", "load"}
\* What the fields of the record can hold.
Optional(lo, hi) == lo..hi \union {NaN}
Report ==
  [state : 0..255, error : 0..255, volts : Optional(-32768, 32766), amps : Optional(-32768, 32766),
   yield : Optional(0, 65534), solar : Optional(0, 65534), load : Optional(0, 510)]
ASSUME ReportsAssumption == Reports \subseteq Report
ASSUME LengthsAssumption == Lengths \subseteq Nat /\ BufferLen \in Nat
ASSUME BytesAssumption   == Spares \subseteq 0..127 /\ Junk \subseteq 0..255

-----------------------------------------------------------------------------
(***************************************************************************)
(* The charger: little-endian fields, the last of nine bits.               *)
(***************************************************************************)
Raw(v, na) == IF v = NaN THEN na ELSE v
Word(v)    == IF v < 0 THEN v + 65536 ELSE v
Low(w)     == w % 256
High(w)    == w \div 256
Encode(r, spare) ==
  LET volts == Word(Raw(r.volts, 32767))  amps  == Word(Raw(r.amps, 32767))
      yield == Raw(r.yield, 65535)        solar == Raw(r.solar, 65535)
      load  == Raw(r.load, 511)
  IN <<r.state, r.error, Low(volts), High(volts), Low(amps), High(amps), Low(yield), High(yield),
       Low(solar), High(solar), Low(load), High(load) + 2 * spare>>
RecordLen == 12
HeaderLen == 8       \* the container's seven bytes and the key byte

\* A record cut to, or filled up to, n bytes.
Fit(bytes, n) == [i \in 1..n |-> IF i <= Len(bytes) THEN bytes[i] ELSE 255]

-----------------------------------------------------------------------------
(***************************************************************************)
(* The bit reader and the parser.                                          *)
(***************************************************************************)
Bit(d, i, order) ==
  LET shift == IF order = "msb" THEN 7 - (i % 8) ELSE i % 8
  IN (d[i \div 8 + 1] \div 2^shift) % 2
\* The first bit read is the lowest one, in either order.
Unsigned(d, from, bits, order) ==
  LET value[n \in 0..bits] ==
        IF n = 0 THEN 0 ELSE value[n - 1] + Bit(d, from + n - 1, order) * 2^(n - 1)
  IN value[bits]
Signed(u, bits) == IF u >= 2^(bits - 1) THEN u - 2^bits ELSE u

Missing(v, na) == IF v = na THEN NaN ELSE v
ParseWithMode(d, order) ==
  [state |-> Unsigned(d, 0, 8, order), error |-> Unsigned(d, 8, 8, order),
   volts |-> Missing(Signed(Unsigned(d, 16, 16, order), 16), 32767),
   amps  |-> Missing(Signed(Unsigned(d, 32, 16, order), 16), 32767),
   yield |-> Missing(Unsigned(d, 48, 16, order), 65535),
   solar |-> Missing(Unsigned(d, 64, 16, order), 65535),
   load  |-> Missing(Unsigned(d, 80, 9, order), 511)]
RequiredBits == 8 + 8 + 16 + 16 + 16 + 16 + 9

\* Voltages are in hundredths of a volt.
Plausible(r) == r.volts \in Optional(500, 10000)

-----------------------------------------------------------------------------
Nothing == [from |-> "nobody", n |-> 0, bytes |-> <<>>]
Empty   == [f \in Fields |-> 0]

Init == /\ pc = "idle" /\ sent = Empty /\ frame = Nothing /\ buf = <<>>
        /\ len = 0 /\ out = Empty /\ err = "OK"

BlockLen  == 16
Padded(n) == ((n + 15) \div BlockLen) * BlockLen
Drop(why) == pc' = "dropped" /\ err' = why /\ UNCHANGED <<sent, frame, buf, len, out>>

\* An advertisement arrives with n bytes behind the company id, from our
\* charger, another one, or another product.
Receive(r, n, spare, from) ==
  /\ pc = "idle" /\ pc' = "decrypt" /\ sent' = r /\ err' = "OK"
  /\ frame' = [from |-> from, n |-> n,
               bytes |-> Fit(Encode(r, spare), IF n > HeaderLen THEN n - HeaderLen ELSE 0)]
  /\ buf' = <<>> /\ len' = BufferLen /\ out' = Empty

\* victron_parse_container, then the key byte and the output buffer.
Refuse ==
  /\ pc = "decrypt"
  /\ \/ frame.n < HeaderLen - 1 /\ Drop("SIZE")
     \/ frame.n >= HeaderLen - 1 /\ frame.from = "other product" /\ Drop("RESPONSE")
     \/ frame.n = HeaderLen - 1 /\ frame.from # "other product" /\ Drop("SIZE")
     \/ frame.n >= HeaderLen /\ frame.from = "other charger" /\ Drop("RESPONSE")
Accepted == pc = "decrypt" /\ frame.n >= HeaderLen /\ frame.from = "ours"

\* The padded text does not fit, there is no memory for the copy, or the
\* cipher fails.
NoMemory     == Accepted /\ Drop("NO_MEM")
CipherFails  == Accepted /\ len >= Padded(Len(frame.bytes)) /\ Drop("FAIL")

\* The output of the cipher.
Plain(n, junk) ==
  [i \in 1..Padded(n) |-> IF i <= n /\ i <= BlockLen THEN frame.bytes[i] ELSE junk]

\* Mutants: the bytes that arrived are compared with the buffer, not the
\* padded ones; the length of the padded text is returned.
DecryptUnpadded(junk) ==
  LET n == Len(frame.bytes) IN
  /\ Accepted /\ len >= n /\ pc' = "lsb"
  /\ buf' = Plain(n, junk)
  /\ len' = n /\ UNCHANGED <<sent, frame, out, err>>
DecryptPadded(junk) ==
  LET n == Len(frame.bytes) IN
  /\ Accepted /\ len >= Padded(n) /\ pc' = "lsb"
  /\ buf' = Plain(n, junk)
  /\ len' = Padded(n) /\ UNCHANGED <<sent, frame, out, err>>
Decrypt(junk) ==
  LET n == Len(frame.bytes) IN
  /\ Accepted /\ len >= Padded(n) /\ pc' = "lsb"
  /\ buf' = Plain(n, junk)
  /\ len' = n /\ UNCHANGED <<sent, frame, out, err>>

\* The first attempt, and the fallback in the other order of bits (a text
\* too short for the one is too short for the other).  Mutant: bytes for bits.
TooShortBytes == pc = "lsb" /\ len < RequiredBits /\ Drop("PARSE")
TooShort == pc = "lsb" /\ 8 * len < RequiredBits /\ Drop("PARSE")
ParseLsb ==
  LET r == ParseWithMode(buf, "lsb") IN
  /\ pc = "lsb" /\ 8 * len >= RequiredBits /\ out' = r
  /\ pc' = IF Plausible(r) THEN "posted" ELSE "msb"
  /\ UNCHANGED <<sent, frame, buf, len, err>>
ParseMsb ==
  LET r == ParseWithMode(buf, "msb") IN
  /\ pc = "msb"
  /\ \/ /\ Plausible(r) /\ out' = r /\ pc' = "posted"
        /\ UNCHANGED <<sent, frame, buf, len, err>>
     \/ ~Plausible(r) /\ Drop("PARSE")
\* The callback returns: everything above was local to it.
Return == /\ pc \in {"posted", "dropped"} /\ pc' = "idle" /\ sent' = Empty
          /\ frame' = Nothing /\ buf' = <<>> /\ len' = 0 /\ out' = Empty /\ err' = "OK"

Next ==
  \/ pc = "idle" /\ \E r \in Reports, n \in Lengths, spare \in Spares,
        from \in {"ours", "other charger", "other product"} : Receive(r, n, spare, from)
  \/ Refuse \/ NoMemory \/ CipherFails \/ \E junk \in Junk : Decrypt(junk)
  \/ TooShort \/ ParseLsb \/ ParseMsb \/ Return

Spec == Init /\ [][Next]_vars

-----------------------------------------------------------------------------
(* The decrypted text, padding included, stays inside the caller's buffer  *)
(* (victron_crypto.c:147-152), and each variable has its type.             *)
TypeOK ==
  /\ pc \in {"idle", "decrypt", "lsb", "msb", "posted", "dropped"}
  /\ sent \in Report /\ out \in [Fields -> Int]
  /\ frame.n \in Lengths \union {0} /\ Len(buf) <= BufferLen /\ len \in 0..BufferLen
  /\ err \in {"OK", "SIZE", "RESPONSE", "NO_MEM", "FAIL", "PARSE"}

(* For a battery of at most 100 V, what is posted is what our charger      *)
(* sent: each field in its bits, with its sign, absent if and only if it   *)
(* was, and all of it from the text, never from the padding behind a short *)
(* one.  The fallback reads no such report into another: a voltage below   *)
(* 5 V, for which it is tried, is not plausible in the other order of bits *)
(* either (victron_parser.c:81-180, victron_crypto.c:116-205).             *)
Whole == frame.from = "ours" /\ frame.n >= HeaderLen + RecordLen
PostsWhatWasSent ==
  pc = "posted" /\ sent.volts \in Optional(0, 10000) => Whole /\ out = sent

(* No whole and plausible report of our charger is dropped, unless there   *)
(* is no room or memory, or the cipher fails (ble_task.c:51-64).           *)
PlausibleIsPosted ==
  pc = "dropped" /\ Whole /\ Plausible(sent) => err \in {"NO_MEM", "FAIL"}
=============================================================================
