------------------------------- MODULE Base32 -------------------------------
(***************************************************************************)
(* TwoFactorService's own base32: a secret is encoded for the user's app   *)
(* and decoded again when a code is checked.  Both ways shift their input  *)
(* through a machine word that is never masked, so its high bits are lost. *)
(***************************************************************************)
EXTENDS Naturals, Sequences

CONSTANTS
  Bytes,     \* bytes of secrets
  MaxBytes,  \* bound: bytes of a secret; 20 in the code
  Words      \* values of a machine word; 2^32 in the code

\* A word holds at least a byte and what is left of the last: 12 bits.
ASSUME Base32Assumption ==
  /\ Bytes \subseteq 0..255 /\ MaxBytes \in Nat
  /\ Words \in Nat \ {0} /\ Words % 4096 = 0

VARIABLES
  secret,      \* the bytes encoded so far
  text, ended, \* its characters, as indices of the alphabet; is it complete?
  word, bits,  \* the encoder's or, once the text is complete, the decoder's
  read, back   \* characters decoded, and the bytes that came out

base32Vars == <<secret, text, ended, word, bits, read, back>>

Base32TypeOK ==
  /\ secret \in Seq(Bytes) /\ Len(secret) <= MaxBytes /\ text \in Seq(0..31)
  /\ ended \in BOOLEAN /\ word \in 0..(Words - 1) /\ bits \in 0..7
  /\ read \in 0..Len(text) /\ back \in Seq(0..255)

Base32Init ==
  /\ secret = <<>> /\ text = <<>> /\ ended = FALSE
  /\ word = 0 /\ bits = 0 /\ read = 0 /\ back = <<>>

ShiftIn(n, x) == (word * 2^n + x) % Words
Low(w, from, n) == (w \div 2^from) % 2^n

\* A byte more: as many characters as there are bits for.
EncodeByte(b) ==
  /\ ~ended /\ Len(secret) < MaxBytes /\ secret' = Append(secret, b)
  /\ word' = ShiftIn(8, b) /\ bits' = (bits + 8) % 5
  /\ text' = text \o [k \in 1..((bits + 8) \div 5) |-> Low(word', bits + 8 - 5 * k, 5)]
  /\ UNCHANGED <<ended, read, back>>

\* The bits that are left make the last character.
EndText ==
  /\ ~ended /\ ended' = TRUE
  /\ text' = IF bits > 0 THEN Append(text, (word * 2^(5 - bits)) % 32) ELSE text
  /\ word' = 0 /\ bits' = 0
  /\ UNCHANGED <<secret, read, back>>

\* Mutant: a byte comes out as soon as there are bits, and they are kept.
DecodeKeepingBits ==
  /\ ended /\ read < Len(text) /\ read' = read + 1
  /\ word' = ShiftIn(5, text[read + 1])
  /\ IF bits + 5 < 8 THEN bits' = bits + 5 /\ UNCHANGED back
     ELSE bits' = 5 /\ back' = Append(back, Low(word', bits - 3, 8))
  /\ UNCHANGED <<secret, text, ended>>

DecodeChar ==
  /\ ended /\ read < Len(text) /\ read' = read + 1
  /\ word' = ShiftIn(5, text[read + 1])
  /\ IF bits + 5 < 8 THEN bits' = bits + 5 /\ UNCHANGED back
     ELSE bits' = bits - 3 /\ back' = Append(back, Low(word', bits - 3, 8))
  /\ UNCHANGED <<secret, text, ended>>

Base32Next == (\E b \in Bytes : EncodeByte(b)) \/ EndText \/ DecodeChar

-----------------------------------------------------------------------------
(* Properties *)

\* The secret comes back byte for byte, whatever its length, and nothing comes
\* out of the bits that pad the last character.
SecretComesBack ==
  /\ Len(back) <= Len(secret) /\ \A k \in DOMAIN back : back[k] = secret[k]
  /\ ended /\ read = Len(text) => back = secret

\* Encoding and decoding are inverse, whatever falls out of the word.
Base32Safe ==
  /\ Base32TypeOK /\ SecretComesBack
=============================================================================
