----------------------------- MODULE Handshake -----------------------------
(***************************************************************************)
(* network/HandshakeManager.cpp: the check of C0 and C1 and the answer.  A *)
(* message is a function from 0..1535 to bytes.  Hmac stands for OpenSSL's *)
(* HMAC-SHA256 of a function from an interval to bytes, a digest is a      *)
(* function from 0..31; the three keys are told apart and no more.         *)
(***************************************************************************)
EXTENDS Integers

CONSTANT Hmac(_, _)

HANDSHAKE_MSG_LENGTH == 1536
DigestLength == 32
Octet == 0..255
Digest == [0..(DigestLength - 1) -> Octet]
HandshakeMessage == [0..(HANDSHAKE_MSG_LENGTH - 1) -> Octet]

DIGEST_MODE_0 == 0
DIGEST_MODE_1 == 1
NO_DIGEST_MODE == 99

FP_key == [i \in {0} |-> 30]
FMS_key_36 == [i \in {0} |-> 36]
FMS_key_68 == [i \in {0} |-> 68]

get_digest_offset_0(buf) == ((buf[8] + buf[9] + buf[10] + buf[11]) % 728) + 12
get_digest_offset_1_Early(buf) == ((buf[772] + buf[773] + buf[774] + buf[775]) % 728) + 772
get_digest_offset_1(buf) == ((buf[772] + buf[773] + buf[774] + buf[775]) % 728) + 776
get_digest_offset(buf, scheme) ==
  IF scheme = DIGEST_MODE_1 THEN get_digest_offset_1(buf) ELSE get_digest_offset_0(buf)

(* The temporary buffer: the message without the 32 bytes at its offset. *)
Around(buf, offset) ==
  [i \in 0..(HANDSHAKE_MSG_LENGTH - DigestLength - 1) |->
     IF i < offset THEN buf[i] ELSE buf[i + DigestLength]]
DigestAt(buf, offset) == [i \in 0..(DigestLength - 1) |-> buf[offset + i]]
Verifies(buf, scheme, key) ==
  LET offset == get_digest_offset(buf, scheme)
  IN DigestAt(buf, offset) = Hmac(Around(buf, offset), key)

(* validate_C0_C1, validate_C1_ver3 and validate_client_scheme: version 3 is
   all that is asked; the scheme decides which answer is written. *)
validate_C0_C1(version) == version = 3
digest_scheme(C1) ==
  IF \A i \in 4..7 : C1[i] = 0 THEN NO_DIGEST_MODE
  ELSE IF Verifies(C1, DIGEST_MODE_0, FP_key) THEN DIGEST_MODE_0
  ELSE IF Verifies(C1, DIGEST_MODE_1, FP_key) THEN DIGEST_MODE_1
  ELSE NO_DIGEST_MODE

(* get_S0_S1_S2: S1 carries a digest where the client's scheme puts it, S2
   ends with a hash keyed by the client's digest.  time has four bytes. *)
Put(buf, offset, digest) ==
  [i \in DOMAIN buf |-> IF i \in offset..(offset + DigestLength - 1) THEN digest[i - offset]
                        ELSE buf[i]]
Seal(buf, scheme, key) ==
  LET offset == get_digest_offset(buf, scheme)
  IN Put(buf, offset, Hmac(Around(buf, offset), key))
Stamp(buf, time, second) ==
  [i \in DOMAIN buf |-> IF i < 4 THEN time[i] ELSE IF i < 8 THEN second[i - 4] ELSE buf[i]]
Zero == [i \in 0..3 |-> 0]
get_S1(C1, time, random) == Seal(Stamp(random, time, Zero), digest_scheme(C1), FMS_key_36)
get_S2(C1, random) ==
  LET offset == HANDSHAKE_MSG_LENGTH - DigestLength
      key == Hmac(DigestAt(C1, get_digest_offset(C1, digest_scheme(C1))), FMS_key_68)
  IN Put(random, offset, Hmac(Around(random, offset), key))

(* write_S0_S1_S2: S1 and S2 carry the client's time, S2 the time that passed
   and what C1 held behind its version. *)
Time(C1) == [i \in 0..3 |-> C1[i]]
write_S1(C1, random) == Stamp(random, Time(C1), Zero)
write_S2(C1, later) == Stamp(C1, Time(C1), later)

(* handle_read_handshake_C0_C1: which of the two answers. *)
S1(C1, time, random) ==
  IF digest_scheme(C1) = NO_DIGEST_MODE THEN write_S1(C1, random) ELSE get_S1(C1, time, random)
S2(C1, later, random) ==
  IF digest_scheme(C1) = NO_DIGEST_MODE THEN write_S2(C1, later) ELSE get_S2(C1, random)
=============================================================================
