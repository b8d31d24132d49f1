--------------------------- MODULE HandshakeProofs ---------------------------
(***************************************************************************)
(* The digest of the handshake, for every message and every hash: it never *)
(* covers the bytes that say where it is, so that a message sealed with a  *)
(* key verifies with it.                                                   *)
(***************************************************************************)
EXTENDS Handshake, TLAPS

(* Both offsets leave the digest inside the message, behind the times, and
   clear of the two fields the offsets are computed from. *)
LEMMA DigestPlaced ==
  ASSUME NEW buf \in HandshakeMessage, NEW scheme
  PROVE  LET offset == get_digest_offset(buf, scheme)
         IN /\ offset \in Nat
            /\ offset >= 12
            /\ offset + DigestLength <= HANDSHAKE_MSG_LENGTH
            /\ offset + DigestLength <= 772 \/ offset >= 776
            /\ scheme = DIGEST_MODE_1 <=> offset >= 776
  <1>1. \A i \in 0..1535 : buf[i] \in Octet
    BY DEF HandshakeMessage, HANDSHAKE_MSG_LENGTH
  <1>2. /\ buf[8] \in Octet /\ buf[9] \in Octet /\ buf[10] \in Octet /\ buf[11] \in Octet
        /\ buf[772] \in Octet /\ buf[773] \in Octet /\ buf[774] \in Octet
        /\ buf[775] \in Octet
    BY <1>1
  <1>3. \A n \in Octet : n \in Nat
    BY DEF Octet
  <1>4. get_digest_offset_0(buf) \in 12..739
    <2> DEFINE sum == buf[8] + buf[9] + buf[10] + buf[11]
    <2>1. sum \in Nat
      BY <1>2, <1>3
    <2> HIDE DEF sum
    <2>2. (sum % 728) + 12 \in 12..739
      BY <2>1
    <2> QED BY <2>2 DEF get_digest_offset_0, sum
  <1>5. get_digest_offset_1(buf) \in 776..1503
    <2> DEFINE sum == buf[772] + buf[773] + buf[774] + buf[775]
    <2>1. sum \in Nat
      BY <1>2, <1>3
    <2> HIDE DEF sum
    <2>2. (sum % 728) + 776 \in 776..1503
      BY <2>1
    <2> QED BY <2>2 DEF get_digest_offset_1, sum
  <1>6. CASE scheme = DIGEST_MODE_1
    BY <1>5, <1>6 DEF get_digest_offset, DigestLength, HANDSHAKE_MSG_LENGTH
  <1>7. CASE scheme # DIGEST_MODE_1
    BY <1>4, <1>7 DEF get_digest_offset, DigestLength, HANDSHAKE_MSG_LENGTH
  <1> QED BY <1>6, <1>7

(* The positions of a message, of a digest, and of what is hashed. *)
Index == 0..1535
DigestIndex == 0..31
HashedIndex == 0..1503

(* What Put leaves outside the digest and what it puts there. *)
LEMMA PutReads ==
  ASSUME NEW buf \in HandshakeMessage, NEW digest \in Digest, NEW offset \in Nat,
         offset + DigestLength <= HANDSHAKE_MSG_LENGTH
  PROVE  /\ Put(buf, offset, digest) \in HandshakeMessage
         /\ DigestAt(Put(buf, offset, digest), offset) = digest
         /\ Around(Put(buf, offset, digest), offset) = Around(buf, offset)
         /\ \A i \in Index : i \notin offset..(offset + 31) =>
              Put(buf, offset, digest)[i] = buf[i]
  <1> DEFINE new == Put(buf, offset, digest)
             inside == offset..(offset + 31)
  <1>1. HandshakeMessage = [Index -> Octet] /\ Digest = [DigestIndex -> Octet]
    BY DEF HandshakeMessage, HANDSHAKE_MSG_LENGTH, Digest, DigestLength, Index, DigestIndex
  <1>2. new = [i \in DOMAIN buf |-> IF i \in inside THEN digest[i - offset] ELSE buf[i]]
    BY DEF Put, DigestLength
  <1>3. offset + 32 <= 1536
    BY DEF DigestLength, HANDSHAKE_MSG_LENGTH
  <1> HIDE DEF new, inside
  <1>4. DOMAIN buf = Index /\ \A i \in Index : buf[i] \in Octet
    BY <1>1
  <1>5. digest = [i \in DigestIndex |-> digest[i]] /\ \A i \in DigestIndex : digest[i] \in Octet
    BY <1>1
  <1>6. \A i \in Index : new[i] = IF i \in inside THEN digest[i - offset] ELSE buf[i]
    BY <1>2, <1>4
  <1>7. new \in HandshakeMessage
    <2>1. ASSUME NEW i \in Index PROVE new[i] \in Octet
      <3>1. CASE i \in inside
        <4>1. i - offset \in DigestIndex
          BY <3>1 DEF inside, DigestIndex
        <4>2. new[i] = digest[i - offset]
          BY <3>1, <1>6
        <4> QED BY <4>1, <4>2, <1>5
      <3>2. CASE i \notin inside
        BY <3>2, <1>4, <1>6
      <3> QED BY <3>1, <3>2
    <2>2. new = [i \in Index |-> new[i]]
      BY <1>2, <1>4
    <2> QED BY <2>1, <2>2, <1>1
  <1>8. DigestAt(new, offset) = digest
    <2>1. ASSUME NEW i \in DigestIndex PROVE new[offset + i] = digest[i]
      <3>1. offset + i \in Index /\ offset + i \in inside /\ (offset + i) - offset = i
        BY <1>3 DEF inside, DigestIndex, Index
      <3> QED BY <3>1, <1>6
    <2>2. DigestAt(new, offset) = [i \in DigestIndex |-> new[offset + i]]
      BY DEF DigestAt, DigestLength, DigestIndex
    <2> QED BY <2>1, <2>2, <1>5
  <1>9. \A i \in Index : i \notin inside => new[i] = buf[i]
    BY <1>6
  <1>10. Around(new, offset) = Around(buf, offset)
    <2> DEFINE Outside(f, i) == IF i < offset THEN f[i] ELSE f[i + 32]
    <2>1. ASSUME NEW i \in HashedIndex PROVE Outside(new, i) = Outside(buf, i)
      <3>1. CASE i < offset
        <4>1. i \in Index /\ i \notin inside
          BY <3>1 DEF inside, Index, HashedIndex
        <4> QED BY <4>1, <3>1, <1>9
      <3>2. CASE ~(i < offset)
        <4>1. i + 32 \in Index /\ i + 32 \notin inside
          BY <3>2 DEF inside, Index, HashedIndex
        <4> QED BY <4>1, <3>2, <1>9
      <3> QED BY <3>1, <3>2
    <2>2. \A f : Around(f, offset) = [i \in HashedIndex |-> Outside(f, i)]
      BY DEF Around, DigestLength, HANDSHAKE_MSG_LENGTH, HashedIndex
    <2> HIDE DEF Outside
    <2> QED BY <2>1, <2>2
  <1> QED BY <1>7, <1>8, <1>9, <1>10 DEF new, inside

(* get_S0_S1_S2 puts the digest of S1 where a client that uses the same
   scheme looks for it, and the digest is the one the client computes: for
   every random message, every scheme and every hash. *)
THEOREM SealVerifies ==
  ASSUME NEW buf \in HandshakeMessage, NEW scheme, NEW key,
         \A data : Hmac(data, key) \in Digest
  PROVE  Verifies(Seal(buf, scheme, key), scheme, key)
  <1> DEFINE offset == get_digest_offset(buf, scheme)
             hash == Hmac(Around(buf, offset), key)
             new == Put(buf, offset, hash)
  <1>1. /\ offset \in Nat
        /\ offset >= 12
        /\ offset + DigestLength <= HANDSHAKE_MSG_LENGTH
        /\ offset + DigestLength <= 772 \/ offset >= 776
    BY DigestPlaced
  <1>2. hash \in Digest
    OBVIOUS
  <1>3. /\ new \in HandshakeMessage
        /\ DigestAt(new, offset) = hash
        /\ Around(new, offset) = Around(buf, offset)
        /\ \A i \in Index : i \notin offset..(offset + 31) => new[i] = buf[i]
    <2> HIDE DEF offset, hash
    <2> QED BY <1>1, <1>2, PutReads
  <1>4. get_digest_offset(new, scheme) = offset
    <2> DEFINE Fields == {8, 9, 10, 11, 772, 773, 774, 775}
    <2>1. \A i \in Fields : i \in Index /\ i \notin offset..(offset + 31)
      <3> HIDE DEF offset, new
      <3> QED BY <1>1 DEF DigestLength, Index
    <2> HIDE DEF new
    <2>2. \A i \in Fields : new[i] = buf[i]
      <3> HIDE DEF offset, Fields
      <3> QED BY <2>1, <1>3, Zenon
    <2>3. get_digest_offset_0(new) = get_digest_offset_0(buf)
      BY <2>2 DEF get_digest_offset_0
    <2>4. get_digest_offset_1(new) = get_digest_offset_1(buf)
      BY <2>2 DEF get_digest_offset_1
    <2> QED BY <2>3, <2>4 DEF get_digest_offset
  <1>5. Seal(buf, scheme, key) = new
    BY DEF Seal
  <1> HIDE DEF new, offset, hash
  <1>6. hash = Hmac(Around(buf, offset), key)
    BY DEF hash
  <1>7. DigestAt(new, get_digest_offset(new, scheme))
          = Hmac(Around(new, get_digest_offset(new, scheme)), key)
    BY <1>3, <1>4, <1>6
  <1> QED BY <1>5, <1>7 DEF Verifies

(* get_S0_S1_S2 answers a client whose digest was found so that the client
   verifies both parts: the digest of S1, at the place its own scheme gives,
   and the last 32 bytes of S2, the hash of the rest of S2 keyed by the hash
   of the client's digest.  For every C1, random message, time and hash. *)
THEOREM AnswersVerify ==
  ASSUME NEW C1 \in HandshakeMessage, NEW random \in HandshakeMessage,
         NEW time \in [0..3 -> Octet],
         \A data, key : Hmac(data, key) \in Digest
  PROVE  LET scheme == digest_scheme(C1)
             S2Written == get_S2(C1, random)
             challenge == DigestAt(C1, get_digest_offset(C1, scheme))
         IN /\ Verifies(get_S1(C1, time, random), scheme, FMS_key_36)
            /\ DigestAt(S2Written, 1504) = Hmac(Around(S2Written, 1504),
                                                Hmac(challenge, FMS_key_68))
  <1> DEFINE scheme == digest_scheme(C1)
             key == Hmac(DigestAt(C1, get_digest_offset(C1, scheme)), FMS_key_68)
             stamped == Stamp(random, time, Zero)
  <1>1. stamped \in HandshakeMessage
    <2>1. HandshakeMessage = [Index -> Octet]
      BY DEF HandshakeMessage, HANDSHAKE_MSG_LENGTH, Index
    <2>2. DOMAIN random = Index /\ \A i \in Index : random[i] \in Octet
      BY <2>1
    <2>3. Zero \in [0..3 -> Octet]
      BY DEF Zero, Octet
    <2>4. stamped = [i \in Index |-> IF i < 4 THEN time[i]
                                     ELSE IF i < 8 THEN Zero[i - 4] ELSE random[i]]
      BY <2>2 DEF Stamp
    <2>5. ASSUME NEW i \in Index
          PROVE  (IF i < 4 THEN time[i] ELSE IF i < 8 THEN Zero[i - 4] ELSE random[i]) \in Octet
      <3>1. CASE i < 4
        <4>1. i \in 0..3
          BY <3>1 DEF Index
        <4> QED BY <4>1, <3>1
      <3>2. CASE ~(i < 4) /\ i < 8
        <4>1. i - 4 \in 0..3
          BY <3>2 DEF Index
        <4> QED BY <4>1, <3>2, <2>3
      <3>3. CASE ~(i < 4) /\ ~(i < 8)
        BY <3>3, <2>2
      <3> QED BY <3>1, <3>2, <3>3
    <2> QED BY <2>1, <2>4, <2>5
  <1>2. get_S1(C1, time, random) = Seal(stamped, scheme, FMS_key_36)
    BY DEF get_S1
  <1>3. Verifies(Seal(stamped, scheme, FMS_key_36), scheme, FMS_key_36)
    <2> HIDE DEF scheme, stamped
    <2> QED BY <1>1, SealVerifies
  <1>4. get_S2(C1, random) = Put(random, 1504, Hmac(Around(random, 1504), key))
    BY DEF get_S2, HANDSHAKE_MSG_LENGTH, DigestLength
  <1>5. /\ DigestAt(get_S2(C1, random), 1504) = Hmac(Around(random, 1504), key)
        /\ Around(get_S2(C1, random), 1504) = Around(random, 1504)
    <2> HIDE DEF key
    <2>1. 1504 \in Nat /\ 1504 + DigestLength <= HANDSHAKE_MSG_LENGTH
      BY DEF DigestLength, HANDSHAKE_MSG_LENGTH
    <2> QED BY <1>4, <2>1, PutReads
  <1> QED BY <1>2, <1>3, <1>5
=============================================================================
