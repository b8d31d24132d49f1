------------------------ MODULE UploadProtocolProofs ------------------------
(***************************************************************************)
(* The safety properties of UploadProtocol, for uploads of every length    *)
(* and any number of failed requests.                                      *)
(***************************************************************************)
EXTENDS UploadProtocol, TLAPS

(* What the uploader knows agrees with what the streamer has processed.    *)
PhaseAgrees ==
  /\ phase = "begin" =>
       \A j \in 1 .. Len(requests) : requests[j].op = "begin" /\ ~requests[j].ok
  /\ phase # "begin" => \E j \in 1 .. Len(requests) : Acknowledged("begin", j)
  /\ phase = "init" =>
       \A j \in 1 .. Len(requests) : requests[j].op # "es" /\ ~Acknowledged("init", j)
  /\ phase = "publishing" => \E j \in 1 .. Len(requests) : Acknowledged("init", j)
  /\ phase # "end" => \A j \in 1 .. Len(requests) : ~Acknowledged("end", j)
  /\ phase \in {"begin", "init"} => done = 0

(* A frame the streamer has seen is settled, or is the one being retried.  *)
SeenOrRetried ==
  \A j \in 1 .. Len(requests) :
    /\ requests[j].n <= Len(accepted)
    /\ requests[j].op = "es" =>
         /\ requests[j].n >= 1
         /\ requests[j].n <= done + 1
         /\ requests[j].ok => requests[j].n <= done

DoneIsSettled == \A k \in 1 .. done : Settled(k, Len(requests))

IInv ==
  /\ TypeOK
  /\ PhaseAgrees
  /\ SeenOrRetried
  /\ DoneIsSettled
  /\ NoGap
  /\ InOrder
  /\ OneUpload
  /\ FramesAfterInit
  /\ InitHasBothTracks
  /\ EndAfterDrain
  /\ QuietAfterEnd
  /\ KeyFrameFirst

-----------------------------------------------------------------------------
(* What appending does to a sequence.                                      *)
LEMMA AppendFacts ==
  ASSUME NEW S, NEW s \in Seq(S), NEW e \in S
  PROVE  /\ Append(s, e) \in Seq(S)
         /\ Len(Append(s, e)) = Len(s) + 1
         /\ Append(s, e)[Len(s) + 1] = e
         /\ \A i \in 1 .. Len(s) : Append(s, e)[i] = s[i]
  OBVIOUS

(* The invariant holds before any frame. *)
LEMMA InitIInv == Init => IInv
BY DEF Init, IInv, TypeOK, PhaseAgrees, SeenOrRetried, DoneIsSettled, NoGap, InOrder,
       OneUpload, FramesAfterInit, InitHasBothTracks, EndAfterDrain, QuietAfterEnd,
       KeyFrameFirst, Phase, Acknowledged, Settled

(* Accepting a frame keeps the invariant. *)
LEMMA AcceptIInv ==
  ASSUME IInv, NEW kind \in Kind, NEW key \in BOOLEAN, NEW empty \in BOOLEAN,
         Accept(kind, key, empty)
  PROVE  IInv'
<1> DEFINE f == [n |-> Len(accepted) + 1, kind |-> kind, key |-> key,
                 isKeyFrame |-> 1, empty |-> empty]
<1>1. /\ accepted' = Append(accepted, f)
      /\ UNCHANGED <<requests, phase, done>>
      /\ kind = "video" /\ ~key =>
           \E i \in 1 .. Len(accepted) : accepted[i].kind = "video" /\ accepted[i].key
  BY DEF Accept
<1>2. accepted \in Seq(Frame) /\ f \in Frame /\ Len(accepted) \in Nat
  BY DEF IInv, TypeOK, Frame
<1> HIDE DEF f
<1>3. /\ accepted' \in Seq(Frame)
      /\ Len(accepted') = Len(accepted) + 1
      /\ accepted'[Len(accepted) + 1] = f
      /\ \A i \in 1 .. Len(accepted) : accepted'[i] = accepted[i]
  BY <1>1, <1>2, AppendFacts
<1>4. requests \in Seq(Request) /\ Len(requests) \in Nat /\ done \in 0 .. Len(accepted)
  BY DEF IInv, TypeOK
<1>4a. \A j \in 1 .. Len(requests) : requests[j].n \in Nat
  <2>1. \A j \in 1 .. Len(requests) : requests[j] \in Request
    BY <1>4
  <2> QED BY <2>1 DEF Request
<1>5. TypeOK'
  BY <1>1, <1>2, <1>3 DEF IInv, TypeOK
<1>6. PhaseAgrees'
  BY <1>1 DEF IInv, PhaseAgrees, Acknowledged
<1>7. SeenOrRetried'
  BY <1>1, <1>2, <1>3, <1>4, <1>4a DEF IInv, SeenOrRetried
<1>8. \A k \in 1 .. Len(accepted), m \in Nat : Settled(k, m) => Settled(k, m)'
  BY <1>1, <1>3 DEF Settled, Acknowledged
<1>9. DoneIsSettled'
  BY <1>1, <1>4, <1>8 DEF IInv, DoneIsSettled
<1>10. NoGap'
  <2> SUFFICES ASSUME NEW j \in 1 .. Len(requests), requests[j].op = "es"
               PROVE  /\ requests[j].n \in 1 .. Len(accepted')
                      /\ \A k \in 1 .. requests[j].n - 1 : Settled(k, j - 1)'
    BY <1>1 DEF NoGap
  <2>1. /\ requests[j].n \in 1 .. Len(accepted)
        /\ \A k \in 1 .. requests[j].n - 1 : Settled(k, j - 1)
    BY DEF IInv, NoGap
  <2> QED BY <2>1, <1>2, <1>3, <1>4, <1>8
<1>11. InOrder'
  BY <1>1 DEF IInv, InOrder
<1>12. OneUpload' /\ FramesAfterInit' /\ QuietAfterEnd'
  BY <1>1, SMTT(30) DEF IInv, OneUpload, FramesAfterInit, QuietAfterEnd, Acknowledged
<1>13. InitHasBothTracks'
  <2> SUFFICES ASSUME NEW j \in 1 .. Len(requests), requests[j].op = "init", NEW k \in Kind
               PROVE  HasKind(k, requests[j].n)'
    BY <1>1 DEF InitHasBothTracks
  <2>1. HasKind(k, requests[j].n) /\ requests[j].n <= Len(accepted)
    BY DEF IInv, InitHasBothTracks, SeenOrRetried
  <2> QED BY <2>1, <1>1, <1>2, <1>3, <1>4a DEF HasKind
<1>14. EndAfterDrain'
  <2> SUFFICES ASSUME NEW j \in 1 .. Len(requests), requests[j].op = "end",
                      NEW k \in 1 .. requests[j].n
               PROVE  Settled(k, j - 1)'
    BY <1>1 DEF EndAfterDrain
  <2>1. Settled(k, j - 1) /\ requests[j].n <= Len(accepted)
    BY DEF IInv, EndAfterDrain, SeenOrRetried
  <2> QED BY <2>1, <1>2, <1>4, <1>4a, <1>8
<1>15. KeyFrameFirst'
  <2> SUFFICES ASSUME NEW k \in 1 .. Len(accepted) + 1, accepted'[k].kind = "video"
               PROVE  \E i \in 1 .. k : accepted'[i].kind = "video" /\ accepted'[i].key
    BY <1>3 DEF KeyFrameFirst
  <2>1. CASE k \in 1 .. Len(accepted)
    BY <2>1, <1>2, <1>3 DEF IInv, KeyFrameFirst
  <2>2. CASE k = Len(accepted) + 1
    BY <2>2, <1>1, <1>2, <1>3 DEF f
  <2> QED BY <2>1, <2>2, <1>2
<1> QED BY <1>5, <1>6, <1>7, <1>9, <1>10, <1>11, <1>12, <1>13, <1>14, <1>15 DEF IInv

(* A request is processed: what holds of the log before it still does, and *)
(* what a longer log can only make true stays true.                        *)
LEMMA ProcessFacts ==
  ASSUME TypeOK, NEW op \in Op, NEW id \in Nat, NEW n \in Nat, NEW ok \in BOOLEAN,
         Process(op, id, n, ok), UNCHANGED accepted
  PROVE  /\ requests' \in Seq(Request)
         /\ Len(requests) \in Nat
         /\ Len(requests') = Len(requests) + 1
         /\ requests'[Len(requests) + 1] = [op |-> op, id |-> id, n |-> n, ok |-> ok]
         /\ \A i \in 1 .. Len(requests) : requests'[i] = requests[i]
         /\ \A k \in Int, m \in 0 .. Len(requests) : Settled(k, m) <=> Settled(k, m)'
<1>1. requests \in Seq(Request) /\ [op |-> op, id |-> id, n |-> n, ok |-> ok] \in Request
  BY DEF TypeOK, Request
<1>2. Len(requests) \in Nat
  BY <1>1
<1>3. /\ requests' \in Seq(Request)
      /\ Len(requests') = Len(requests) + 1
      /\ requests'[Len(requests) + 1] = [op |-> op, id |-> id, n |-> n, ok |-> ok]
      /\ \A i \in 1 .. Len(requests) : requests'[i] = requests[i]
  BY <1>1, AppendFacts DEF Process
<1>4. \A k \in Int, m \in 0 .. Len(requests) : Settled(k, m) <=> Settled(k, m)'
  BY <1>2, <1>3 DEF Settled, Acknowledged
<1> QED BY <1>2, <1>3, <1>4

(* A processed request preserves the invariant if the request itself, and  *)
(* the phase and the count it leaves, are as the properties ask.           *)
LEMMA ProcessIInv ==
  ASSUME IInv, NEW op \in Op, NEW id \in Nat, NEW n \in 0 .. Len(accepted),
         NEW ok \in BOOLEAN,
         Process(op, id, n, ok), UNCHANGED accepted,
         phase' \in Phase, done' \in done .. Len(accepted),
         PhaseAgrees', DoneIsSettled',
         op = "begin" \/ op = "init" =>
           \A i \in 1 .. Len(requests) : ~Acknowledged(op, i),
         op # "begin" =>
           \E i \in 1 .. Len(requests) : Acknowledged("begin", i) /\ requests[i].id = id,
         op = "init" => \A k \in Kind : HasKind(k, n),
         op = "es" =>
           /\ n >= 1 /\ n <= done' + 1 /\ (ok => n <= done')
           /\ \E i \in 1 .. Len(requests) : Acknowledged("init", i)
           /\ \A k \in 1 .. n - 1 : Settled(k, Len(requests))
           /\ \A i \in 1 .. Len(requests) :
                requests[i].op = "es" =>
                  \/ requests[i].n < n
                  \/ requests[i].n = n /\ ~requests[i].ok,
         op = "end" => \A k \in 1 .. n : Settled(k, Len(requests)),
         op # "end" => \A i \in 1 .. Len(requests) : ~Acknowledged("end", i)
  PROVE  IInv'
<1> DEFINE r == [op |-> op, id |-> id, n |-> n, ok |-> ok]
<1>0. PICK L \in Nat : L = Len(requests)
  BY DEF IInv, TypeOK
<1>1. TypeOK /\ L = Len(requests) /\ n \in Nat /\ done \in Nat /\ Len(accepted) \in Nat
  BY <1>0 DEF IInv, TypeOK
<1>2. /\ requests' \in Seq(Request)
      /\ Len(requests') = L + 1
      /\ requests'[L + 1] = r
      /\ \A i \in 1 .. L : requests'[i] = requests[i]
      /\ \A k \in Int, m \in 0 .. L : Settled(k, m) <=> Settled(k, m)'
  BY <1>1, ProcessFacts
<1>2a. r.op = op /\ r.id = id /\ r.n = n /\ r.ok = ok
  OBVIOUS
<1>2b. \A j \in 1 .. L : requests[j].n \in Nat
  <2>1. \A j \in 1 .. L : requests[j] \in Request
    BY <1>1 DEF TypeOK
  <2> QED BY <2>1 DEF Request
<1>2c. \A o \in Op, i \in 1 .. L : Acknowledged(o, i)' <=> Acknowledged(o, i)
  BY <1>1, <1>2 DEF Acknowledged
<1>2d. \A o \in Op : Acknowledged(o, L + 1)' <=> op = o /\ ok
  <2>1. requests'[L + 1].op = op /\ requests'[L + 1].ok = ok
    BY <1>2, <1>2a
  <2> QED BY <2>1, Zenon DEF Acknowledged
<1>2e. \A i \in 1 .. L + 1 : i \in 1 .. L \/ i = L + 1
  BY <1>1
<1>2f. "begin" \in Op /\ "init" \in Op /\ "end" \in Op
  BY DEF Op
<1> HIDE DEF r
<1>3. TypeOK'
  BY <1>1, <1>2 DEF TypeOK
<1>4. SeenOrRetried'
  <2>1. \A j \in 1 .. L :
          /\ requests[j].n <= Len(accepted)
          /\ requests[j].op = "es" =>
               /\ requests[j].n >= 1
               /\ requests[j].n <= done + 1
               /\ requests[j].ok => requests[j].n <= done
    BY <1>0 DEF IInv, SeenOrRetried
  <2>2. done' \in Nat /\ done <= done'
    BY <1>1
  <2>4. /\ r.n <= Len(accepted)
        /\ r.op = "es" => r.n >= 1 /\ r.n <= done' + 1 /\ (r.ok => r.n <= done')
    <3>1. n <= Len(accepted)
      BY <1>1
    <3>2. op = "es" => n >= 1 /\ n <= done' + 1 /\ (ok => n <= done')
      OBVIOUS
    <3> QED BY <3>1, <3>2, <1>2a, Zenon
  <2> SUFFICES ASSUME NEW j \in 1 .. L + 1
               PROVE  /\ requests'[j].n <= Len(accepted)
                      /\ requests'[j].op = "es" =>
                           /\ requests'[j].n >= 1
                           /\ requests'[j].n <= done' + 1
                           /\ requests'[j].ok => requests'[j].n <= done'
    BY <1>2 DEF SeenOrRetried
  <2>5. CASE j \in 1 .. L
    <3>1. requests'[j] = requests[j] /\ requests[j].n \in Nat
      BY <2>5, <1>2, <1>2b
    <3>2. /\ requests[j].n <= Len(accepted)
          /\ requests[j].op = "es" =>
               /\ requests[j].n >= 1
               /\ requests[j].n <= done + 1
               /\ requests[j].ok => requests[j].n <= done
      BY <2>1, <2>5, Zenon
    <3> QED BY <3>1, <3>2, <2>2, <1>1
  <2>6. CASE j = L + 1
    <3>1. requests'[j] = r
      BY <2>6, <1>2
    <3> QED BY <2>4, <3>1
  <2> QED BY <2>5, <2>6, <1>2e
<1>5. NoGap'
  <2> SUFFICES ASSUME NEW j \in 1 .. L + 1, requests'[j].op = "es"
               PROVE  /\ requests'[j].n \in 1 .. Len(accepted)
                      /\ \A k \in 1 .. requests'[j].n - 1 : Settled(k, j - 1)'
    BY <1>2 DEF NoGap
  <2>1. CASE j \in 1 .. L
    <3>1. /\ requests[j].n \in 1 .. Len(accepted)
          /\ \A k \in 1 .. requests[j].n - 1 : Settled(k, j - 1)
      BY <1>0, <2>1, <1>2 DEF IInv, NoGap
    <3> QED BY <3>1, <2>1, <1>1, <1>2
  <2>2. CASE j = L + 1
    <3>1. op = "es" /\ requests'[j].n = n /\ j - 1 = L
      BY <2>2, <1>1, <1>2, <1>2a
    <3>2. n \in 1 .. Len(accepted) /\ \A k \in 1 .. n - 1 : Settled(k, L)
      BY <1>0, <3>1, <1>1
    <3>3. \A k \in 1 .. n - 1 : Settled(k, L)'
      BY <3>2, <1>1, <1>2
    <3> QED BY <3>1, <3>2, <3>3
  <2> QED BY <2>1, <2>2, <1>1
<1>6. InOrder'
  <2> SUFFICES ASSUME NEW i \in 1 .. L + 1, NEW j \in 1 .. L + 1, i < j,
                      requests'[i].op = "es", requests'[j].op = "es"
               PROVE  \/ requests'[i].n < requests'[j].n
                      \/ requests'[i].n = requests'[j].n /\ ~requests'[i].ok
    BY <1>2 DEF InOrder
  <2>1. i \in 1 .. L /\ requests'[i] = requests[i]
    BY <1>1, <1>2
  <2>2. CASE j \in 1 .. L
    BY <1>0, <2>1, <2>2, <1>2 DEF IInv, InOrder
  <2>3. CASE j = L + 1
    <3>1. op = "es" /\ requests'[j].n = n
      BY <2>3, <1>2, <1>2a
    <3>2. requests[i].n < n \/ (requests[i].n = n /\ ~requests[i].ok)
      BY <1>0, <2>1, <3>1
    <3> QED BY <2>1, <3>1, <3>2
  <2> QED BY <2>2, <2>3, <1>2e
<1>7. OneUpload'
  <2>1. ASSUME NEW j \in 1 .. L + 1, requests'[j].op # "begin"
        PROVE  \E i \in 1 .. j - 1 :
                 Acknowledged("begin", i)' /\ requests'[i].id = requests'[j].id
    <3>1. CASE j \in 1 .. L
      <4>1. PICK i \in 1 .. j - 1 :
              Acknowledged("begin", i) /\ requests[i].id = requests[j].id
        BY <1>0, <2>1, <3>1, <1>2 DEF IInv, OneUpload
      <4> QED BY <4>1, <3>1, <1>1, <1>2, <1>2c, <1>2f
    <3>2. CASE j = L + 1
      <4>1. PICK i \in 1 .. L : Acknowledged("begin", i) /\ requests[i].id = id
        BY <1>0, <2>1, <3>2, <1>2, <1>2a
      <4> QED BY <4>1, <3>2, <1>1, <1>2, <1>2a, <1>2c, <1>2f
    <3> QED BY <2>1, <3>1, <3>2, <1>2e
  <2>2. ASSUME NEW j \in 1 .. L + 1, Acknowledged("begin", j)',
               NEW i \in 1 .. L + 1, requests'[i].op = "begin"
        PROVE  i <= j
    <3>1. CASE j = L + 1
      BY <3>1, <1>1
    <3>2. CASE j \in 1 .. L
      <4>1. Acknowledged("begin", j)
        BY <2>2, <3>2, <1>2c, <1>2f
      <4>2. op # "begin"
        BY <1>0, <4>1, <3>2
      <4>3. i \in 1 .. L /\ requests[i].op = "begin"
        BY <4>2, <2>2, <1>2, <1>2a, <1>2e
      <4> QED BY <1>0, <4>1, <4>3, <3>2 DEF IInv, OneUpload
    <3> QED BY <3>1, <3>2, <1>2e
  <2> QED BY <2>1, <2>2, <1>2 DEF OneUpload
<1>8. FramesAfterInit'
  <2>1. ASSUME NEW j \in 1 .. L + 1, requests'[j].op = "es"
        PROVE  \E i \in 1 .. j - 1 : Acknowledged("init", i)'
    <3>1. CASE j \in 1 .. L
      <4>1. PICK i \in 1 .. j - 1 : Acknowledged("init", i)
        BY <1>0, <2>1, <3>1, <1>2 DEF IInv, FramesAfterInit
      <4> QED BY <4>1, <3>1, <1>1, <1>2, <1>2c, <1>2f
    <3>2. CASE j = L + 1
      <4>1. PICK i \in 1 .. L : Acknowledged("init", i)
        BY <1>0, <2>1, <3>2, <1>2, <1>2a
      <4> QED BY <4>1, <3>2, <1>1, <1>2c, <1>2f
    <3> QED BY <2>1, <3>1, <3>2, <1>2e
  <2>2. ASSUME NEW j \in 1 .. L + 1, Acknowledged("init", j)',
               NEW i \in 1 .. L + 1, requests'[i].op = "init"
        PROVE  i <= j
    <3>1. CASE j = L + 1
      BY <3>1, <1>1
    <3>2. CASE j \in 1 .. L
      <4>1. Acknowledged("init", j)
        BY <2>2, <3>2, <1>2c, <1>2f
      <4>2. op # "init"
        BY <1>0, <4>1, <3>2
      <4>3. i \in 1 .. L /\ requests[i].op = "init"
        BY <4>2, <2>2, <1>2, <1>2a, <1>2e
      <4> QED BY <1>0, <4>1, <4>3, <3>2 DEF IInv, FramesAfterInit
    <3> QED BY <3>1, <3>2, <1>2e
  <2> QED BY <2>1, <2>2, <1>2 DEF FramesAfterInit
<1>9. InitHasBothTracks'
  BY <1>0, <1>1, <1>2, <1>2a DEF IInv, InitHasBothTracks, HasKind
<1>10. EndAfterDrain'
  <2> SUFFICES ASSUME NEW j \in 1 .. L + 1, requests'[j].op = "end",
                      NEW k \in 1 .. requests'[j].n
               PROVE  Settled(k, j - 1)'
    BY <1>2 DEF EndAfterDrain
  <2>1. CASE j \in 1 .. L
    BY <1>0, <2>1, <1>1, <1>2 DEF IInv, EndAfterDrain
  <2>2. CASE j = L + 1
    BY <1>0, <2>2, <1>1, <1>2, <1>2a
  <2> QED BY <2>1, <2>2, <1>1
<1>11. QuietAfterEnd'
  <2> SUFFICES ASSUME NEW i \in 1 .. L + 1, NEW j \in 1 .. L + 1, i < j,
                      Acknowledged("end", i)'
               PROVE  requests'[j].op = "end"
    BY <1>2 DEF QuietAfterEnd
  <2>1. i \in 1 .. L /\ Acknowledged("end", i)
    BY <1>1, <1>2c, <1>2e, <1>2f
  <2>2. CASE j \in 1 .. L
    BY <1>0, <2>1, <2>2, <1>2 DEF IInv, QuietAfterEnd
  <2>3. CASE j = L + 1
    BY <1>0, <2>1, <2>3, <1>2, <1>2a
  <2> QED BY <2>2, <2>3, <1>2e
<1>12. KeyFrameFirst'
  BY DEF IInv, KeyFrameFirst
<1> QED BY <1>3, <1>4, <1>5, <1>6, <1>7, <1>8, <1>9, <1>10, <1>11, <1>12 DEF IInv

(* A start, acknowledged or not, keeps the invariant. *)
LEMMA StartIInv ==
  ASSUME IInv, NEW ok \in BOOLEAN, Start(ok)
  PROVE  IInv'
<1>1. /\ TypeOK
      /\ phase = "begin"
      /\ Process("begin", Len(requests) + 1, Len(accepted), ok)
      /\ phase' = IF ok THEN "init" ELSE phase
      /\ UNCHANGED <<accepted, done>>
  BY DEF IInv, Start
<1>2. /\ Len(requests) + 1 \in Nat /\ Len(accepted) \in Nat /\ Len(accepted) \in 0 .. Len(accepted)
      /\ phase' \in Phase /\ done' \in done .. Len(accepted) /\ "begin" \in Op
      /\ done = 0
  BY <1>1 DEF IInv, TypeOK, Phase, Op, PhaseAgrees
<1>3. \A j \in 1 .. Len(requests) : requests[j].op = "begin" /\ ~requests[j].ok
  BY <1>1 DEF IInv, PhaseAgrees
<1>4. PICK L \in Nat : L = Len(requests)
  BY <1>1 DEF TypeOK
<1>5. /\ Len(requests') = L + 1
      /\ requests'[L + 1].op = "begin" /\ requests'[L + 1].ok = ok
      /\ \A i \in 1 .. L : requests'[i] = requests[i]
  <2>1. /\ Len(requests') = Len(requests) + 1
        /\ requests'[Len(requests) + 1] =
             [op |-> "begin", id |-> Len(requests) + 1, n |-> Len(accepted), ok |-> ok]
        /\ \A i \in 1 .. Len(requests) : requests'[i] = requests[i]
    BY <1>1, <1>2, ProcessFacts
  <2> QED BY <2>1, <1>4
<1>6. PhaseAgrees'
  BY <1>1, <1>2, <1>3, <1>4, <1>5 DEF PhaseAgrees, Acknowledged
<1>7. DoneIsSettled'
  BY <1>1, <1>2 DEF DoneIsSettled
<1>8. \A o \in Op, i \in 1 .. Len(requests) : ~Acknowledged(o, i)
  BY <1>3 DEF Acknowledged
<1>9. "end" \in Op
  BY DEF Op
<1> QED BY <1>1, <1>2, <1>6, <1>7, <1>8, <1>9, ProcessIInv

(* The uploader holds the id of an upload it has started, so that requests *)
(* that name one follow an acknowledged begin.                             *)
LEMMA StartedFacts ==
  ASSUME TypeOK, NEW id \in Started
  PROVE  /\ id \in Nat
         /\ \E i \in 1 .. Len(requests) : Acknowledged("begin", i) /\ requests[i].id = id
<1>1. PICK i \in 1 .. Len(requests) : Acknowledged("begin", i) /\ requests[i].id = id
  BY DEF Started, Acknowledged
<1>2. requests[i] \in Request
  BY DEF TypeOK
<1> QED BY <1>1, <1>2 DEF Request

(* An initialisation, acknowledged or not, keeps the invariant. *)
LEMMA InitialiseIInv ==
  ASSUME IInv, NEW id \in Started, NEW ok \in BOOLEAN, Initialise(id, ok)
  PROVE  IInv'
<1>1. /\ TypeOK
      /\ phase = "init"
      /\ \A k \in Kind : HasKind(k, Len(accepted))
      /\ Process("init", id, Len(accepted), ok)
      /\ phase' = IF ok THEN "publishing" ELSE phase
      /\ UNCHANGED <<accepted, done>>
  BY DEF IInv, Initialise
<1>2. /\ id \in Nat /\ Len(accepted) \in Nat /\ Len(accepted) \in 0 .. Len(accepted)
      /\ phase' \in Phase /\ done' \in done .. Len(accepted) /\ "init" \in Op
      /\ done = 0
  BY <1>1, StartedFacts DEF IInv, TypeOK, Phase, Op, PhaseAgrees
<1>3. \E i \in 1 .. Len(requests) : Acknowledged("begin", i) /\ requests[i].id = id
  BY <1>1, StartedFacts
<1>3a. \A j \in 1 .. Len(requests) :
        requests[j].op # "es" /\ ~Acknowledged("init", j) /\ ~Acknowledged("end", j)
  BY <1>1 DEF IInv, PhaseAgrees
<1>4. PICK L \in Nat : L = Len(requests)
  BY <1>1 DEF TypeOK
<1>5. /\ Len(requests') = L + 1
      /\ requests'[L + 1].op = "init" /\ requests'[L + 1].ok = ok
      /\ \A i \in 1 .. L : requests'[i] = requests[i]
  <2>1. /\ Len(requests') = Len(requests) + 1
        /\ requests'[Len(requests) + 1] = [op |-> "init", id |-> id, n |-> Len(accepted), ok |-> ok]
        /\ \A i \in 1 .. Len(requests) : requests'[i] = requests[i]
    BY <1>1, <1>2, ProcessFacts
  <2> QED BY <2>1, <1>4
<1>6. PhaseAgrees'
  BY <1>1, <1>2, <1>3, <1>3a, <1>4, <1>5 DEF PhaseAgrees, Acknowledged
<1>7. DoneIsSettled'
  BY <1>1, <1>2 DEF DoneIsSettled
<1> QED BY <1>1, <1>2, <1>3, <1>3a, <1>6, <1>7, ProcessIInv

(* A frame sent, acknowledged or not, keeps the invariant. *)
LEMMA UploadIInv ==
  ASSUME IInv, NEW id \in Started, NEW ok \in BOOLEAN, Upload(id, ok)
  PROVE  IInv'
<1>1. /\ TypeOK
      /\ phase = "publishing"
      /\ done < Len(accepted)
      /\ Process("es", id, done + 1, ok)
      /\ done' = IF ok THEN done + 1 ELSE done
      /\ UNCHANGED <<accepted, phase>>
  BY DEF IInv, Upload
<1>2. /\ id \in Nat /\ Len(accepted) \in Nat /\ done \in Nat /\ done + 1 \in Nat
      /\ done + 1 \in 0 .. Len(accepted) /\ done' \in Nat
      /\ phase' \in Phase /\ done' \in done .. Len(accepted) /\ "es" \in Op
  BY <1>1, StartedFacts DEF IInv, TypeOK, Op
<1>3. \E i \in 1 .. Len(requests) : Acknowledged("begin", i) /\ requests[i].id = id
  BY <1>1, StartedFacts
<1>3a. /\ \A j \in 1 .. Len(requests) : ~Acknowledged("end", j)
       /\ \E j \in 1 .. Len(requests) : Acknowledged("init", j)
  BY <1>1 DEF IInv, PhaseAgrees
<1>4. PICK L \in Nat : L = Len(requests)
  BY <1>1 DEF TypeOK
<1>5. /\ Len(requests') = L + 1
      /\ requests'[L + 1] = [op |-> "es", id |-> id, n |-> done + 1, ok |-> ok]
      /\ \A i \in 1 .. L : requests'[i] = requests[i]
      /\ \A k \in Int, m \in 0 .. L : Settled(k, m) <=> Settled(k, m)'
  <2>1. /\ Len(requests') = Len(requests) + 1
        /\ requests'[Len(requests) + 1] = [op |-> "es", id |-> id, n |-> done + 1, ok |-> ok]
        /\ \A i \in 1 .. Len(requests) : requests'[i] = requests[i]
        /\ \A k \in Int, m \in 0 .. Len(requests) : Settled(k, m) <=> Settled(k, m)'
    BY <1>1, <1>2, ProcessFacts
  <2> QED BY <2>1, <1>4
<1>6. PhaseAgrees'
  <2>1. /\ requests'[L + 1].op = "es"
        /\ phase' = "publishing"
    BY <1>1, <1>5
  <2> QED BY <2>1, <1>3, <1>3a, <1>4, <1>5 DEF PhaseAgrees, Acknowledged
<1>7. DoneIsSettled'
  <2> SUFFICES ASSUME NEW k \in 1 .. done' PROVE Settled(k, L + 1)'
    BY <1>5 DEF DoneIsSettled
  <2>1. CASE k \in 1 .. done
    <3>1. Settled(k, L)
      BY <2>1, <1>4 DEF IInv, DoneIsSettled
    <3>2. Settled(k, L)'
      BY <3>1, <1>4, <1>5, <1>2
    <3> QED BY <3>2, <1>4 DEF Settled
  <2>2. CASE k = done + 1
    <3>1. ok
      BY <2>2, <1>1, <1>2
    <3>2. Acknowledged("es", L + 1)' /\ requests'[L + 1].n = k
      BY <2>2, <3>1, <1>5 DEF Acknowledged
    <3> QED BY <3>2, <1>4 DEF Settled
  <2> QED BY <2>1, <2>2, <1>1, <1>2
<1>8. \A k \in 1 .. done + 1 - 1 : Settled(k, Len(requests))
  BY <1>2 DEF IInv, DoneIsSettled
<1>9. \A i \in 1 .. Len(requests) :
        requests[i].op = "es" =>
          \/ requests[i].n < done + 1
          \/ requests[i].n = done + 1 /\ ~requests[i].ok
  <2> SUFFICES ASSUME NEW i \in 1 .. Len(requests), requests[i].op = "es"
               PROVE  \/ requests[i].n < done + 1
                      \/ requests[i].n = done + 1 /\ ~requests[i].ok
    OBVIOUS
  <2>1. requests[i] \in Request
    BY <1>1 DEF TypeOK
  <2>2. /\ requests[i].n \in Nat
        /\ requests[i].n <= done + 1
        /\ requests[i].ok => requests[i].n <= done
    BY <2>1 DEF Request, IInv, SeenOrRetried
  <2> QED BY <2>2, <1>2
<1>10. done + 1 >= 1 /\ done + 1 <= done' + 1 /\ (ok => done + 1 <= done')
  BY <1>1, <1>2
<1> QED BY <1>1, <1>2, <1>3, <1>3a, <1>6, <1>7, <1>8, <1>9, <1>10, ProcessIInv

(* A DELETE, acknowledged or not, keeps the invariant. *)
LEMMA FinishIInv ==
  ASSUME IInv, NEW id \in Started, NEW ok \in BOOLEAN, Finish(id, ok)
  PROVE  IInv'
<1>1. /\ TypeOK
      /\ phase # "begin"
      /\ done = Len(accepted)
      /\ Process("end", id, Len(accepted), ok)
      /\ phase' = IF ok THEN "end" ELSE phase
      /\ UNCHANGED <<accepted, done>>
  BY DEF IInv, Finish
<1>2. /\ id \in Nat /\ Len(accepted) \in Nat /\ Len(accepted) \in 0 .. Len(accepted)
      /\ phase' \in Phase /\ done' \in done .. Len(accepted) /\ "end" \in Op
  BY <1>1, StartedFacts DEF IInv, TypeOK, Phase, Op
<1>3. \E i \in 1 .. Len(requests) : Acknowledged("begin", i) /\ requests[i].id = id
  BY <1>1, StartedFacts
<1>4. PICK L \in Nat : L = Len(requests)
  BY <1>1 DEF TypeOK
<1>5. /\ Len(requests') = L + 1
      /\ requests'[L + 1].op = "end" /\ requests'[L + 1].ok = ok
      /\ \A i \in 1 .. L : requests'[i] = requests[i]
      /\ \A k \in Int, m \in 0 .. L : Settled(k, m) <=> Settled(k, m)'
  <2>1. /\ Len(requests') = Len(requests) + 1
        /\ requests'[Len(requests) + 1] = [op |-> "end", id |-> id, n |-> Len(accepted), ok |-> ok]
        /\ \A i \in 1 .. Len(requests) : requests'[i] = requests[i]
        /\ \A k \in Int, m \in 0 .. Len(requests) : Settled(k, m) <=> Settled(k, m)'
    BY <1>1, <1>2, ProcessFacts
  <2> QED BY <2>1, <1>4
<1>5a. \A o \in Op, i \in 1 .. L : Acknowledged(o, i)' <=> Acknowledged(o, i)
  BY <1>5 DEF Acknowledged
<1>6. PhaseAgrees'
  <2>1. phase' # "begin" /\ (phase' # "end" => phase' = phase /\ ~ok)
    BY <1>1
  <2>2. \E j \in 1 .. L + 1 : Acknowledged("begin", j)'
    BY <1>3, <1>4, <1>5a DEF Op
  <2>3. phase = "init" =>
          \A j \in 1 .. L : requests[j].op # "es" /\ ~Acknowledged("init", j)
    BY <1>4 DEF IInv, PhaseAgrees
  <2>4. phase' = "init" =>
          \A j \in 1 .. L + 1 : requests'[j].op # "es" /\ ~Acknowledged("init", j)'
    BY <2>1, <2>3, <1>5 DEF Acknowledged
  <2>5. phase = "publishing" => \E j \in 1 .. L : Acknowledged("init", j)
    BY <1>4 DEF IInv, PhaseAgrees
  <2>6. phase' = "publishing" => \E j \in 1 .. L + 1 : Acknowledged("init", j)'
    BY <2>1, <2>5, <1>5a DEF Op
  <2>7. phase' # "end" => \A j \in 1 .. L : ~Acknowledged("end", j)
    BY <2>1, <1>4 DEF IInv, PhaseAgrees
  <2>8. phase' # "end" => \A j \in 1 .. L + 1 : ~Acknowledged("end", j)'
    BY <2>1, <2>7, <1>5 DEF Acknowledged
  <2>9. phase' \in {"begin", "init"} => done' = 0
    BY <2>1, <1>1 DEF IInv, PhaseAgrees
  <2> QED BY <2>1, <2>2, <2>4, <2>6, <2>8, <2>9, <1>5 DEF PhaseAgrees
<1>7. DoneIsSettled'
  <2> SUFFICES ASSUME NEW k \in 1 .. done PROVE Settled(k, L + 1)'
    BY <1>1, <1>5 DEF DoneIsSettled
  <2>1. Settled(k, L)
    BY <1>4 DEF IInv, DoneIsSettled
  <2>2. Settled(k, L)'
    BY <2>1, <1>4, <1>5, <1>1, <1>2
  <2> QED BY <2>2, <1>4 DEF Settled
<1>8. \A k \in 1 .. Len(accepted) : Settled(k, Len(requests))
  BY <1>1 DEF IInv, DoneIsSettled
<1> QED BY <1>1, <1>2, <1>3, <1>6, <1>7, <1>8, ProcessIInv

(* Dropping an empty frame keeps the invariant. *)
LEMMA SkipEmptyIInv ==
  ASSUME IInv, SkipEmpty
  PROVE  IInv'
<1>1. /\ phase = "publishing"
      /\ done < Len(accepted)
      /\ accepted[done + 1].empty
      /\ done' = done + 1
      /\ UNCHANGED <<accepted, requests, phase>>
  BY DEF SkipEmpty
<1>2. TypeOK /\ done \in Nat /\ Len(accepted) \in Nat
  BY DEF IInv, TypeOK
<1>3. TypeOK' /\ PhaseAgrees'
  BY <1>1, <1>2 DEF IInv, TypeOK, PhaseAgrees, Acknowledged
<1>4. SeenOrRetried'
  <2> SUFFICES ASSUME NEW j \in 1 .. Len(requests)
               PROVE  /\ requests[j].n <= Len(accepted)
                      /\ requests[j].op = "es" =>
                           /\ requests[j].n >= 1
                           /\ requests[j].n <= done + 1 + 1
                           /\ requests[j].ok => requests[j].n <= done + 1
    BY <1>1 DEF SeenOrRetried
  <2>1. requests[j] \in Request
    BY <1>2 DEF TypeOK
  <2>2. requests[j].n \in Nat
    BY <2>1 DEF Request
  <2> QED BY <2>2, <1>2 DEF IInv, SeenOrRetried
<1>5. DoneIsSettled'
  <2>1. \A k \in 1 .. done + 1 : Settled(k, Len(requests))
    BY <1>1, <1>2 DEF IInv, DoneIsSettled, Settled
  <2> QED BY <2>1, <1>1 DEF DoneIsSettled, Settled, Acknowledged
<1>6. NoGap' /\ InOrder' /\ OneUpload' /\ FramesAfterInit'
  BY <1>1 DEF IInv, NoGap, InOrder, OneUpload, FramesAfterInit, Acknowledged, Settled
<1>7. InitHasBothTracks' /\ EndAfterDrain' /\ QuietAfterEnd' /\ KeyFrameFirst'
  BY <1>1 DEF IInv, InitHasBothTracks, EndAfterDrain, QuietAfterEnd, KeyFrameFirst,
              HasKind, Acknowledged, Settled
<1> QED BY <1>3, <1>4, <1>5, <1>6, <1>7 DEF IInv

(* A step that leaves the upload alone keeps the invariant. *)
LEMMA StutterIInv ==
  ASSUME IInv, UNCHANGED vars
  PROVE  IInv'
BY DEF IInv, vars, TypeOK, PhaseAgrees, SeenOrRetried, DoneIsSettled, NoGap, InOrder,
       OneUpload, FramesAfterInit, InitHasBothTracks, EndAfterDrain, QuietAfterEnd,
       KeyFrameFirst, HasKind, Acknowledged, Settled

(* Every step keeps the invariant. *)
LEMMA NextIInv ==
  ASSUME IInv, [Next]_vars
  PROVE  IInv'
BY AcceptIInv, StartIInv, InitialiseIInv, UploadIInv, FinishIInv, SkipEmptyIInv,
   StutterIInv DEF Next

(* An upload never has a gap, never goes back, is one upload, is           *)
(* initialised once with both tracks before any frame, is closed drained   *)
(* and then left alone: what publish_to_streamer promises the streamer,    *)
(* for streams of every length and any number of failed requests.          *)
THEOREM UploadSafety ==
  Spec => [](/\ TypeOK /\ NoGap /\ InOrder /\ OneUpload /\ FramesAfterInit
             /\ InitHasBothTracks /\ EndAfterDrain /\ QuietAfterEnd /\ KeyFrameFirst)
<1>1. Spec => []IInv
  BY InitIInv, NextIInv, PTL DEF Spec
<1>2. IInv => /\ TypeOK /\ NoGap /\ InOrder /\ OneUpload /\ FramesAfterInit
              /\ InitHasBothTracks /\ EndAfterDrain /\ QuietAfterEnd /\ KeyFrameFirst
  BY DEF IInv
<1> QED BY <1>1, <1>2, PTL

=============================================================================
