------------------------- MODULE ControlRecordProofs -------------------------
(* Proofs about ControlRecord, for any readers, read attempts and bounds: a    *)
(* record that was published stays readable, the visible generation never goes *)
(* back, a read lags by at most one generation, and it is refused only when    *)
(* publications overtake every attempt.                                        *)
EXTENDS ControlRecord, TLAPS

-----------------------------------------------------------------------------
(* The inductive invariant.                                                   *)

Record == [valid : BOOLEAN, gen : Nat, payload : Nat]
Image == [SlotPages -> Record]
Publication == [phase : {"idle", "writing", "barrier"}, target : SlotPages, gen : Nat,
                payload : Nat, left : {0, 1, 2}]
Read == [phase : {"idle", "first", "decode", "answered", "refused"}, got : Image,
         attempt : Nat, start : Nat]

TypeOK ==
    /\ present \in BOOLEAN /\ presentDisk \in BOOLEAN
    /\ slots \in Image /\ disk \in Image
    /\ pub \in Publication /\ minted \in Nat /\ acked \in Nat
    /\ reads \in [Readers -> Read] /\ lastSeen \in [Readers -> Nat]
    /\ result \in [Readers -> Record]
    /\ abandoned \in Nat /\ outages \in Nat

Held(s) == s.valid /\ s.gen > 0

\* Slot i holds the newest record, and the other one its predecessor, if anything.
Leads(img, i) == Held(img[i]) /\ (Held(img[Other(i)]) => img[Other(i)].gen + 1 = img[i].gen)

\* A publication tears only the older slot, and what it writes is the next generation.
Publishing ==
    /\ pub.phase # "idle" => present /\ pub.payload = minted /\ pub.left \in {1, 2}
    /\ pub.phase = "writing" => /\ slots[pub.target] = Torn
                                /\ Held(slots[Other(pub.target)])
                                /\ slots[Other(pub.target)].gen + 1 = pub.gen
    /\ pub.phase = "barrier" => /\ slots[pub.target] = Filled(pub.gen, pub.payload)
                                /\ Leads(slots, pub.target)
    /\ minted >= acked
    /\ presentDisk => present

\* Without a second kind of failure a file has a newest record, no older than the
\* last publication that returned.
Published ==
    OneKindOfFailure =>
        /\ present => \E i \in SlotPages : Leads(slots, i)
        /\ acked > 0 => /\ present /\ presentDisk
                        /\ \A i \in SlotPages : Leads(slots, i) => slots[i].payload >= acked

\* While no publication was cut short, only the slot being written differs from the
\* device, and the other one is what a power loss falls back to.
Forced ==
    abandoned = 0 =>
        /\ pub.phase = "idle" => disk = slots
        /\ pub.phase # "idle" =>
              LET t == pub.target
                  o == Other(t)
              IN  /\ disk[o] = slots[o]
                  /\ Held(disk[t]) /\ Held(disk[o]) => disk[t].gen + 1 = disk[o].gen
                  /\ Held(disk[o]) \/ disk = slots
                  /\ acked > 0 => Held(disk[o]) /\ disk[o].payload >= acked

\* What a read has in hand is older than what is in the slots, and only by a
\* publication that became visible meanwhile.
Behind(r) ==
    \A i \in SlotPages : Held(reads[r].got[i]) =>
        /\ Held(slots[i]) => reads[r].got[i].gen <= slots[i].gen
        /\ ~Held(slots[i]) => reads[r].got[i].gen < CurrentGen
        /\ Held(slots[Other(i)]) => reads[r].got[i].gen # slots[Other(i)].gen

ReadFirst(r) ==
    /\ reads[r].attempt >= 1
    /\ \E j \in SlotPages : /\ Leads(reads[r].got, j)
                            /\ reads[r].got[j].gen + 1 >= reads[r].start + reads[r].attempt
                            /\ reads[r].got[j].gen >= lastSeen[r]
    /\ Behind(r)

ReadSecond(r) ==
    LET img == reads[r].got
    IN  /\ reads[r].attempt >= 1
        /\ \/ /\ Readable(img) /\ Newest(img).gen >= lastSeen[r]
              /\ Newest(img).gen + 1 >= reads[r].start + reads[r].attempt
           \/ CurrentGen >= reads[r].start + reads[r].attempt
        /\ Readable(img) => Newest(img).gen + 1 >= reads[r].start /\ Newest(img).gen <= CurrentGen

ReadOK(r) ==
    /\ reads[r].phase # "idle" => present
    /\ OneKindOfFailure =>
          /\ lastSeen[r] <= CurrentGen
          /\ reads[r].phase = "first" => ReadFirst(r)
          /\ reads[r].phase = "decode" => ReadSecond(r)
          /\ reads[r].phase = "answered" => result[r].gen + 1 >= reads[r].start
          /\ reads[r].phase = "refused" => CurrentGen >= reads[r].start + ReadAttempts

RecordInvariant ==
    TypeOK /\ Publishing /\ Published /\ Forced /\ \A r \in Readers : ReadOK(r)

-----------------------------------------------------------------------------
(* The record _select_slot chooses.                                           *)

\* Slot i holds a record, and the other one an older one, if anything.
Tops(img, i) == Held(img[i]) /\ (Held(img[Other(i)]) => img[Other(i)].gen < img[i].gen)

\* There are two slots, each the other of the other.
LEMMA OtherSlot ==
    ASSUME NEW i \in SlotPages
    PROVE  /\ Other(i) \in SlotPages /\ Other(i) # i /\ Other(Other(i)) = i
           /\ SlotPages = {i, Other(i)}
BY DEF SlotPages, Other

\* Either slot of an image holds a record.
LEMMA SlotTypes ==
    ASSUME NEW img \in Image, NEW i \in SlotPages
    PROVE  /\ img[i] \in Record /\ img[i].gen \in Nat /\ img[i].payload \in Nat
           /\ img[Other(i)].gen \in Nat /\ Held(img[i]) \in BOOLEAN
BY OtherSlot, Zenon DEF Image, Record, Held

\* The slot _select_slot leads with holds the newest record.
LEMMA LeadsTops ==
    ASSUME NEW img \in Image, NEW i \in SlotPages, Leads(img, i)
    PROVE  Tops(img, i)
BY SlotTypes DEF Leads, Tops

\* The newest slot is the one a decode answers with.
LEMMA TopsIsNewest ==
    ASSUME NEW img \in Image, NEW i \in SlotPages, Tops(img, i)
    PROVE  /\ Readable(img) /\ ChosenPage(img) = i /\ Newest(img) = img[i]
           /\ TargetPage(img) = Other(i)
<1>0. /\ img[i].gen \in Nat /\ img[Other(i)].gen \in Nat
      /\ Other(i) \in SlotPages /\ Other(i) # i /\ SlotPages = {i, Other(i)}
  BY SlotTypes, OtherSlot, Zenon
<1>1. i \in Populated(img) /\ \A j \in Populated(img) : j = i \/ img[j].gen < img[i].gen
  BY <1>0, Zenon DEF Populated, Tops, Held
<1>2. \A j \in Populated(img) : img[j].gen <= img[i].gen
  <2> SUFFICES ASSUME NEW j \in Populated(img)  PROVE img[j].gen <= img[i].gen
    BY Zenon
  <2>1. img[j].gen \in Nat
    BY <1>0, Zenon DEF Populated
  <2> QED  BY <1>0, <1>1, <2>1
<1>3. \A j \in Populated(img) : (\A k \in Populated(img) : img[k].gen <= img[j].gen) => j = i
  <2> SUFFICES ASSUME NEW j \in Populated(img), j # i,
                      \A k \in Populated(img) : img[k].gen <= img[j].gen
               PROVE  FALSE
    BY Zenon
  <2>1. img[i].gen <= img[j].gen /\ img[j].gen < img[i].gen
    BY <1>1, Zenon
  <2>2. j = Other(i)
    BY <1>0, Zenon DEF Populated
  <2> QED  BY <1>0, <2>1, <2>2
<1>4. ChosenPage(img) = i
  BY <1>1, <1>2, <1>3, Zenon DEF ChosenPage
<1>5. ~Ambiguous(img)
  BY <1>0, <1>1 DEF Ambiguous, SlotPages
<1> QED  BY <1>1, <1>4, <1>5, Zenon DEF Readable, Newest, TargetPage

\* An image a decode accepts has such a slot.
LEMMA ReadableTops ==
    ASSUME NEW img \in Image, Readable(img)
    PROVE  ChosenPage(img) \in SlotPages /\ Tops(img, ChosenPage(img))
<1>1. PICK i \in SlotPages : i \in Populated(img)
  BY Zenon DEF Readable, Populated
<1>2. /\ img[i].gen \in Nat /\ img[Other(i)].gen \in Nat
      /\ Other(i) \in SlotPages /\ Other(i) # i /\ SlotPages = {i, Other(i)}
      /\ Other(Other(i)) = i
  BY SlotTypes, OtherSlot, Zenon
<1>3. Held(img[i])
  BY <1>1, Zenon DEF Populated, Held
<1>4. Held(img[Other(i)]) => img[i].gen # img[Other(i)].gen
  <2> SUFFICES ASSUME Held(img[Other(i)])  PROVE img[i].gen # img[Other(i)].gen
    BY Zenon
  <2>1. Populated(img) = SlotPages
    BY <1>1, <1>2, Zenon DEF Populated, Held
  <2>2. img[1].gen # img[2].gen
    BY <2>1, Zenon DEF Readable, Ambiguous
  <2> QED  BY <2>2 DEF Other, SlotPages
<1>5. Tops(img, i) \/ Tops(img, Other(i))
  BY <1>2, <1>3, <1>4 DEF Tops
<1> QED  BY <1>2, <1>5, TopsIsNewest, Zenon

\* The generation a reader would find is that of the newest slot.
LEMMA TopsIsCurrent ==
    ASSUME TypeOK, present, NEW i \in SlotPages, Tops(slots, i)
    PROVE  CurrentGen = slots[i].gen
BY TopsIsNewest, Zenon DEF TypeOK, CurrentGen

\* A readable image has a generation.
LEMMA NewestIsNatural ==
    ASSUME NEW img \in Image, Readable(img)
    PROVE  Newest(img).gen \in Nat
BY ReadableTops, TopsIsNewest, SlotTypes, Zenon

\* The generation in the slots is a number.
LEMMA CurrentIsNatural ==
    ASSUME TypeOK
    PROVE  CurrentGen \in Nat
BY NewestIsNatural, Zenon DEF CurrentGen, TypeOK

-----------------------------------------------------------------------------
(* The steps of a publisher, as readers see them.                             *)

\* The older slot of a file is about to be overwritten.
Tears(t) ==
    /\ present /\ present' /\ t \in SlotPages /\ Tops(slots, Other(t))
    /\ slots' = [slots EXCEPT ![t] = Torn]

\* The next generation becomes visible in it.
Fills(t, s) ==
    /\ present /\ present' /\ t \in SlotPages /\ ~Held(slots[t]) /\ Held(slots[Other(t)])
    /\ Held(s) /\ s \in Record /\ slots[Other(t)].gen + 1 = s.gen
    /\ slots' = [slots EXCEPT ![t] = s]

Appears == ~present /\ present'

\* Without an outage the slots change in three ways: the file appears, the write of a
\* slot begins, or it ends.
LEMMA PublisherSteps ==
    ASSUME TypeOK, Publishing, Next, outages' = outages
    PROVE  \/ UNCHANGED <<slots, present>> \/ Appears
           \/ \E t \in SlotPages : Tears(t) \/ \E s \in Record : Fills(t, s)
<1>1. ASSUME NEW count, Bootstrap(count)  PROVE Appears
  BY <1>1, Zenon DEF Bootstrap, Appears
<1>2. ASSUME NEW count, WriteSlot(count)  PROVE \E t \in SlotPages : Tears(t)
  <2> DEFINE t == TargetPage(slots)
             c == ChosenPage(slots)
  <2>1. present /\ present' = present /\ Readable(slots) /\ slots' = [slots EXCEPT ![t] = Torn]
    BY <1>2, Zenon DEF WriteSlot
  <2>2. c \in SlotPages /\ Tops(slots, c)
    BY <2>1, ReadableTops, Zenon DEF TypeOK
  <2>3. t = Other(c) /\ t \in SlotPages /\ Other(t) = c
    BY <2>2, OtherSlot, Zenon DEF TargetPage
  <2> QED  BY <2>1, <2>2, <2>3, Zenon DEF Tears
<1>3. ASSUME WriteDone  PROVE \E t \in SlotPages : \E s \in Record : Fills(t, s)
  <2> DEFINE t == pub.target
             s == Filled(pub.gen, pub.payload)
  <2>1. pub.phase = "writing" /\ slots' = [slots EXCEPT ![t] = s] /\ present' = present
    BY <1>3, Zenon DEF WriteDone
  <2>2. t \in SlotPages /\ s \in Record /\ pub.gen \in Nat
    BY Zenon DEF TypeOK, Publication, Filled, Record
  <2>3. present /\ ~Held(slots[t]) /\ Held(slots[Other(t)]) /\ slots[Other(t)].gen + 1 = pub.gen
    BY <2>1 DEF Publishing, Held, Torn
  <2>4. slots[Other(t)].gen \in Nat
    BY <2>2, SlotTypes, Zenon DEF TypeOK
  <2>5. Held(s) /\ s.gen = pub.gen
    BY <2>2, <2>3, <2>4 DEF Held, Filled
  <2> QED  BY <2>1, <2>2, <2>3, <2>5, Zenon DEF Fills
<1>4. ASSUME Barrier
      PROVE  UNCHANGED <<slots, present>> \/ \E t \in SlotPages : Tears(t)
  <2> DEFINE t == Other(pub.target)
  <2>1. /\ pub.phase = "barrier" /\ present' = present
        /\ slots' = slots \/ slots' = [slots EXCEPT ![t] = Torn]
    BY <1>4, Zenon DEF Barrier
  <2>2. pub.target \in SlotPages /\ slots \in Image
    BY Zenon DEF TypeOK, Publication
  <2>3. present /\ Leads(slots, pub.target)
    BY <2>1, Zenon DEF Publishing
  <2>4. t \in SlotPages /\ Other(t) = pub.target /\ Tops(slots, Other(t))
    BY <2>2, <2>3, OtherSlot, LeadsTops, Zenon
  <2> QED  BY <2>1, <2>3, <2>4, Zenon DEF Tears
<1>5. ASSUME Abandon \/ \E r \in Readers : \/ ReadStart(r) \/ ReadAbsent(r) \/ ReadDecode(r)
                                           \/ ReadReturn(r) \/ \E i \in SlotPages : ReadLate(r, i)
      PROVE  UNCHANGED <<slots, present>>
  BY <1>5, Zenon DEF Abandon, ReadStart, ReadAbsent, ReadDecode, ReadReturn, ReadLate
<1>6. ~PowerLoss
  BY DEF PowerLoss, TypeOK
<1> QED  BY <1>1, <1>2, <1>3, <1>4, <1>5, <1>6, Zenon DEF Next

\* A torn and an empty slot are records that hold nothing.
LEMMA TornTypes == Torn \in Record /\ Empty \in Record /\ ~Held(Torn) /\ ~Held(Empty)
BY DEF Torn, Empty, Record, Held

\* None of them takes the visible generation back.
LEMMA CurrentKept ==
    ASSUME TypeOK, TypeOK', Publishing, Next, outages' = outages
    PROVE  CurrentGen' >= CurrentGen
<1>0. slots \in Image /\ slots' \in Image
  BY Zenon DEF TypeOK
<1>a. CurrentGen \in Nat
  BY CurrentIsNatural, Zenon
<1>1. CASE UNCHANGED <<slots, present>>
  BY <1>1, <1>a DEF CurrentGen
<1>2. CASE Appears
  <2>1. CurrentGen = 0
    BY <1>2, Zenon DEF Appears, CurrentGen
  <2>2. present' => (Readable(slots') => Newest(slots').gen \in Nat)
    BY <1>0, ReadableTops, TopsIsNewest, SlotTypes, Zenon
  <2>3. CurrentGen' \in Nat
    BY <2>2, Zenon DEF CurrentGen
  <2> QED  BY <2>1, <2>3
<1>3. ASSUME NEW t \in SlotPages, Tears(t)  PROVE CurrentGen' >= CurrentGen
  <2> DEFINE o == Other(t)
  <2>1. o \in SlotPages /\ o # t /\ Other(o) = t
    BY OtherSlot, Zenon
  <2>2. CurrentGen = slots[o].gen
    BY <1>3, <2>1, TopsIsCurrent, Zenon DEF Tears
  <2>3. slots'[o] = slots[o] /\ slots'[t] = Torn
    BY <1>0, <1>3, <2>1, Zenon DEF Tears, Image
  <2>4. Tops(slots', o)
    BY <1>3, <2>1, <2>3, TornTypes, Zenon DEF Tears, Tops
  <2>5. Readable(slots') /\ Newest(slots') = slots'[o]
    BY <1>0, <2>1, <2>4, TopsIsNewest, Zenon
  <2> QED  BY <1>3, <1>a, <2>2, <2>3, <2>5 DEF Tears, CurrentGen
<1>4. ASSUME NEW t \in SlotPages, NEW s \in Record, Fills(t, s)  PROVE CurrentGen' >= CurrentGen
  <2> DEFINE o == Other(t)
  <2>1. o \in SlotPages /\ o # t /\ Other(o) = t
    BY OtherSlot, Zenon
  <2>2. Tops(slots, o)
    BY <1>4, <2>1, Zenon DEF Fills, Tops
  <2>3. CurrentGen = slots[o].gen
    BY <1>4, <2>1, <2>2, TopsIsCurrent, Zenon DEF Fills
  <2>4. slots'[o] = slots[o] /\ slots'[t] = s /\ slots[o].gen \in Nat /\ s.gen \in Nat
    BY <1>0, <1>4, <2>1, SlotTypes, Zenon DEF Fills, Image, Record
  <2>5. s.gen = slots[o].gen + 1 /\ Held(s)
    BY <1>4, Zenon DEF Fills
  <2>6. Tops(slots', t)
    BY <2>4, <2>5 DEF Tops
  <2>7. Readable(slots') /\ Newest(slots') = slots'[t]
    BY <1>0, <2>6, TopsIsNewest, Zenon
  <2>8. CurrentGen' = s.gen
    BY <1>4, <2>4, <2>7, Zenon DEF Fills, CurrentGen
  <2> QED  BY <2>3, <2>4, <2>5, <2>8
<1> QED  BY <1>1, <1>2, <1>3, <1>4, PublisherSteps, Zenon

-----------------------------------------------------------------------------
(* Types.                                                                     *)

\* The types of the two images and of the publication in progress.
LEMMA PublicationTypes ==
    ASSUME TypeOK
    PROVE  /\ slots \in Image /\ disk \in Image
           /\ pub.phase \in {"idle", "writing", "barrier"} /\ pub.target \in SlotPages
           /\ pub.gen \in Nat /\ pub.payload \in Nat /\ pub.left \in {0, 1, 2}
           /\ minted \in Nat /\ acked \in Nat /\ abandoned \in Nat /\ outages \in Nat
BY Zenon DEF TypeOK, Publication

\* The types of what one reader has.
LEMMA ReadTypes ==
    ASSUME TypeOK, NEW r \in Readers
    PROVE  /\ reads[r] \in Read /\ reads[r].got \in Image /\ reads[r].attempt \in Nat
           /\ reads[r].start \in Nat /\ lastSeen[r] \in Nat /\ result[r] \in Record
           /\ result[r].gen \in Nat
BY Zenon DEF TypeOK, Read, Record

\* An idle publication and an idle read are well formed.
LEMMA IdleTypes ==
    /\ IdlePub \in Publication /\ IdleRead \in Read
    /\ IdlePub.phase = "idle" /\ IdleRead.phase = "idle"
<1>1. [i \in SlotPages |-> Torn] \in Image
  BY TornTypes, Zenon DEF Image
<1>2. IdlePub \in Publication /\ IdlePub.phase = "idle"
  BY Zenon DEF IdlePub, Publication, SlotPages
<1>3. IdleRead \in Read /\ IdleRead.phase = "idle"
  BY <1>1, Zenon DEF IdleRead, Read
<1> QED  BY <1>2, <1>3, Zenon

\* What ReadLate and ReadDecode leave in hand.
LEMMA ReadLateEffect ==
    ASSUME TypeOK, NEW r \in Readers, NEW i \in SlotPages, ReadLate(r, i)
    PROVE  /\ reads[r].phase = "first"
           /\ reads' = [reads EXCEPT ![r] =
                           [phase |-> "decode", got |-> [reads[r].got EXCEPT ![i] = slots[i]],
                            attempt |-> reads[r].attempt, start |-> reads[r].start]]
           /\ UNCHANGED <<present, presentDisk, slots, disk, pub, minted, acked, lastSeen, result,
                          abandoned, outages>>
<1>1. reads \in [Readers -> Read] /\ reads[r] \in Read
  BY Zenon DEF TypeOK
<1>2. reads' = [reads EXCEPT ![r].phase = "decode", ![r].got[i] = slots[i]]
  BY Zenon DEF ReadLate
<1>3. reads' = [reads EXCEPT ![r] = [[reads[r] EXCEPT !.phase = "decode"]
                                        EXCEPT !.got = [reads[r].got EXCEPT ![i] = slots[i]]]]
  BY <1>1, <1>2, Zenon DEF Read
<1> QED  BY <1>1, <1>3, ZenonT(40) DEF ReadLate, Read

\* The three ways out of one attempt of a read: answer, read again, refuse.
LEMMA ReadDecodeEffect ==
    ASSUME TypeOK, NEW r \in Readers, ReadDecode(r)
    PROVE  LET img == reads[r].got
               good == Readable(img) /\ Newest(img).gen >= lastSeen[r]
           IN  /\ reads[r].phase = "decode"
               /\ \/ /\ good
                     /\ lastSeen' = [lastSeen EXCEPT ![r] = Newest(img).gen]
                     /\ result' = [result EXCEPT ![r] = Newest(img)]
                     /\ reads' = [reads EXCEPT ![r] =
                                    [phase |-> "answered", got |-> img,
                                     attempt |-> reads[r].attempt, start |-> reads[r].start]]
                  \/ /\ ~good /\ reads[r].attempt # ReadAttempts
                     /\ reads' = [reads EXCEPT ![r] =
                                    [phase |-> "first", got |-> slots,
                                     attempt |-> reads[r].attempt + 1, start |-> reads[r].start]]
                     /\ UNCHANGED <<lastSeen, result>>
                  \/ /\ ~good /\ reads[r].attempt = ReadAttempts
                     /\ reads' = [reads EXCEPT ![r] =
                                    [phase |-> "refused", got |-> img,
                                     attempt |-> reads[r].attempt, start |-> reads[r].start]]
                     /\ UNCHANGED <<lastSeen, result>>
               /\ UNCHANGED <<present, presentDisk, slots, disk, pub, minted, acked,
                              abandoned, outages>>
<1>1. reads \in [Readers -> Read] /\ reads[r] \in Read
  BY Zenon DEF TypeOK
<1>2. ASSUME NEW ph
      PROVE  [reads EXCEPT ![r].phase = ph]
               = [reads EXCEPT ![r] = [phase |-> ph, got |-> reads[r].got,
                                       attempt |-> reads[r].attempt, start |-> reads[r].start]]
  <2>1. [reads[r] EXCEPT !.phase = ph]
          = [phase |-> ph, got |-> reads[r].got, attempt |-> reads[r].attempt,
             start |-> reads[r].start]
    BY <1>1 DEF Read
  <2> QED  BY <2>1, Zenon
<1>3. [reads EXCEPT ![r].phase = "first", ![r].got = slots, ![r].attempt = @ + 1]
        = [reads EXCEPT ![r] = [phase |-> "first", got |-> slots,
                                attempt |-> reads[r].attempt + 1, start |-> reads[r].start]]
  <2> DEFINE n == reads[r].attempt + 1
  <2>1. [reads EXCEPT ![r].phase = "first", ![r].got = slots, ![r].attempt = n]
          = [reads EXCEPT ![r] = [[[reads[r] EXCEPT !.phase = "first"]
                                      EXCEPT !.got = slots] EXCEPT !.attempt = n]]
    BY <1>1, Zenon DEF Read
  <2> DEFINE a == [phase |-> "first", got |-> reads[r].got, attempt |-> reads[r].attempt,
                   start |-> reads[r].start]
             b == [phase |-> "first", got |-> slots, attempt |-> reads[r].attempt,
                   start |-> reads[r].start]
             c == [phase |-> "first", got |-> slots, attempt |-> n, start |-> reads[r].start]
  <2>4. [reads[r] EXCEPT !.phase = "first"] = a
    BY <1>1 DEF Read
  <2>5. [a EXCEPT !.got = slots] = b
    OBVIOUS
  <2>6. [b EXCEPT !.attempt = n] = c
    OBVIOUS
  <2>7. [[[reads[r] EXCEPT !.phase = "first"] EXCEPT !.got = slots] EXCEPT !.attempt = n] = c
    BY <2>4, <2>5, <2>6, Zenon
  <2> QED  BY <2>1, <2>7, Zenon
<1>4. [reads EXCEPT ![r].phase = "answered"]
        = [reads EXCEPT ![r] = [phase |-> "answered", got |-> reads[r].got,
                                attempt |-> reads[r].attempt, start |-> reads[r].start]]
  BY <1>2, Zenon
<1>5. [reads EXCEPT ![r].phase = "refused"]
        = [reads EXCEPT ![r] = [phase |-> "refused", got |-> reads[r].got,
                                attempt |-> reads[r].attempt, start |-> reads[r].start]]
  BY <1>2, Zenon
<1> QED  BY <1>3, <1>4, <1>5, Zenon DEF ReadDecode

\* What the power leaves in the slots was there before.
LEMMA PowerLossEffect ==
    ASSUME TypeOK, PowerLoss
    PROVE  /\ slots' \in Image /\ disk' = slots' /\ presentDisk' = present'
           /\ present' \in BOOLEAN /\ (present = presentDisk => present' = present)
           /\ pub' = IdlePub /\ reads' = [r \in Readers |-> IdleRead]
           /\ lastSeen' = [r \in Readers |-> 0] /\ result' = [r \in Readers |-> Torn]
           /\ minted' = minted /\ acked' = acked /\ abandoned' = abandoned
           /\ outages' = outages + 1
           /\ \A i \in SlotPages : /\ slots[i] = disk[i] => slots'[i] = disk[i]
                                   /\ slots'[i] \in {Torn, slots[i], disk[i]}
<1>1. PICK img \in [SlotPages -> {Torn} \cup {slots[i] : i \in SlotPages}
                                       \cup {disk[i] : i \in SlotPages}] :
          /\ \A i \in SlotPages :
                IF slots[i] = disk[i] THEN img[i] = disk[i]
                                      ELSE img[i] \in {Torn, slots[i], disk[i]}
          /\ slots' = img
          /\ disk' = img
  BY Zenon DEF PowerLoss
<1>2. \A i \in SlotPages : slots[i] \in Record /\ disk[i] \in Record /\ Torn \in Record
  BY SlotTypes, TornTypes, Zenon DEF TypeOK
<1>3. \A i \in SlotPages : img[i] \in Record
  BY <1>1, <1>2, Zenon
<1>4. img \in Image
  BY <1>1, <1>3, Zenon DEF Image
<1>5. present' \in BOOLEAN /\ (present = presentDisk => present' = present)
  BY Zenon DEF PowerLoss, TypeOK
<1>6. \A i \in SlotPages : /\ slots[i] = disk[i] => slots'[i] = disk[i]
                           /\ slots'[i] \in {Torn, slots[i], disk[i]}
  BY <1>1, Zenon
<1> QED  BY <1>1, <1>4, <1>5, <1>6, Zenon DEF PowerLoss

\* The initial state is well typed.
LEMMA TypesInitially == Init => TypeOK
<1> SUFFICES ASSUME Init  PROVE TypeOK
  BY Zenon
<1>1. [i \in SlotPages |-> Torn] \in Image
  BY TornTypes, Zenon DEF Image
<1> QED  BY <1>1, TornTypes, IdleTypes, Zenon DEF Init, TypeOK

\* Every step keeps the types.
LEMMA TypesKept ==
    ASSUME TypeOK, Publishing, Next
    PROVE  TypeOK'
<1>0. /\ slots \in Image /\ disk \in Image /\ pub \in Publication
      /\ reads \in [Readers -> Read] /\ lastSeen \in [Readers -> Nat]
      /\ result \in [Readers -> Record]
  BY Zenon DEF TypeOK
<1>a. /\ pub.target \in SlotPages /\ pub.gen \in Nat /\ pub.payload \in Nat
      /\ pub.left \in {0, 1, 2} /\ minted \in Nat /\ acked \in Nat
      /\ abandoned \in Nat /\ outages \in Nat
  BY PublicationTypes, Zenon
<1>b. \A i \in SlotPages : \A s \in Record : [slots EXCEPT ![i] = s] \in Image
  BY <1>0, Zenon DEF Image
<1>c. Torn \in Record /\ \A g, v \in Nat : Filled(g, v) \in Record
  BY Zenon DEF Torn, Filled, Record
<1>d. Readable(slots) => ChosenPage(slots) \in SlotPages /\ Newest(slots).gen \in Nat
  BY <1>0, ReadableTops, SlotTypes, Zenon DEF Newest
<1>1. ASSUME NEW count \in {1, 2}, Bootstrap(count)  PROVE TypeOK'
  <2>1. slots' \in Image
    BY <1>1, <1>a, <1>c, TornTypes DEF Bootstrap, Image
  <2>2. pub' \in Publication
    BY <1>1, <1>a DEF Bootstrap, Publication, SlotPages
  <2> QED  BY <1>1, <1>a, <2>1, <2>2 DEF Bootstrap, TypeOK
<1>2. ASSUME NEW count \in {1, 2}, WriteSlot(count)  PROVE TypeOK'
  <2>1. TargetPage(slots) \in SlotPages /\ Newest(slots).gen + 1 \in Nat /\ minted + 1 \in Nat
    BY <1>2, <1>a, <1>d, OtherSlot DEF WriteSlot, TargetPage
  <2>2. pub' \in Publication
    BY <1>2, <2>1, Zenon DEF WriteSlot, Publication
  <2>3. slots' \in Image
    BY <1>2, <1>b, <1>c, <2>1, Zenon DEF WriteSlot
  <2> QED  BY <1>2, <2>1, <2>2, <2>3, Zenon DEF WriteSlot, TypeOK
<1>3. ASSUME WriteDone  PROVE TypeOK'
  <2>1. slots' \in Image
    BY <1>3, <1>a, <1>b, <1>c, Zenon DEF WriteDone
  <2>2. pub' \in Publication
    BY <1>3, <1>0, Zenon DEF WriteDone, Publication
  <2> QED  BY <1>3, <2>1, <2>2, Zenon DEF WriteDone, TypeOK
<1>4. ASSUME Barrier  PROVE TypeOK'
  <2>1. Other(pub.target) \in SlotPages
    BY <1>a, OtherSlot, Zenon
  <2>2. slots' \in Image
    BY <1>4, <1>0, <1>b, <1>c, <2>1, Zenon DEF Barrier
  <2>3. pub.left \in {1, 2}
    BY <1>4, Zenon DEF Barrier, Publishing
  <2>4. CASE pub.left = 1
    BY <1>4, <1>0, <1>a, <2>2, <2>4, IdleTypes, Zenon DEF Barrier, TypeOK
  <2>5. CASE pub.left # 1
    <3>1. /\ pub' = [pub EXCEPT !.phase = "writing", !.target = Other(pub.target),
                                !.gen = @ + 1, !.left = @ - 1]
          /\ acked' = acked
      BY <1>4, <2>5, Zenon DEF Barrier
    <3>a. pub.left - 1 \in {0, 1, 2} /\ pub.gen + 1 \in Nat
      BY <1>a, <2>3
    <3>2. pub' \in Publication
      BY <1>0, <2>1, <3>1, <3>a, Zenon DEF Publication
    <3> QED  BY <1>4, <1>0, <2>2, <3>1, <3>2, Zenon DEF Barrier, TypeOK
  <2> QED  BY <2>4, <2>5, Zenon
<1>5. ASSUME Abandon  PROVE TypeOK'
  BY <1>5, IdleTypes DEF Abandon, TypeOK
<1>6. ASSUME PowerLoss  PROVE TypeOK'
  <2>1. reads' \in [Readers -> Read] /\ lastSeen' \in [Readers -> Nat]
        /\ result' \in [Readers -> Record] /\ pub' \in Publication
    BY <1>6, <1>c, PowerLossEffect, IdleTypes
  <2> QED  BY <1>6, <1>a, <2>1, PowerLossEffect DEF TypeOK
<1>7. ASSUME NEW r \in Readers, ReadStart(r)  PROVE TypeOK'
  <2>1. reads' \in [Readers -> Read] /\ result' \in [Readers -> Record]
    BY <1>7, <1>0, <1>c, CurrentIsNatural, Zenon DEF ReadStart, Read
  <2> QED  BY <1>7, <2>1, Zenon DEF ReadStart, TypeOK
<1>8. ASSUME NEW r \in Readers, ReadAbsent(r)  PROVE TypeOK'
  BY <1>8, <1>c, Zenon DEF ReadAbsent, TypeOK
<1>9. ASSUME NEW r \in Readers, NEW i \in SlotPages, ReadLate(r, i)  PROVE TypeOK'
  <2>1. [reads[r].got EXCEPT ![i] = slots[i]] \in Image
    BY <1>0, ReadTypes, SlotTypes, Zenon DEF Image
  <2> DEFINE rd == [phase |-> "decode", got |-> [reads[r].got EXCEPT ![i] = slots[i]],
                    attempt |-> reads[r].attempt, start |-> reads[r].start]
  <2>a. rd \in Read
    BY <2>1, ReadTypes, Zenon DEF Read
  <2>b. reads' = [reads EXCEPT ![r] = rd]
    BY <1>9, ReadLateEffect, Zenon
  <2>2. reads' \in [Readers -> Read]
    BY <1>0, <2>a, <2>b, Zenon
  <2> QED  BY <1>9, <2>2, Zenon DEF ReadLate, TypeOK
<1>10. ASSUME NEW r \in Readers, ReadDecode(r)  PROVE TypeOK'
  <2> DEFINE img == reads[r].got
  <2>1. img \in Image /\ reads[r].attempt \in Nat /\ reads[r].start \in Nat
    BY ReadTypes, Zenon
  <2>2. Readable(img) => Newest(img) \in Record /\ Newest(img).gen \in Nat
    BY <2>1, ReadableTops, SlotTypes, Zenon DEF Newest
  <2>3. reads' \in [Readers -> Read]
    BY <1>10, <1>0, <2>1, ReadDecodeEffect DEF Read
  <2>4. lastSeen' \in [Readers -> Nat] /\ result' \in [Readers -> Record]
    BY <1>10, <1>0, <2>2, ReadDecodeEffect
  <2> QED  BY <1>10, <2>3, <2>4, Zenon DEF ReadDecode, TypeOK
<1>11. ASSUME NEW r \in Readers, ReadReturn(r)  PROVE TypeOK'
  BY <1>11, IdleTypes, Zenon DEF ReadReturn, TypeOK
<1> QED  BY <1>1, <1>2, <1>3, <1>4, <1>5, <1>6, <1>7, <1>8, <1>9, <1>10, <1>11, Zenon DEF Next

-----------------------------------------------------------------------------
(* The slots and the device.                                                  *)

\* A step does not undo a failure, so what it may assume of the failures it
\* could assume before it.
LEMMA FailuresStay ==
    ASSUME TypeOK, Next
    PROVE  /\ abandoned' = abandoned \/ abandoned' = abandoned + 1
           /\ outages' = outages \/ outages' = outages + 1
           /\ OneKindOfFailure' => OneKindOfFailure
           /\ abandoned' = 0 => abandoned = 0
<1>1. /\ abandoned' = abandoned \/ abandoned' = abandoned + 1
      /\ outages' = outages \/ outages' = outages + 1
  BY Zenon DEF Next, Bootstrap, WriteSlot, WriteDone, Barrier, Abandon, PowerLoss, ReadStart,
         ReadAbsent, ReadLate, ReadDecode, ReadReturn
<1> QED  BY <1>1, PublicationTypes DEF OneKindOfFailure

\* At most one slot leads.
LEMMA OneLeads ==
    ASSUME NEW img \in Image, NEW i \in SlotPages, NEW j \in SlotPages,
           Leads(img, i), Leads(img, j)
    PROVE  i = j
BY SlotTypes, OtherSlot DEF Leads

\* The facts of a file with a newest record.
LEMMA Standing ==
    ASSUME TypeOK, Publishing, Published, OneKindOfFailure, present
    PROVE  \E i \in SlotPages :
              /\ Leads(slots, i) /\ Tops(slots, i) /\ CurrentGen = slots[i].gen
              /\ Readable(slots) /\ ChosenPage(slots) = i /\ Newest(slots) = slots[i]
              /\ slots[i].gen \in Nat /\ slots[Other(i)].gen \in Nat
              /\ acked > 0 => slots[i].payload >= acked
<1>1. PICK i \in SlotPages : Leads(slots, i)
  BY Zenon DEF Published
<1>2. slots \in Image
  BY Zenon DEF TypeOK
<1>3. Tops(slots, i)
  BY <1>1, <1>2, LeadsTops, Zenon
<1> QED  BY <1>1, <1>2, <1>3, TopsIsNewest, TopsIsCurrent, SlotTypes, Zenon DEF Published

\* Overwriting a slot.
LEMMA Overwritten ==
    ASSUME NEW img \in Image, NEW t \in SlotPages, NEW s \in Record
    PROVE  /\ [img EXCEPT ![t] = s] \in Image
           /\ [img EXCEPT ![t] = s][t] = s
           /\ [img EXCEPT ![t] = s][Other(t)] = img[Other(t)]
BY OtherSlot, Zenon DEF Image

\* What the steps of a publication do.
LEMMA BootstrapEffect ==
    ASSUME TypeOK, NEW count \in {1, 2}, Bootstrap(count)
    PROVE  /\ ~present /\ present' /\ presentDisk' = presentDisk /\ acked' = acked
           /\ minted' = minted + 1 /\ disk' = slots' /\ slots' \in Image
           /\ slots'[1] = Filled(1, minted + 1) /\ slots'[2] = Empty
           /\ pub'.phase = "barrier" /\ pub'.target = 1 /\ pub'.gen = 1
           /\ pub'.payload = minted + 1 /\ pub'.left = count
<1>1. Filled(1, minted + 1) \in Record /\ Empty \in Record
  BY PublicationTypes DEF Filled, Empty, Record
<1> QED  BY <1>1 DEF Bootstrap, SlotPages, Image

\* Beginning a publication tears the slot that is not the newest, and only that one.
LEMMA WriteSlotEffect ==
    ASSUME TypeOK, NEW count \in {1, 2}, WriteSlot(count)
    PROVE  \E o \in SlotPages :
              /\ Tops(slots, o) /\ Newest(slots) = slots[o]
              /\ pub.phase = "idle" /\ present /\ present' = present
              /\ presentDisk' = presentDisk /\ acked' = acked
              /\ minted' = minted + 1 /\ disk' = disk /\ slots' \in Image
              /\ slots'[o] = slots[o] /\ slots'[Other(o)] = Torn
              /\ pub'.phase = "writing" /\ pub'.target = Other(o)
              /\ pub'.gen = slots[o].gen + 1 /\ pub'.payload = minted + 1 /\ pub'.left = count
<1> DEFINE o == ChosenPage(slots)
<1>1. slots \in Image /\ Readable(slots)
  BY Zenon DEF TypeOK, WriteSlot
<1>2. o \in SlotPages /\ Tops(slots, o)
  BY <1>1, ReadableTops, Zenon
<1>3. Newest(slots) = slots[o] /\ TargetPage(slots) = Other(o)
  BY Zenon DEF Newest, TargetPage
<1>4. Other(o) \in SlotPages /\ Other(o) # o
  BY <1>2, OtherSlot, Zenon
<1>5. slots' = [slots EXCEPT ![Other(o)] = Torn]
  BY <1>3, Zenon DEF WriteSlot
<1>6. slots' \in Image /\ slots'[o] = slots[o] /\ slots'[Other(o)] = Torn
  BY <1>1, <1>2, <1>4, <1>5, TornTypes, Zenon DEF Image
<1> HIDE DEF o
<1> QED  BY <1>2, <1>3, <1>6, Zenon DEF WriteSlot

\* Ending the write of a slot makes the new record lead.
LEMMA WriteDoneEffect ==
    ASSUME TypeOK, Publishing, WriteDone
    PROVE  LET t == pub.target
               o == Other(t)
           IN  /\ t \in SlotPages /\ pub.phase = "writing"
               /\ slots[t] = Torn /\ Held(slots[o]) /\ slots[o].gen + 1 = pub.gen
               /\ slots'[t] = Filled(pub.gen, pub.payload) /\ slots'[o] = slots[o]
               /\ slots' \in Image /\ Leads(slots', t) /\ ~Leads(slots', o)
               /\ pub'.phase = "barrier" /\ pub'.target = t /\ pub'.gen = pub.gen
               /\ pub'.payload = pub.payload /\ pub'.left = pub.left
               /\ UNCHANGED <<present, presentDisk, disk, minted, acked>>
<1> DEFINE t == pub.target
           o == Other(t)
           s == Filled(pub.gen, pub.payload)
<1>0. pub.gen \in Nat /\ pub.payload \in Nat /\ t \in SlotPages /\ slots \in Image
  BY PublicationTypes, Zenon
<1>1. /\ pub.phase = "writing" /\ slots' = [slots EXCEPT ![t] = s]
      /\ pub' = [pub EXCEPT !.phase = "barrier"]
      /\ UNCHANGED <<present, presentDisk, disk, minted, acked>>
  BY Zenon DEF WriteDone
<1>2. slots[t] = Torn /\ Held(slots[o]) /\ slots[o].gen + 1 = pub.gen
  BY <1>1, Zenon DEF Publishing
<1>3. s \in Record /\ s.gen = pub.gen /\ s.valid
  BY <1>0, Zenon DEF Filled, Record
<1>4. slots' \in Image /\ slots'[t] = s /\ slots'[o] = slots[o]
  BY <1>0, <1>1, <1>3, Overwritten, Zenon
<1>5. slots[o].gen \in Nat /\ o \in SlotPages /\ Other(o) = t /\ o # t
  BY <1>0, SlotTypes, OtherSlot, Zenon
<1>6. Held(s)
  BY <1>2, <1>3, <1>5 DEF Held
<1>7. Leads(slots', t)
  BY <1>2, <1>3, <1>4, <1>6, Zenon DEF Leads
<1>8. ~Leads(slots', o)
  BY <1>0, <1>4, <1>5, <1>7, OneLeads, Zenon
<1>9. /\ pub'.phase = "barrier" /\ pub'.target = t /\ pub'.gen = pub.gen
      /\ pub'.payload = pub.payload /\ pub'.left = pub.left
  BY <1>1, Zenon DEF TypeOK, Publication
<1> QED  BY <1>0, <1>1, <1>2, <1>4, <1>7, <1>8, <1>9, Zenon

\* The last barrier of a publication, and the one before its second half.
LEMMA BarrierEffect ==
    ASSUME TypeOK, Publishing, Barrier
    PROVE  LET t == pub.target
               o == Other(t)
           IN  /\ t \in SlotPages /\ pub.phase = "barrier" /\ present /\ present' = present
               /\ presentDisk' /\ disk' = slots /\ minted' = minted /\ slots' \in Image
               /\ slots[t] = Filled(pub.gen, pub.payload) /\ slots'[t] = slots[t]
               /\ Leads(slots, t) /\ ~Leads(slots, o) /\ Leads(slots', t) /\ ~Leads(slots', o)
               /\ \/ /\ acked' = pub.payload /\ pub' = IdlePub /\ slots' = slots
                  \/ /\ acked' = acked /\ slots'[o] = Torn
                     /\ pub'.phase = "writing" /\ pub'.target = o /\ pub'.gen = pub.gen + 1
                     /\ pub'.payload = pub.payload /\ pub'.left = 1
<1> DEFINE t == pub.target
           o == Other(t)
<1>0. t \in SlotPages /\ slots \in Image /\ o \in SlotPages /\ Other(o) = t /\ o # t
  BY PublicationTypes, OtherSlot, Zenon
<1>1. /\ pub.phase = "barrier" /\ presentDisk' /\ disk' = slots
      /\ present' = present /\ minted' = minted
  BY Zenon DEF Barrier
<1>2. /\ present /\ pub.left \in {1, 2} /\ Leads(slots, t)
      /\ slots[t] = Filled(pub.gen, pub.payload)
  BY <1>1, Zenon DEF Publishing
<1>3. ~Leads(slots, o)
  BY <1>0, <1>2, OneLeads, Zenon
<1>4. CASE pub.left = 1
  <2>1. acked' = pub.payload /\ pub' = IdlePub /\ slots' = slots
    BY <1>4, Zenon DEF Barrier
  <2> QED  BY <1>0, <1>1, <1>2, <1>3, <2>1, Zenon
<1>5. CASE pub.left = 2
  <2>1. /\ pub' = [pub EXCEPT !.phase = "writing", !.target = o, !.gen = @ + 1, !.left = @ - 1]
        /\ slots' = [slots EXCEPT ![o] = Torn] /\ acked' = acked
    BY <1>5 DEF Barrier
  <2>2. slots' \in Image /\ slots'[o] = Torn /\ slots'[t] = slots[t]
    BY <1>0, <2>1, TornTypes, Zenon DEF Image
  <2>3. Leads(slots', t) /\ ~Leads(slots', o)
    BY <1>0, <1>2, <2>2, TornTypes, Zenon DEF Leads
  <2>4. /\ pub'.phase = "writing" /\ pub'.target = o /\ pub'.gen = pub.gen + 1
        /\ pub'.payload = pub.payload /\ pub'.left = 1
    BY <1>5, <2>1 DEF TypeOK, Publication
  <2> QED  BY <1>0, <1>1, <1>2, <1>3, <2>1, <2>2, <2>3, <2>4, Zenon
<1> QED  BY <1>2, <1>4, <1>5, Zenon

\* The initial state satisfies the publisher's part of the invariant.
LEMMA PublishingInitially == Init => Publishing /\ Published /\ Forced
<1> SUFFICES ASSUME Init  PROVE Publishing /\ Published /\ Forced
  BY Zenon
<1>1. pub.phase = "idle"
  BY IdleTypes, Zenon DEF Init
<1> QED  BY <1>1 DEF Init, Publishing, Published, Forced

\* Every step keeps what a publication in progress relies on.
LEMMA PublishingKept ==
    ASSUME TypeOK, Publishing, Published, Next
    PROVE  Publishing'
<1>0. minted \in Nat /\ acked \in Nat /\ minted >= acked /\ (presentDisk => present)
  BY PublicationTypes, Zenon DEF Publishing
<1>a. SlotPages = {1, 2} /\ Other(1) = 2 /\ Other(2) = 1
  BY DEF SlotPages, Other
<1>1. ASSUME NEW count \in {1, 2}, Bootstrap(count)  PROVE Publishing'
  <2>1. Held(slots'[1]) /\ ~Held(slots'[2])
    BY <1>1, BootstrapEffect, TornTypes DEF Held, Filled
  <2>2. Leads(slots', 1)
    BY <1>a, <2>1, Zenon DEF Leads
  <2>3. minted + 1 >= acked /\ minted' >= acked'
    BY <1>0, <1>1, BootstrapEffect
  <2> QED  BY <1>1, <2>2, <2>3, BootstrapEffect, Zenon DEF Publishing
<1>2. ASSUME NEW count \in {1, 2}, WriteSlot(count)  PROVE Publishing'
  <2>1. PICK o \in SlotPages :
              /\ Tops(slots, o) /\ present /\ present' = present
              /\ presentDisk' = presentDisk /\ acked' = acked
              /\ minted' = minted + 1
              /\ slots'[o] = slots[o] /\ slots'[Other(o)] = Torn
              /\ pub'.phase = "writing" /\ pub'.target = Other(o)
              /\ pub'.gen = slots[o].gen + 1 /\ pub'.payload = minted + 1 /\ pub'.left = count
    BY <1>2, WriteSlotEffect, Zenon
  <2>2. Other(Other(o)) = o /\ Held(slots[o])
    BY <2>1, OtherSlot, Zenon DEF Tops
  <2>3. minted + 1 >= acked /\ minted' >= acked'
    BY <1>0, <2>1
  <2> QED  BY <1>0, <2>1, <2>2, <2>3, Zenon DEF Publishing
<1>3. ASSUME WriteDone  PROVE Publishing'
  <2>1. present /\ pub.payload = minted /\ pub.left \in {1, 2}
    BY <1>3, Zenon DEF WriteDone, Publishing
  <2> QED  BY <1>0, <1>3, <2>1, WriteDoneEffect, Zenon DEF Publishing
<1>4. ASSUME Barrier  PROVE Publishing'
  <2>1. /\ pub.payload = minted /\ present /\ pub.target \in SlotPages
        /\ pub.gen \in Nat /\ pub.payload \in Nat
    BY <1>4, PublicationTypes, Zenon DEF Barrier, Publishing
  <2>2. CASE pub' = IdlePub /\ acked' = pub.payload
    <3>1. minted >= minted
      BY <1>0
    <3> QED  BY <1>4, <2>1, <2>2, <3>1, BarrierEffect, IdleTypes, Zenon DEF Publishing
  <2>3. CASE ~(pub' = IdlePub /\ acked' = pub.payload)
    <3> DEFINE t == pub.target
               o == Other(t)
    <3>1. /\ acked' = acked /\ slots'[o] = Torn
          /\ pub'.phase = "writing" /\ pub'.target = o /\ pub'.gen = pub.gen + 1
          /\ pub'.payload = pub.payload /\ pub'.left = 1 /\ present' = present
          /\ minted' = minted
          /\ slots'[t] = Filled(pub.gen, pub.payload) /\ Leads(slots', t)
      BY <1>4, <2>3, BarrierEffect, Zenon
    <3>2. Other(o) = t /\ Held(slots'[t]) /\ slots'[t].gen + 1 = pub.gen + 1
      BY <2>1, <3>1, OtherSlot DEF Leads, Filled
    <3> HIDE DEF o, t
    <3> QED  BY <1>0, <2>1, <3>1, <3>2, Zenon DEF Publishing
  <2> QED  BY <2>2, <2>3, Zenon
<1>5. ASSUME Abandon \/ PowerLoss  PROVE Publishing'
  <2>1. pub'.phase = "idle" /\ minted' = minted /\ acked' = acked
    BY <1>5, IdleTypes, Zenon DEF Abandon, PowerLoss
  <2>2. presentDisk' => present'
    BY <1>0, <1>5, PowerLossEffect, Zenon DEF Abandon
  <2> QED  BY <1>0, <2>1, <2>2, Zenon DEF Publishing
<1>6. ASSUME NEW r \in Readers, \/ ReadStart(r) \/ ReadAbsent(r) \/ ReadDecode(r)
                                \/ ReadReturn(r) \/ \E i \in SlotPages : ReadLate(r, i)
      PROVE  Publishing'
  <2>1. UNCHANGED <<present, presentDisk, slots, pub, minted, acked>>
    BY <1>6, Zenon DEF ReadStart, ReadAbsent, ReadDecode, ReadReturn, ReadLate
  <2> QED  BY <2>1, Zenon DEF Publishing, Leads
<1> QED  BY <1>1, <1>2, <1>3, <1>4, <1>5, <1>6, Zenon DEF Next

\* The power takes the slot being written at most.
LEMMA PowerLossLeads ==
    ASSUME TypeOK, Publishing, Published, Forced, PowerLoss, abandoned = 0, present
    PROVE  /\ \E i \in SlotPages : Leads(slots', i)
           /\ acked > 0 => \A i \in SlotPages : Leads(slots', i) => slots'[i].payload >= acked
<1>0. slots \in Image /\ disk \in Image /\ slots' \in Image /\ pub.target \in SlotPages
  BY PublicationTypes, PowerLossEffect, Zenon
<1>1. OneKindOfFailure
  BY Zenon DEF OneKindOfFailure
<1>2. CASE disk = slots
  <2>1. \A i \in SlotPages : slots'[i] = slots[i]
    BY <1>2, PowerLossEffect, Zenon
  <2>2. slots' = slots
    BY <1>0, <2>1 DEF Image
  <2> QED  BY <1>1, <2>2, Zenon DEF Published
<1>3. CASE disk # slots
  <2> DEFINE t == pub.target
             o == Other(t)
  <2>0. t \in SlotPages /\ o \in SlotPages /\ o # t /\ Other(o) = t /\ SlotPages = {t, o}
    BY <1>0, OtherSlot, Zenon
  <2>1. pub.phase # "idle"
    BY <1>3, Zenon DEF Forced
  <2>2. /\ disk[o] = slots[o] /\ Held(disk[o])
        /\ Held(disk[t]) /\ Held(disk[o]) => disk[t].gen + 1 = disk[o].gen
        /\ acked > 0 => disk[o].payload >= acked
    BY <1>3, <2>1, Zenon DEF Forced
  <2>3. slots'[o] = disk[o] /\ slots'[t] \in {Torn, slots[t], disk[t]}
    BY <2>0, <2>2, PowerLossEffect, Zenon
  <2>4. disk[o].gen \in Nat /\ disk[t].gen \in Nat
    BY <1>0, <2>0, SlotTypes, Zenon
  <2>5. CASE slots'[t] \in {Torn, disk[t]}
    <3>1. Leads(slots', o)
      BY <2>0, <2>2, <2>3, <2>5, TornTypes, Zenon DEF Leads
    <3>2. \A i \in SlotPages : Leads(slots', i) => i = o
      BY <1>0, <2>0, <3>1, OneLeads, Zenon
    <3> QED  BY <2>0, <2>2, <2>3, <3>1, <3>2, Zenon
  <2>6. CASE slots'[t] = slots[t] /\ slots[t] # Torn
    <3>1. pub.phase = "barrier"
      BY <2>1, <2>6, PublicationTypes, Zenon DEF Publishing
    <3>2. Leads(slots, t) /\ slots[t] = Filled(pub.gen, pub.payload)
      BY <3>1, Zenon DEF Publishing
    <3>3. slots' = slots
      BY <1>0, <2>0, <2>2, <2>3, <2>6 DEF Image
    <3>4. \A i \in SlotPages : Leads(slots', i) => i = t
      BY <1>0, <2>0, <3>2, <3>3, OneLeads, Zenon
    <3>5. pub.payload >= acked /\ slots[t].payload = pub.payload
      BY <2>1, <3>2 DEF Publishing, Filled
    <3> QED  BY <2>0, <3>2, <3>3, <3>4, <3>5, Zenon
  <2> QED  BY <2>3, <2>5, <2>6, Zenon
<1> QED  BY <1>2, <1>3, Zenon

\* Every step keeps a readable record in the slots once there was one.
LEMMA PublishedKept ==
    ASSUME TypeOK, Publishing, Published, Forced, Next
    PROVE  Published'
<1> SUFFICES ASSUME OneKindOfFailure'
             PROVE  /\ present' => \E i \in SlotPages : Leads(slots', i)
                    /\ acked' > 0 => /\ present' /\ presentDisk'
                                     /\ \A i \in SlotPages :
                                           Leads(slots', i) => slots'[i].payload >= acked'
  BY Zenon DEF Published, Leads, Held
<1>0. /\ OneKindOfFailure /\ slots \in Image /\ acked \in Nat /\ pub.target \in SlotPages
      /\ pub.payload \in Nat
  BY FailuresStay, PublicationTypes, Zenon
<1>a. /\ present => \E i \in SlotPages : Leads(slots, i)
      /\ acked > 0 => /\ present /\ presentDisk
                      /\ \A i \in SlotPages : Leads(slots, i) => slots[i].payload >= acked
  BY <1>0, Zenon DEF Published
<1> DEFINE Goal == /\ present' => \E i \in SlotPages : Leads(slots', i)
                   /\ acked' > 0 => /\ present' /\ presentDisk'
                                    /\ \A i \in SlotPages :
                                          Leads(slots', i) => slots'[i].payload >= acked'
<1>1. ASSUME NEW count \in {1, 2}, Bootstrap(count)  PROVE Goal
  <2>1. Held(slots'[1]) /\ ~Held(slots'[2])
    BY <1>1, BootstrapEffect, TornTypes DEF Held, Filled
  <2>2. 1 \in SlotPages /\ Leads(slots', 1)
    BY <2>1 DEF Leads, SlotPages, Other
  <2> QED  BY <1>1, <1>a, <2>2, BootstrapEffect, Zenon
<1>2. ASSUME NEW count \in {1, 2}, WriteSlot(count)  PROVE Goal
  <2>1. PICK o \in SlotPages :
              /\ Newest(slots) = slots[o] /\ Tops(slots, o) /\ present /\ present' = present
              /\ presentDisk' = presentDisk /\ acked' = acked /\ slots' \in Image
              /\ slots'[o] = slots[o] /\ slots'[Other(o)] = Torn
    BY <1>2, WriteSlotEffect, Zenon
  <2>2. Leads(slots, o)
    <3>1. PICK i \in SlotPages : Leads(slots, i)
      BY <1>a, <2>1, Zenon
    <3>2. ChosenPage(slots) = i /\ ChosenPage(slots) = o
      BY <1>0, <2>1, <3>1, LeadsTops, TopsIsNewest, Zenon
    <3> QED  BY <3>1, <3>2, Zenon
  <2>3. Leads(slots', o)
    BY <2>1, <2>2, TornTypes, Zenon DEF Leads
  <2>4. \A i \in SlotPages : Leads(slots', i) => i = o
    BY <2>1, <2>3, OneLeads, Zenon
  <2> QED  BY <1>a, <2>1, <2>2, <2>3, <2>4, Zenon
<1>3. ASSUME WriteDone  PROVE Goal
  <2> DEFINE t == pub.target
  <2>1. /\ slots'[t] = Filled(pub.gen, pub.payload) /\ Leads(slots', t)
        /\ slots' \in Image /\ present' = present /\ presentDisk' = presentDisk /\ acked' = acked
    BY <1>3, WriteDoneEffect, Zenon
  <2>2. pub.payload >= acked /\ slots'[t].payload = pub.payload
    BY <1>3, <2>1 DEF WriteDone, Publishing, Filled
  <2>3. \A i \in SlotPages : Leads(slots', i) => i = t
    BY <1>0, <2>1, OneLeads, Zenon
  <2> QED  BY <1>0, <1>a, <2>1, <2>2, <2>3, Zenon
<1>4. ASSUME Barrier  PROVE Goal
  <2> DEFINE t == pub.target
  <2>1. /\ slots'[t] = Filled(pub.gen, pub.payload) /\ Leads(slots', t)
        /\ slots' \in Image /\ present' /\ presentDisk'
        /\ acked' = acked \/ acked' = pub.payload
    BY <1>4, BarrierEffect
  <2>2. pub.payload >= acked' /\ slots'[t].payload = pub.payload
    BY <1>0, <1>4, <2>1 DEF Barrier, Publishing, Filled
  <2>3. \A i \in SlotPages : Leads(slots', i) => i = t
    BY <1>0, <2>1, OneLeads, Zenon
  <2> QED  BY <1>0, <2>1, <2>2, <2>3, Zenon
<1>5. ASSUME Abandon  PROVE Goal
  BY <1>5, <1>a, Zenon DEF Abandon
<1>6. ASSUME PowerLoss  PROVE Goal
  <2>1. abandoned = 0
    <3>1. outages' # 0 /\ abandoned' = abandoned
      BY <1>6, PowerLossEffect, PublicationTypes
    <3> QED  BY <3>1, Zenon DEF OneKindOfFailure
  <2>2. present' => present
    BY <1>6, PowerLossEffect, Zenon DEF Publishing, TypeOK
  <2>3. acked' = acked /\ (acked > 0 => present' /\ presentDisk')
    BY <1>6, <1>a, PowerLossEffect DEF TypeOK
  <2> QED  BY <1>6, <1>a, <2>1, <2>2, <2>3, PowerLossLeads, Zenon
<1>7. ASSUME NEW r \in Readers, \/ ReadStart(r) \/ ReadAbsent(r) \/ ReadDecode(r)
                                \/ ReadReturn(r) \/ \E i \in SlotPages : ReadLate(r, i)
      PROVE  Goal
  <2>1. UNCHANGED <<present, presentDisk, slots, acked>>
    BY <1>7, Zenon DEF ReadStart, ReadAbsent, ReadDecode, ReadReturn, ReadLate
  <2> QED  BY <1>a, <2>1, Zenon
<1> QED  BY <1>1, <1>2, <1>3, <1>4, <1>5, <1>6, <1>7, Zenon DEF Next

\* Every step keeps what the disk would give back after an outage.
LEMMA ForcedKept ==
    ASSUME TypeOK, Publishing, Published, Forced, Next
    PROVE  Forced'
<1> SUFFICES ASSUME abandoned' = 0  PROVE Forced'
  BY Zenon DEF Forced
<1>0. /\ slots \in Image /\ disk \in Image /\ acked \in Nat /\ pub.target \in SlotPages
      /\ abandoned = 0 /\ OneKindOfFailure
  BY FailuresStay, PublicationTypes, Zenon DEF OneKindOfFailure
<1>1. ASSUME NEW count \in {1, 2}, Bootstrap(count)  PROVE Forced'
  <2>1. acked' > 0 => FALSE
    BY <1>0, <1>1, BootstrapEffect, Zenon DEF Published
  <2>2. disk' = slots' /\ ~Held(disk'[2]) /\ pub'.target = 1 /\ pub'.phase = "barrier"
    BY <1>1, BootstrapEffect, TornTypes, Zenon
  <2>3. Other(1) = 2
    BY DEF Other
  <2> QED  BY <2>1, <2>2, <2>3, Zenon DEF Forced
<1>2. ASSUME NEW count \in {1, 2}, WriteSlot(count)  PROVE Forced'
  <2>1. PICK o \in SlotPages :
              /\ Tops(slots, o) /\ present /\ pub.phase = "idle" /\ disk' = disk /\ acked' = acked
              /\ slots'[o] = slots[o] /\ pub'.phase = "writing" /\ pub'.target = Other(o)
    BY <1>2, WriteSlotEffect, Zenon
  <2>2. disk = slots /\ Other(Other(o)) = o
    BY <1>0, <2>1, OtherSlot, Zenon DEF Forced
  <2>3. Leads(slots, o)
    <3>1. PICK i \in SlotPages : Leads(slots, i)
      BY <1>0, <2>1, Zenon DEF Published
    <3>2. ChosenPage(slots) = i /\ ChosenPage(slots) = o
      BY <1>0, <2>1, <3>1, LeadsTops, TopsIsNewest, Zenon
    <3> QED  BY <3>1, <3>2, Zenon
  <2>4. acked > 0 => slots[o].payload >= acked
    BY <1>0, <2>3, Zenon DEF Published
  <2>5. Held(slots[o]) /\ (Held(slots[Other(o)]) => slots[Other(o)].gen + 1 = slots[o].gen)
    BY <2>3, Zenon DEF Leads
  <2> QED  BY <2>1, <2>2, <2>4, <2>5, Zenon DEF Forced
<1>3. ASSUME WriteDone  PROVE Forced'
  <2> DEFINE t == pub.target
             o == Other(t)
  <2>1. /\ pub.phase = "writing" /\ Held(slots[o]) /\ slots'[o] = slots[o]
        /\ pub'.phase = "barrier" /\ pub'.target = t /\ disk' = disk /\ acked' = acked
    BY <1>3, WriteDoneEffect, Zenon
  <2>2. /\ disk[o] = slots[o]
        /\ Held(disk[t]) /\ Held(disk[o]) => disk[t].gen + 1 = disk[o].gen
        /\ acked > 0 => Held(disk[o]) /\ disk[o].payload >= acked
    BY <1>0, <2>1, Zenon DEF Forced
  <2> HIDE DEF o, t
  <2>3. Other(pub'.target) = o
    BY <2>1, Zenon DEF o
  <2> QED  BY <2>1, <2>2, <2>3, Zenon DEF Forced
<1>4. ASSUME Barrier  PROVE Forced'
  <2> DEFINE t == pub.target
             o == Other(t)
  <2>1. /\ disk' = slots /\ Leads(slots, t) /\ slots'[t] = slots[t]
        /\ slots[t] = Filled(pub.gen, pub.payload)
        /\ \/ /\ pub' = IdlePub /\ slots' = slots
           \/ /\ acked' = acked /\ pub'.phase = "writing" /\ pub'.target = o
    BY <1>4, BarrierEffect, Zenon
  <2>2. Other(o) = t /\ slots[t].payload >= acked
    BY <1>0, <1>4, <2>1, OtherSlot DEF Barrier, Publishing, Filled
  <2>3. Held(slots[t]) /\ (Held(slots[o]) => slots[o].gen + 1 = slots[t].gen)
    BY <2>1, Zenon DEF Leads
  <2> HIDE DEF o, t
  <2> QED  BY <2>1, <2>2, <2>3, IdleTypes, Zenon DEF Forced
<1>5. ASSUME Abandon  PROVE FALSE
  BY <1>5, PublicationTypes DEF Abandon
<1>6. ASSUME PowerLoss  PROVE Forced'
  BY <1>6, PowerLossEffect, IdleTypes, Zenon DEF Forced
<1>7. ASSUME NEW r \in Readers, \/ ReadStart(r) \/ ReadAbsent(r) \/ ReadDecode(r)
                                \/ ReadReturn(r) \/ \E i \in SlotPages : ReadLate(r, i)
      PROVE  Forced'
  <2>1. UNCHANGED <<slots, disk, pub, acked, abandoned>>
    BY <1>7, Zenon DEF ReadStart, ReadAbsent, ReadDecode, ReadReturn, ReadLate
  <2> QED  BY <2>1, Zenon DEF Forced
<1> QED  BY <1>1, <1>2, <1>3, <1>4, <1>5, <1>6, <1>7, Zenon DEF Next

-----------------------------------------------------------------------------
(* Readers.                                                                   *)

\* Publications that become visible leave what a read has in hand behind.
LEMMA BehindKept ==
    ASSUME TypeOK, TypeOK', Publishing, Next, outages' = outages, present, present',
           NEW r \in Readers, reads'[r] = reads[r], Behind(r)
    PROVE  Behind(r)'
<1>0. /\ slots \in Image /\ slots' \in Image /\ reads[r].got \in Image
      /\ CurrentGen \in Nat /\ CurrentGen' \in Nat /\ CurrentGen' >= CurrentGen
  <2>1. CurrentGen' \in Nat
    BY NewestIsNatural, Zenon DEF CurrentGen, TypeOK
  <2> QED  BY <2>1, CurrentIsNatural, CurrentKept, ReadTypes, Zenon DEF TypeOK
<1> SUFFICES ASSUME NEW i \in SlotPages, Held(reads[r].got[i])
             PROVE  /\ Held(slots'[i]) => reads[r].got[i].gen <= slots'[i].gen
                    /\ ~Held(slots'[i]) => reads[r].got[i].gen < CurrentGen'
                    /\ Held(slots'[Other(i)]) => reads[r].got[i].gen # slots'[Other(i)].gen
  BY Zenon DEF Behind
<1> DEFINE g == reads[r].got[i].gen
<1>1. /\ g \in Nat
      /\ Held(slots[i]) => g <= slots[i].gen
      /\ ~Held(slots[i]) => g < CurrentGen
      /\ Held(slots[Other(i)]) => g # slots[Other(i)].gen
  BY <1>0, SlotTypes, Zenon DEF Behind
<1> HIDE DEF g
<1> SUFFICES /\ Held(slots'[i]) => g <= slots'[i].gen
             /\ ~Held(slots'[i]) => g < CurrentGen'
             /\ Held(slots'[Other(i)]) => g # slots'[Other(i)].gen
  BY Zenon DEF g
<1>2. CASE UNCHANGED <<slots, present>>
  BY <1>0, <1>1, <1>2
<1>3. ~Appears
  BY Zenon DEF Appears
<1>4. ASSUME NEW t \in SlotPages, Tears(t)
      PROVE  /\ Held(slots'[i]) => g <= slots'[i].gen
             /\ ~Held(slots'[i]) => g < CurrentGen'
             /\ Held(slots'[Other(i)]) => g # slots'[Other(i)].gen
  <2> DEFINE o == Other(t)
  <2>0. /\ o \in SlotPages /\ o # t /\ Other(o) = t /\ SlotPages = {t, o}
        /\ slots[t].gen \in Nat /\ slots[o].gen \in Nat
    BY <1>0, OtherSlot, SlotTypes, Zenon
  <2>1. slots'[t] = Torn /\ slots'[o] = slots[o]
    BY <1>0, <1>4, <2>0, Zenon DEF Tears, Image
  <2>2. Tops(slots, o) /\ CurrentGen = slots[o].gen
    BY <1>4, <2>0, TopsIsCurrent, Zenon DEF Tears
  <2>3. Held(slots[o]) /\ (Held(slots[t]) => slots[t].gen < slots[o].gen) /\ ~Held(slots'[t])
    BY <2>0, <2>1, <2>2, TornTypes, Zenon DEF Tops
  <2> HIDE DEF o
  <2>4. CASE i = t
    BY <1>0, <1>1, <2>0, <2>1, <2>2, <2>3, <2>4 DEF o
  <2>5. CASE i = o
    BY <1>0, <1>1, <2>0, <2>1, <2>2, <2>3, <2>5, Zenon
  <2> QED  BY <2>0, <2>4, <2>5, Zenon
<1>5. ASSUME NEW t \in SlotPages, NEW s \in Record, Fills(t, s)
      PROVE  /\ Held(slots'[i]) => g <= slots'[i].gen
             /\ ~Held(slots'[i]) => g < CurrentGen'
             /\ Held(slots'[Other(i)]) => g # slots'[Other(i)].gen
  <2> DEFINE o == Other(t)
  <2>0. /\ o \in SlotPages /\ o # t /\ Other(o) = t /\ SlotPages = {t, o}
        /\ slots[o].gen \in Nat /\ s.gen \in Nat
    BY <1>0, OtherSlot, SlotTypes, Zenon DEF Record
  <2>1. slots'[t] = s /\ slots'[o] = slots[o]
    BY <1>0, <1>5, <2>0, Zenon DEF Fills, Image
  <2>2. ~Held(slots[t]) /\ Held(slots[o]) /\ Held(s) /\ slots[o].gen + 1 = s.gen
    BY <1>5, Zenon DEF Fills
  <2>3. CurrentGen = slots[o].gen
    BY <2>0, <2>2, TopsIsCurrent, Zenon DEF Tops
  <2> HIDE DEF o
  <2>4. CASE i = t
    BY <1>0, <1>1, <2>0, <2>1, <2>2, <2>3, <2>4 DEF o
  <2>5. CASE i = o
    BY <1>0, <1>1, <2>0, <2>1, <2>2, <2>3, <2>5
  <2> QED  BY <2>0, <2>4, <2>5, Zenon
<1> QED  BY <1>2, <1>3, <1>4, <1>5, PublisherSteps, Zenon

\* A read that nothing of its own moves stays right while publications go on.
LEMMA ReadStays ==
    ASSUME TypeOK, TypeOK', Publishing, Next, outages' = outages, present => present',
           NEW r \in Readers, ReadOK(r),
           reads'[r] = reads[r], lastSeen'[r] = lastSeen[r], result'[r] = result[r]
    PROVE  ReadOK(r)'
<1>0. /\ CurrentGen \in Nat /\ CurrentGen' \in Nat /\ CurrentGen' >= CurrentGen
      /\ reads[r].got \in Image /\ lastSeen[r] \in Nat
      /\ reads[r].start \in Nat /\ reads[r].attempt \in Nat
  <2>1. CurrentGen' \in Nat
    BY NewestIsNatural, Zenon DEF CurrentGen, TypeOK
  <2> QED  BY <2>1, CurrentIsNatural, CurrentKept, ReadTypes, Zenon
<1>1. reads'[r].phase # "idle" => present /\ present'
  BY Zenon DEF ReadOK
<1> SUFFICES ASSUME OneKindOfFailure'
             PROVE  /\ lastSeen[r] <= CurrentGen'
                    /\ reads[r].phase = "first" => ReadFirst(r)'
                    /\ reads[r].phase = "decode" => ReadSecond(r)'
                    /\ reads[r].phase = "answered" => result[r].gen + 1 >= reads[r].start
                    /\ reads[r].phase = "refused" => CurrentGen' >= reads[r].start + ReadAttempts
  BY <1>1, Zenon DEF ReadOK
<1>2. OneKindOfFailure
  BY FailuresStay, Zenon
<1>3. lastSeen[r] <= CurrentGen'
  BY <1>0, <1>2 DEF ReadOK
<1>4. ASSUME reads[r].phase = "first"  PROVE ReadFirst(r)'
  <2>1. ReadFirst(r)
    BY <1>2, <1>4, Zenon DEF ReadOK
  <2>2. Behind(r)'
    BY <1>1, <1>4, <2>1, BehindKept, Zenon DEF ReadFirst
  <2> QED  BY <2>1, <2>2, Zenon DEF ReadFirst
<1>5. ASSUME reads[r].phase = "decode"  PROVE ReadSecond(r)'
  <2>1. ReadSecond(r)
    BY <1>2, <1>5, Zenon DEF ReadOK
  <2>2. Readable(reads[r].got) => Newest(reads[r].got).gen \in Nat
    BY <1>0, NewestIsNatural, Zenon
  <2> QED  BY <1>0, <2>1, <2>2 DEF ReadSecond
<1>6. ASSUME reads[r].phase = "refused"  PROVE CurrentGen' >= reads[r].start + ReadAttempts
  <2>1. CurrentGen >= reads[r].start + ReadAttempts
    BY <1>2, <1>6, Zenon DEF ReadOK
  <2> QED  BY <1>0, <2>1, ControlAssumption
<1>7. reads[r].phase = "answered" => result[r].gen + 1 >= reads[r].start
  BY <1>2, Zenon DEF ReadOK
<1> QED  BY <1>3, <1>4, <1>5, <1>6, <1>7, Zenon

\* An image just read is not behind.
LEMMA FreshIsBehind ==
    ASSUME TypeOK, NEW k \in SlotPages, Leads(slots, k),
           NEW r \in Readers, reads'[r].got = slots, slots' = slots, present' = present
    PROVE  Behind(r)'
<1>0. /\ \A i \in SlotPages : slots[i].gen \in Nat /\ slots[Other(i)].gen \in Nat
      /\ SlotPages = {k, Other(k)} /\ Other(Other(k)) = k
  BY SlotTypes, OtherSlot, Zenon DEF TypeOK
<1>1. \A i \in SlotPages : Held(slots[i]) /\ Held(slots[Other(i)])
                             => slots[i].gen # slots[Other(i)].gen
  BY <1>0 DEF Leads
<1>2. \A i \in SlotPages : slots[i].gen <= slots[i].gen
  BY <1>0
<1> QED  BY <1>1, <1>2, Zenon DEF Behind

\* A slot read late: the image is as good as the newest record of its first half,
\* or a publication became visible meanwhile.
LEMMA LateImage ==
    ASSUME NEW got \in Image, NEW now \in Image, NEW i \in SlotPages, NEW j \in SlotPages,
           NEW cur \in Nat, Leads(got, j),
           \A k \in SlotPages : Held(now[k]) => now[k].gen <= cur,
           \A k \in SlotPages : Held(got[k]) =>
              /\ Held(now[k]) => got[k].gen <= now[k].gen
              /\ ~Held(now[k]) => got[k].gen < cur
              /\ Held(now[Other(k)]) => got[k].gen # now[Other(k)].gen
    PROVE  LET img == [got EXCEPT ![i] = now[i]]
           IN  /\ \/ Readable(img) /\ Newest(img).gen >= got[j].gen
                  \/ cur >= got[j].gen + 1
               /\ Readable(img) => Newest(img).gen + 1 >= got[j].gen /\ Newest(img).gen <= cur
<1> DEFINE img == [got EXCEPT ![i] = now[i]]
           o == Other(j)
           c == got[j].gen
<1>0. /\ o \in SlotPages /\ o # j /\ Other(o) = j /\ SlotPages = {j, o}
      /\ got[j].gen \in Nat /\ got[o].gen \in Nat /\ now[j].gen \in Nat /\ now[o].gen \in Nat
  BY OtherSlot, SlotTypes, Zenon
<1>1. img \in Image
  BY Zenon DEF Image
<1>2. Held(got[j]) /\ (Held(got[o]) => got[o].gen + 1 = got[j].gen)
  BY Zenon DEF Leads
<1>3. got[j].gen <= cur
  BY <1>0, <1>2
<1>4. /\ Held(now[o]) => got[j].gen # now[o].gen /\ now[o].gen <= cur
      /\ Held(now[j]) => got[j].gen <= now[j].gen /\ now[j].gen <= cur
      /\ ~Held(now[j]) => got[j].gen < cur
  BY <1>0, <1>2, Zenon
<1> SUFFICES /\ (Readable(img) /\ Newest(img).gen >= c) \/ cur >= c + 1
             /\ Readable(img) => Newest(img).gen + 1 >= c /\ Newest(img).gen <= cur
  BY Zenon
<1>5. CASE i = o
  <2>1. img[j] = got[j] /\ img[o] = now[o]
    BY <1>0, <1>5, Zenon DEF Image
  <2>2. CASE Held(now[o]) /\ now[o].gen > got[j].gen
    <3>1. Tops(img, o)
      BY <1>0, <2>1, <2>2, Zenon DEF Tops
    <3>2. Readable(img) /\ Newest(img) = now[o]
      BY <1>0, <1>1, <2>1, <3>1, TopsIsNewest, Zenon
    <3> HIDE DEF img
    <3> QED  BY <1>0, <1>4, <2>2, <3>2
  <2>3. CASE ~(Held(now[o]) /\ now[o].gen > got[j].gen)
    <3>1. Tops(img, j)
      BY <1>0, <1>2, <1>4, <2>1, <2>3 DEF Tops
    <3>2. Readable(img) /\ Newest(img) = got[j]
      BY <1>0, <1>1, <2>1, <3>1, TopsIsNewest, Zenon
    <3> HIDE DEF img
    <3> QED  BY <1>0, <1>3, <3>2
  <2> QED  BY <2>2, <2>3, Zenon
<1>6. CASE i = j
  <2>1. img[j] = now[j] /\ img[o] = got[o]
    BY <1>0, <1>6, Zenon DEF Image
  <2>2. CASE Held(now[j])
    <3>1. Tops(img, j)
      BY <1>0, <1>2, <1>4, <2>1, <2>2 DEF Tops
    <3>2. Readable(img) /\ Newest(img) = now[j]
      BY <1>0, <1>1, <2>1, <3>1, TopsIsNewest, Zenon
    <3> HIDE DEF img
    <3> QED  BY <1>0, <1>4, <2>2, <3>2
  <2>3. CASE ~Held(now[j])
    <3>1. cur >= c + 1
      BY <1>0, <1>4, <2>3
    <3>2. Readable(img) => Tops(img, o)
      BY <1>0, <1>1, <2>1, <2>3, ReadableTops, Zenon DEF Tops
    <3>3. Readable(img) => Newest(img) = got[o] /\ Held(got[o])
      BY <1>0, <1>1, <2>1, <3>2, TopsIsNewest, Zenon DEF Tops
    <3> HIDE DEF img
    <3>4. Readable(img) => Newest(img).gen + 1 >= c /\ Newest(img).gen <= cur
      BY <1>0, <1>2, <1>3, <3>3
    <3> QED  BY <3>1, <3>4, Zenon
  <2> QED  BY <2>2, <2>3, Zenon
<1> QED  BY <1>0, <1>5, <1>6, Zenon

\* No record in the slots is newer than the current one.
LEMMA HeldIsVisible ==
    ASSUME TypeOK, Publishing, Published, OneKindOfFailure, present
    PROVE  \A k \in SlotPages : Held(slots[k]) => slots[k].gen <= CurrentGen
<1>1. PICK i \in SlotPages : Tops(slots, i) /\ CurrentGen = slots[i].gen
  BY Standing, Zenon
<1>2. slots[i].gen \in Nat /\ slots[Other(i)].gen \in Nat /\ SlotPages = {i, Other(i)}
  BY SlotTypes, OtherSlot, Zenon DEF TypeOK
<1>3. slots[i].gen <= slots[i].gen
  BY <1>2
<1> QED  BY <1>1, <1>2, <1>3 DEF Tops

\* A step of a reader keeps its own part of the invariant.
LEMMA ReaderKept ==
    ASSUME TypeOK, TypeOK', Publishing, Published, NEW r \in Readers, ReadOK(r),
           \/ ReadStart(r) \/ ReadAbsent(r) \/ ReadDecode(r)
           \/ ReadReturn(r) \/ \E i \in SlotPages : ReadLate(r, i)
    PROVE  ReadOK(r)'
<1>0. /\ slots \in Image /\ reads[r].got \in Image /\ lastSeen[r] \in Nat
      /\ reads[r].start \in Nat /\ reads[r].attempt \in Nat /\ CurrentGen \in Nat
      /\ ReadAttempts \in Nat
  BY ReadTypes, CurrentIsNatural, ControlAssumption, Zenon DEF TypeOK
<1>a. UNCHANGED <<present, slots, abandoned, outages>>
  BY Zenon DEF ReadStart, ReadAbsent, ReadDecode, ReadReturn, ReadLate
<1>b. CurrentGen' = CurrentGen /\ (OneKindOfFailure' <=> OneKindOfFailure)
  BY <1>a, Zenon DEF CurrentGen, OneKindOfFailure
<1>c. reads[r].phase # "idle" => present
  BY Zenon DEF ReadOK
<1>d. OneKindOfFailure => lastSeen[r] <= CurrentGen
  BY Zenon DEF ReadOK
<1>1. ASSUME ReadStart(r)  PROVE ReadOK(r)'
  <2>1. /\ present /\ lastSeen'[r] = lastSeen[r]
        /\ reads'[r] = [phase |-> "first", got |-> slots, attempt |-> 1, start |-> CurrentGen]
    BY <1>1, Zenon DEF ReadStart, TypeOK
  <2>2. ASSUME OneKindOfFailure  PROVE ReadFirst(r)'
    <3>1. PICK k \in SlotPages : Leads(slots, k) /\ CurrentGen = slots[k].gen
      BY <2>1, <2>2, Standing, Zenon
    <3>2. Behind(r)'
      BY <1>a, <2>1, <3>1, FreshIsBehind
    <3>3. slots[k].gen + 1 >= CurrentGen + 1 /\ slots[k].gen >= lastSeen[r] /\ 1 >= 1
      BY <1>0, <1>d, <2>2, <3>1
    <3> QED  BY <2>1, <3>1, <3>2, <3>3 DEF ReadFirst
  <2> QED  BY <1>a, <1>b, <1>d, <2>1, <2>2 DEF ReadOK
<1>2. ASSUME ReadAbsent(r)  PROVE ReadOK(r)'
  <2>1. reads[r].phase = "idle" /\ reads' = reads /\ lastSeen' = lastSeen
    BY <1>2, Zenon DEF ReadAbsent
  <2> QED  BY <1>b, <1>d, <2>1, Zenon DEF ReadOK
<1>3. ASSUME ReadReturn(r)  PROVE ReadOK(r)'
  <2>1. reads'[r].phase = "idle" /\ lastSeen' = lastSeen
    BY <1>3, IdleTypes, Zenon DEF ReadReturn, TypeOK
  <2> QED  BY <1>b, <1>d, <2>1, Zenon DEF ReadOK
<1>4. ASSUME NEW i \in SlotPages, ReadLate(r, i)  PROVE ReadOK(r)'
  <2> DEFINE got == reads[r].got
             img == [got EXCEPT ![i] = slots[i]]
  <2>1. /\ reads[r].phase = "first" /\ lastSeen' = lastSeen
        /\ reads'[r] = [phase |-> "decode", got |-> img,
                        attempt |-> reads[r].attempt, start |-> reads[r].start]
    BY <1>4, ReadLateEffect DEF TypeOK
  <2>2. present /\ present'
    BY <1>a, <1>c, <2>1, ZenonT(60)
  <2>3. ASSUME OneKindOfFailure  PROVE ReadSecond(r)'
    <3>1. ReadFirst(r)
      BY <2>1, <2>3, Zenon DEF ReadOK
    <3>2. PICK j \in SlotPages : /\ Leads(got, j)
                                 /\ got[j].gen + 1 >= reads[r].start + reads[r].attempt
                                 /\ got[j].gen >= lastSeen[r]
      BY <3>1, Zenon DEF ReadFirst
    <3>3. \A k \in SlotPages : Held(slots[k]) => slots[k].gen <= CurrentGen
      BY <2>2, <2>3, HeldIsVisible, Zenon
    <3>4. \A k \in SlotPages : Held(got[k]) =>
              /\ Held(slots[k]) => got[k].gen <= slots[k].gen
              /\ ~Held(slots[k]) => got[k].gen < CurrentGen
              /\ Held(slots[Other(k)]) => got[k].gen # slots[Other(k)].gen
      BY <3>1, Zenon DEF ReadFirst, Behind
    <3>5. /\ \/ Readable(img) /\ Newest(img).gen >= got[j].gen
             \/ CurrentGen >= got[j].gen + 1
          /\ Readable(img) => Newest(img).gen + 1 >= got[j].gen /\ Newest(img).gen <= CurrentGen
      BY <1>0, <3>2, <3>3, <3>4, LateImage, Zenon
    <3>6. img \in Image /\ got[j].gen \in Nat /\ reads[r].attempt >= 1
      BY <1>0, <3>1, SlotTypes, Zenon DEF Image, ReadFirst
    <3>7. Readable(img) => Newest(img).gen \in Nat
      BY <3>6, NewestIsNatural, Zenon
    <3> HIDE DEF img, got
    <3>8. /\ \/ /\ Readable(img) /\ Newest(img).gen >= lastSeen[r]
                /\ Newest(img).gen + 1 >= reads[r].start + reads[r].attempt
             \/ CurrentGen >= reads[r].start + reads[r].attempt
          /\ Readable(img) => Newest(img).gen + 1 >= reads[r].start /\ Newest(img).gen <= CurrentGen
      BY <1>0, <3>2, <3>5, <3>6, <3>7
    <3> QED  BY <1>b, <2>1, <3>6, <3>8 DEF ReadSecond
  <2> HIDE DEF img, got
  <2> QED  BY <1>b, <1>d, <2>1, <2>2, <2>3 DEF ReadOK
<1>5. ASSUME ReadDecode(r)  PROVE ReadOK(r)'
  <2> DEFINE img == reads[r].got
             good == Readable(img) /\ Newest(img).gen >= lastSeen[r]
  <2>1. reads[r].phase = "decode" /\ present /\ present'
    BY <1>5, <1>a, <1>c DEF ReadDecode
  <2>2. OneKindOfFailure => ReadSecond(r)
    BY <2>1, Zenon DEF ReadOK
  <2>3. OneKindOfFailure =>
           /\ reads[r].attempt >= 1
           /\ good \/ CurrentGen >= reads[r].start + reads[r].attempt
           /\ Readable(img) => Newest(img).gen + 1 >= reads[r].start /\ Newest(img).gen <= CurrentGen
    BY <2>2, Zenon DEF ReadSecond
  <2>4. CASE /\ good
             /\ lastSeen' = [lastSeen EXCEPT ![r] = Newest(img).gen]
             /\ result' = [result EXCEPT ![r] = Newest(img)]
             /\ reads' = [reads EXCEPT ![r] =
                            [phase |-> "answered", got |-> img,
                             attempt |-> reads[r].attempt, start |-> reads[r].start]]
    <3>1. /\ lastSeen'[r] = Newest(img).gen /\ result'[r] = Newest(img)
          /\ reads'[r].phase = "answered" /\ reads'[r].start = reads[r].start
      BY <2>4, ZenonT(60) DEF TypeOK
    <3> QED  BY <1>b, <2>1, <2>3, <2>4, <3>1, Zenon DEF ReadOK
  <2>5. CASE /\ ~good /\ reads[r].attempt # ReadAttempts
             /\ reads' = [reads EXCEPT ![r] =
                            [phase |-> "first", got |-> slots,
                             attempt |-> reads[r].attempt + 1, start |-> reads[r].start]]
             /\ UNCHANGED <<lastSeen, result>>
    <3>1. /\ reads'[r] = [phase |-> "first", got |-> slots,
                          attempt |-> reads[r].attempt + 1, start |-> reads[r].start]
          /\ lastSeen'[r] = lastSeen[r]
      BY <2>5, ZenonT(60) DEF TypeOK
    <3>2. ASSUME OneKindOfFailure  PROVE ReadFirst(r)'
      <4>1. PICK k \in SlotPages : Leads(slots, k) /\ CurrentGen = slots[k].gen
        BY <2>1, <3>2, Standing, ZenonT(60)
      <4>2. Behind(r)'
        BY <1>a, <3>1, <4>1, FreshIsBehind
      <4>3. /\ slots[k].gen + 1 >= reads[r].start + (reads[r].attempt + 1)
            /\ slots[k].gen >= lastSeen[r] /\ reads[r].attempt + 1 >= 1
        BY <1>0, <1>d, <2>3, <2>5, <3>2, <4>1
      <4> QED  BY <3>1, <4>1, <4>2, <4>3 DEF ReadFirst
    <3> QED  BY <1>b, <1>d, <2>1, <3>1, <3>2 DEF ReadOK
  <2>6. CASE /\ ~good /\ reads[r].attempt = ReadAttempts
             /\ reads' = [reads EXCEPT ![r] =
                            [phase |-> "refused", got |-> img,
                             attempt |-> reads[r].attempt, start |-> reads[r].start]]
             /\ UNCHANGED <<lastSeen, result>>
    <3>1. /\ reads'[r].phase = "refused" /\ reads'[r].start = reads[r].start
          /\ lastSeen'[r] = lastSeen[r]
      BY <2>6, Zenon DEF TypeOK
    <3> QED  BY <1>b, <1>d, <2>1, <2>3, <2>6, <3>1, Zenon DEF ReadOK
  <2> QED  BY <1>5, <2>4, <2>5, <2>6, ReadDecodeEffect, Zenon
<1> QED  BY <1>1, <1>2, <1>3, <1>4, <1>5, Zenon

\* The readers that do not act find their read where they left it.
LEMMA OtherReaders ==
    ASSUME TypeOK, Next, ~PowerLoss
    PROVE  \A r \in Readers :
              \/ /\ reads'[r] = reads[r] /\ lastSeen'[r] = lastSeen[r] /\ result'[r] = result[r]
              \/ \/ ReadStart(r) \/ ReadAbsent(r) \/ ReadDecode(r)
                 \/ ReadReturn(r) \/ \E i \in SlotPages : ReadLate(r, i)
<1>0. /\ reads \in [Readers -> Read] /\ lastSeen \in [Readers -> Nat]
      /\ result \in [Readers -> Record]
  BY Zenon DEF TypeOK
<1>1. ASSUME \/ \E count \in {1, 2} : Bootstrap(count) \/ WriteSlot(count)
             \/ WriteDone \/ Barrier \/ Abandon
      PROVE  UNCHANGED <<reads, lastSeen, result>>
  BY <1>1, Zenon DEF Bootstrap, WriteSlot, WriteDone, Barrier, Abandon
<1>2. ASSUME NEW q \in Readers, \/ ReadStart(q) \/ ReadAbsent(q) \/ ReadDecode(q)
                                \/ ReadReturn(q) \/ \E i \in SlotPages : ReadLate(q, i)
      PROVE  \A r \in Readers \ {q} : /\ reads'[r] = reads[r] /\ lastSeen'[r] = lastSeen[r]
                                      /\ result'[r] = result[r]
  <2>1. CASE ReadStart(q) \/ ReadAbsent(q) \/ ReadReturn(q)
    BY <1>0, <2>1, Zenon DEF ReadStart, ReadAbsent, ReadReturn
  <2>2. CASE ReadDecode(q)
    BY <1>0, <2>2, ReadDecodeEffect
  <2>3. ASSUME NEW i \in SlotPages, ReadLate(q, i)
        PROVE  \A r \in Readers \ {q} : /\ reads'[r] = reads[r] /\ lastSeen'[r] = lastSeen[r]
                                        /\ result'[r] = result[r]
    BY <1>0, <2>3, ReadLateEffect, Zenon
  <2> QED  BY <1>2, <2>1, <2>2, <2>3, Zenon
<1> QED  BY <1>1, <1>2, Zenon DEF Next

\* Every step keeps every reader's part of the invariant.
LEMMA ReadersKept ==
    ASSUME TypeOK, TypeOK', Publishing, Published, Next, \A r \in Readers : ReadOK(r)
    PROVE  \A r \in Readers : ReadOK(r)'
<1> TAKE r \in Readers
<1>1. CASE PowerLoss
  <2>1. reads'[r].phase = "idle" /\ lastSeen'[r] = 0
    BY <1>1, PowerLossEffect, IdleTypes, Zenon
  <2>2. CurrentGen' \in Nat
    BY NewestIsNatural, Zenon DEF CurrentGen, TypeOK
  <2>3. 0 <= CurrentGen'
    BY <2>2
  <2> QED  BY <2>1, <2>3, Zenon DEF ReadOK
<1>2. CASE ~PowerLoss
  <2>a. ASSUME \/ \E count \in {1, 2} : Bootstrap(count) \/ WriteSlot(count)
               \/ WriteDone \/ Barrier \/ Abandon
        PROVE  outages' = outages /\ (present => present')
    BY <2>a DEF Bootstrap, WriteSlot, WriteDone, Barrier, Abandon
  <2>b. ASSUME \E q \in Readers : \/ ReadStart(q) \/ ReadAbsent(q) \/ ReadDecode(q)
                                  \/ ReadReturn(q) \/ \E i \in SlotPages : ReadLate(q, i)
        PROVE  outages' = outages /\ (present => present')
    BY <2>b DEF ReadStart, ReadAbsent, ReadLate, ReadDecode, ReadReturn
  <2>1. outages' = outages /\ (present => present')
    BY <1>2, <2>a, <2>b, Zenon DEF Next
  <2> QED  BY <1>2, <2>1, OtherReaders, ReadStays, ReaderKept, Zenon
<1> QED  BY <1>1, <1>2, Zenon

-----------------------------------------------------------------------------
(* Theorems.                                                                  *)

\* The initial state satisfies the invariant.
LEMMA RecordInitially == Init => RecordInvariant
<1> SUFFICES ASSUME Init  PROVE \A r \in Readers : ReadOK(r)
  BY TypesInitially, PublishingInitially, Zenon DEF RecordInvariant
<1> TAKE r \in Readers
<1>1. reads[r].phase = "idle" /\ lastSeen[r] = 0 /\ CurrentGen = 0
  BY IdleTypes, Zenon DEF Init, CurrentGen
<1> QED  BY <1>1 DEF ReadOK

\* Every step keeps the invariant.
LEMMA RecordStep == RecordInvariant /\ [Next]_vars => RecordInvariant'
<1> SUFFICES ASSUME RecordInvariant, [Next]_vars  PROVE RecordInvariant'
  BY Zenon
<1>0. TypeOK /\ Publishing /\ Published /\ Forced /\ \A r \in Readers : ReadOK(r)
  BY Zenon DEF RecordInvariant
<1>1. CASE Next
  <2>1. TypeOK'
    BY <1>0, <1>1, TypesKept, Zenon
  <2>2. Publishing' /\ Published' /\ Forced'
    BY <1>0, <1>1, PublishingKept, PublishedKept, ForcedKept, Zenon
  <2>3. \A r \in Readers : ReadOK(r)'
    BY <1>0, <1>1, <2>1, ReadersKept, Zenon
  <2> QED  BY <2>1, <2>2, <2>3, Zenon DEF RecordInvariant
<1>2. CASE UNCHANGED vars
  <2>1. TypeOK' /\ Publishing' /\ Published' /\ Forced'
    BY <1>0, <1>2, SMTT(30) DEF vars, TypeOK, Publishing, Published, Forced, OneKindOfFailure, Leads, Held
  <2>2. \A r \in Readers : ReadOK(r)'
    BY <1>0, <1>2 DEF vars, ReadOK, ReadFirst, ReadSecond, Behind, OneKindOfFailure, CurrentGen
  <2> QED  BY <2>1, <2>2, ZenonT(60) DEF RecordInvariant
<1> QED  BY <1>1, <1>2, Zenon

\* The inductive invariant: a publication overwrites the older slot only, the
\* device keeps the other one, and every read in progress is behind the slots by
\* no more than the publications that became visible since it started.
THEOREM RecordInvariantHolds == Spec => []RecordInvariant
BY RecordInitially, RecordStep, PTL DEF Spec

\* With one kind of failure, a record whose publication returned can be read, or
\* a later one: publish_checked never has the newest record in the slot it writes.
THEOREM PublishedRecordStays == Spec => []AckedRecordStays
<1>1. RecordInvariant => AckedRecordStays
  <2> SUFFICES ASSUME RecordInvariant, acked > 0, OneKindOfFailure
               PROVE  present /\ Readable(slots) /\ Newest(slots).payload >= acked
    BY Zenon DEF AckedRecordStays
  <2>1. TypeOK /\ Publishing /\ Published /\ present
    BY Zenon DEF RecordInvariant, Published
  <2> QED  BY <2>1, Standing, Zenon
<1> QED  BY <1>1, RecordInvariantHolds, PTL

\* A read that answers is at most one generation behind the record that was current
\* when it began, for any number of attempts and any publications in between.
THEOREM ReadsAreRecent == Spec => []ReadIsRecent
<1>1. RecordInvariant => ReadIsRecent
  BY Zenon DEF RecordInvariant, ReadOK, ReadIsRecent
<1> QED  BY <1>1, RecordInvariantHolds, PTL

\* read gives up only when a publication overtook each of its ReadAttempts images.
THEOREM RefusedWhenOvertaken == Spec => []RefusedOnlyWhenOvertaken
<1>1. RecordInvariant => RefusedOnlyWhenOvertaken
  BY Zenon DEF RecordInvariant, ReadOK, RefusedOnlyWhenOvertaken
<1> QED  BY <1>1, RecordInvariantHolds, PTL

\* Without a power loss the visible generation never goes back, however many
\* publishers died half way.
THEOREM VisibleNeverRegresses == Spec => GenerationNeverRegresses
<1>1. RecordInvariant /\ RecordInvariant' /\ [Next]_vars
        => [outages' = outages => CurrentGen' >= CurrentGen]_vars
  <2> SUFFICES ASSUME RecordInvariant, RecordInvariant', Next, outages' = outages
               PROVE  CurrentGen' >= CurrentGen
    BY Zenon
  <2> QED  BY CurrentKept, Zenon DEF RecordInvariant
<1> QED  BY <1>1, RecordInvariantHolds, PTL DEF Spec, GenerationNeverRegresses

=============================================================================
