---------------------------- MODULE ControlRecord ----------------------------
(* The two-slot file behind the writer lease and the commit state             *)
(* (TwoSlotControlRecordStore).  A publication overwrites the slot that does  *)
(* not hold the newest valid record and then barriers the file.  Publishers   *)
(* take turns (they hold LEASE_SECTION or COMMIT_SECTION); readers take no    *)
(* section and may see a slot while it is being overwritten.                  *)
(*                                                                            *)
(* Two things can interrupt a publication: its process dies or the device     *)
(* refuses the barrier (the page cache keeps what was written), or the power  *)
(* fails (a slot that was not barriered is old, new or torn).  A payload is   *)
(* the serial number of its publication.                                      *)
EXTENDS Naturals

CONSTANTS
    Readers,
    ReadAttempts,    \* CONTROL_READ_ATTEMPTS
    MaxVersion,      \* bound: publications
    MaxAbandoned,    \* bound: publications cut short before their barrier
    MaxOutages       \* bound: power losses

ASSUME ControlAssumption ==
    /\ ReadAttempts \in Nat \ {0}
    /\ MaxVersion \in Nat
    /\ MaxAbandoned \in Nat
    /\ MaxOutages \in Nat

VARIABLES
    present,         \* the file is visible under its name
    presentDisk,     \* its directory entry is durable
    slots,           \* slots[i]: what a read of the slot page returns
    disk,            \* disk[i]: what the device holds of it, of the shape of Filled
    pub,             \* the publication in progress
    minted,          \* versions handed to publish so far
    acked,           \* newest version whose publication returned
    reads,           \* reads[r]: the read in progress
    lastSeen,        \* lastSeen[r]: _last_seen
    result,          \* result[r]: the record the last read answered with
    abandoned,
    outages

vars == <<present, presentDisk, slots, disk, pub, minted, acked, reads, lastSeen, result,
          abandoned, outages>>

-----------------------------------------------------------------------------
SlotPages == {1, 2}

Torn == [valid |-> FALSE, gen |-> 0, payload |-> 0]
Empty == [valid |-> TRUE, gen |-> 0, payload |-> 0]
Filled(g, v) == [valid |-> TRUE, gen |-> g, payload |-> v]

Other(i) == 3 - i

Populated(img) == {i \in SlotPages : img[i].valid /\ img[i].gen > 0}

\* _select_slot refuses two slots of one generation.
Ambiguous(img) == Populated(img) = SlotPages /\ img[1].gen = img[2].gen

\* The slot _select_slot chooses: the populated one of the greatest generation.
ChosenPage(img) ==
    CHOOSE i \in Populated(img) : \A j \in Populated(img) : img[j].gen <= img[i].gen

Readable(img) == Populated(img) # {} /\ ~Ambiguous(img)

Newest(img) == img[ChosenPage(img)]

\* Mutant: the newest record is overwritten in place.
TargetIsNewest(img) == ChosenPage(img)

\* The page a publication overwrites, given the image it decoded.
TargetPage(img) == Other(ChosenPage(img))

IdlePub == [phase |-> "idle", target |-> 1, gen |-> 0, payload |-> 0, left |-> 0]
IdleRead == [phase |-> "idle", got |-> [i \in SlotPages |-> Torn], attempt |-> 0, start |-> 0]

\* The generation a read made now would find if nobody interfered.
CurrentGen == IF present /\ Readable(slots) THEN Newest(slots).gen ELSE 0

Init ==
    /\ present = FALSE
    /\ presentDisk = FALSE
    /\ slots = [i \in SlotPages |-> Torn]
    /\ disk = [i \in SlotPages |-> Torn]
    /\ pub = IdlePub
    /\ minted = 0
    /\ acked = 0
    /\ reads = [r \in Readers |-> IdleRead]
    /\ lastSeen = [r \in Readers |-> 0]
    /\ result = [r \in Readers |-> Torn]
    /\ abandoned = 0
    /\ outages = 0

-----------------------------------------------------------------------------
(* publish_checked *)

\* _bootstrap writes and barriers a temporary with generation 1 and an EMPTY
\* slot, then renames it over the name.  count - 1 more publications follow.
Bootstrap(count) ==
    /\ pub.phase = "idle"
    /\ minted < MaxVersion
    /\ ~present
    /\ present' = TRUE
    /\ slots' = [i \in SlotPages |-> IF i = 1 THEN Filled(1, minted + 1) ELSE Empty]
    /\ disk' = slots'
    /\ minted' = minted + 1
    /\ pub' = [phase |-> "barrier", target |-> 1, gen |-> 1, payload |-> minted + 1,
               left |-> count]
    /\ UNCHANGED <<presentDisk, acked, reads, lastSeen, result, abandoned, outages>>

\* Decode the image, choose the target and start to overwrite it.
WriteSlot(count) ==
    /\ pub.phase = "idle"
    /\ minted < MaxVersion
    /\ present
    /\ Readable(slots)
    /\ minted' = minted + 1
    /\ LET t == TargetPage(slots)
       IN  /\ pub' = [phase |-> "writing", target |-> t, gen |-> Newest(slots).gen + 1,
                      payload |-> minted + 1, left |-> count]
           /\ slots' = [slots EXCEPT ![t] = Torn]
    /\ UNCHANGED <<present, presentDisk, disk, acked, reads, lastSeen, result, abandoned, outages>>

\* write_page returns: the whole slot is visible.
WriteDone ==
    /\ pub.phase = "writing"
    /\ slots' = [slots EXCEPT ![pub.target] = Filled(pub.gen, pub.payload)]
    /\ pub' = [pub EXCEPT !.phase = "barrier"]
    /\ UNCHANGED <<present, presentDisk, disk, minted, acked, reads, lastSeen, result,
                   abandoned, outages>>

\* Mutant: a publication returns without its barrier.
BarrierSkipped ==
    /\ pub.phase = "barrier"
    /\ presentDisk' = TRUE
    /\ IF pub.left = 1
         THEN /\ acked' = pub.payload
              /\ pub' = IdlePub
              /\ UNCHANGED slots
         ELSE /\ pub' = [pub EXCEPT !.phase = "writing", !.target = Other(pub.target),
                                    !.gen = @ + 1, !.left = @ - 1]
              /\ slots' = [slots EXCEPT ![Other(pub.target)] = Torn]
              /\ UNCHANGED acked
    /\ UNCHANGED <<present, disk, minted, reads, lastSeen, result, abandoned, outages>>

\* durable_barrier covers the file, and with it every slot.  A publication with
\* redundancy goes on with the same payload in the other slot.
Barrier ==
    /\ pub.phase = "barrier"
    /\ presentDisk' = TRUE
    /\ disk' = slots
    /\ IF pub.left = 1
         THEN /\ acked' = pub.payload
              /\ pub' = IdlePub
              /\ UNCHANGED slots
         ELSE /\ pub' = [pub EXCEPT !.phase = "writing", !.target = Other(pub.target),
                                    !.gen = @ + 1, !.left = @ - 1]
              /\ slots' = [slots EXCEPT ![Other(pub.target)] = Torn]
              /\ UNCHANGED acked
    /\ UNCHANGED <<present, minted, reads, lastSeen, result, abandoned, outages>>

\* The publisher dies, or its write or barrier raises: what it wrote stays in
\* the page cache and nobody barriers it.
Abandon ==
    /\ pub.phase # "idle"
    /\ abandoned < MaxAbandoned
    /\ abandoned' = abandoned + 1
    /\ pub' = IdlePub
    /\ UNCHANGED <<present, presentDisk, slots, disk, minted, acked, reads, lastSeen, result, outages>>

\* The power fails.  Every process is gone; a slot that was not barriered is
\* what the device had, what was written, or neither.
PowerLoss ==
    /\ outages < MaxOutages
    /\ outages' = outages + 1
    /\ \E img \in [SlotPages -> {Torn} \cup {slots[i] : i \in SlotPages}
                                      \cup {disk[i] : i \in SlotPages}] :
          /\ \A i \in SlotPages :
                IF slots[i] = disk[i] THEN img[i] = disk[i]
                                      ELSE img[i] \in {Torn, slots[i], disk[i]}
          /\ slots' = img
          /\ disk' = img
    /\ present' \in IF present = presentDisk THEN {present} ELSE BOOLEAN
    /\ presentDisk' = present'
    /\ pub' = IdlePub
    /\ reads' = [r \in Readers |-> IdleRead]
    /\ lastSeen' = [r \in Readers |-> 0]
    /\ result' = [r \in Readers |-> Torn]
    /\ UNCHANGED <<minted, acked, abandoned>>

-----------------------------------------------------------------------------
(* read: the image is one byte range, but its slots are not read at one instant *)

ReadStart(r) ==
    /\ reads[r].phase = "idle"
    /\ present
    /\ reads' = [reads EXCEPT ![r] = [phase |-> "first", got |-> slots, attempt |-> 1,
                                      start |-> CurrentGen]]
    /\ result' = [result EXCEPT ![r] = Torn]
    /\ UNCHANGED <<present, presentDisk, slots, disk, pub, minted, acked, lastSeen,
                   abandoned, outages>>

\* There is no file: read answers None at once.
ReadAbsent(r) ==
    /\ reads[r].phase = "idle"
    /\ ~present
    /\ result' = [result EXCEPT ![r] = Torn]
    /\ UNCHANGED <<present, presentDisk, slots, disk, pub, minted, acked, reads, lastSeen,
                   abandoned, outages>>

\* The second slot arrives later than the first; i is the one that is late.
ReadLate(r, i) ==
    /\ reads[r].phase = "first"
    /\ reads' = [reads EXCEPT ![r].phase = "decode", ![r].got[i] = slots[i]]
    /\ UNCHANGED <<present, presentDisk, slots, disk, pub, minted, acked, lastSeen, result,
                   abandoned, outages>>

\* Mutant: the first damaged image is refused.
ReadDecodeOnce(r) ==
    /\ reads[r].phase = "decode"
    /\ LET img == reads[r].got
       IN  IF Readable(img) /\ Newest(img).gen >= lastSeen[r]
             THEN /\ lastSeen' = [lastSeen EXCEPT ![r] = Newest(img).gen]
                  /\ result' = [result EXCEPT ![r] = Newest(img)]
                  /\ reads' = [reads EXCEPT ![r].phase = "answered"]
             ELSE /\ reads' = [reads EXCEPT ![r].phase = "refused"]
                  /\ UNCHANGED <<lastSeen, result>>
    /\ UNCHANGED <<present, presentDisk, slots, disk, pub, minted, acked, abandoned, outages>>

\* Decode and select; a generation below the last one seen counts as damage, and
\* damage is read again until the attempts are used up.
ReadDecode(r) ==
    /\ reads[r].phase = "decode"
    /\ LET img == reads[r].got
           good == Readable(img) /\ Newest(img).gen >= lastSeen[r]
           last == reads[r].attempt = ReadAttempts
       IN  \/ /\ good
              /\ lastSeen' = [lastSeen EXCEPT ![r] = Newest(img).gen]
              /\ result' = [result EXCEPT ![r] = Newest(img)]
              /\ reads' = [reads EXCEPT ![r].phase = "answered"]
           \/ /\ ~good /\ ~last
              /\ reads' = [reads EXCEPT ![r].phase = "first", ![r].got = slots,
                                        ![r].attempt = @ + 1]
              /\ UNCHANGED <<lastSeen, result>>
           \/ /\ ~good /\ last
              /\ reads' = [reads EXCEPT ![r].phase = "refused"]
              /\ UNCHANGED <<lastSeen, result>>
    /\ UNCHANGED <<present, presentDisk, slots, disk, pub, minted, acked, abandoned, outages>>

\* The caller takes the answer; it reads again when it likes.
ReadReturn(r) ==
    /\ reads[r].phase \in {"answered", "refused"}
    /\ reads' = [reads EXCEPT ![r] = IdleRead]
    /\ UNCHANGED <<present, presentDisk, slots, disk, pub, minted, acked, lastSeen, result,
                   abandoned, outages>>

Next ==
    \/ \E count \in {1, 2} : Bootstrap(count) \/ WriteSlot(count)
    \/ WriteDone
    \/ Barrier
    \/ Abandon
    \/ PowerLoss
    \/ \E r \in Readers :
         \/ ReadStart(r)
         \/ ReadAbsent(r)
         \/ \E i \in SlotPages : ReadLate(r, i)
         \/ ReadDecode(r)
         \/ ReadReturn(r)

Spec == Init /\ [][Next]_vars

-----------------------------------------------------------------------------
\* Publishers die or the power fails, but not both.  A publisher that dies before its
\* barrier leaves a valid slot that is not forced; the next publication overwrites the
\* other one, and a power loss during it can leave no valid slot at all.
OneKindOfFailure == abandoned = 0 \/ outages = 0

\* A file that exists always has a record a reader can fall back to, and it is
\* no older than the last publication that returned: whichever slot is being
\* overwritten, the other one holds the newest valid record.
AckedRecordStays ==
    acked > 0 /\ OneKindOfFailure =>
        /\ present
        /\ Readable(slots)
        /\ Newest(slots).payload >= acked

\* What a read returns lags the record that was current when it started by at
\* most one generation, also when publications overtake it between its slots.
ReadIsRecent ==
    \A r \in Readers :
        reads[r].phase = "answered" /\ OneKindOfFailure =>
            result[r].gen + 1 >= reads[r].start

\* A read is refused as damaged only if publications kept overtaking it: at
\* least one more record became visible for every attempt it made.
RefusedOnlyWhenOvertaken ==
    \A r \in Readers :
        reads[r].phase = "refused" /\ OneKindOfFailure =>
            CurrentGen >= reads[r].start + ReadAttempts

\* Short of a power loss the visible generation never goes back, whatever a dead
\* publisher left half written: a reader that remembers the last generation it
\* saw has no reason to call the record damaged.
GenerationNeverRegresses ==
    [][outages' = outages => CurrentGen' >= CurrentGen]_vars

=============================================================================
