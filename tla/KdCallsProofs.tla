----------------------------- MODULE KdCallsProofs -----------------------------
(***************************************************************************)
(* Proofs about what the calls of the camera sensor list do: the delayed   *)
(* exposure and gain, for any delays, requests and frames; the transfers   *)
(* of the sensors; and the types of all of them together.                  *)
(***************************************************************************)
EXTENDS MCKdCalls, TLAPS, SequenceTheorems

\* What is left of a delay of the sensor is fixed by what was asked and by the
\* frames since; the other parts relate the gains and their reader to the two
\* steps of the stores.
DelayInv ==
  \A x \in Fields :
    kd_delay[x] = IF kd_asked[x] = Off \/ kd_asked[x] <= kd_age THEN Off
                  ELSE kd_asked[x] - 1 - kd_age

\* While something may wait, the stored values are the request's, or those of
\* the SET_ESHUTTER_GAIN since.
ValueInv ==
  \A x \in Fields :
    kd_asked[x] # Off =>
      kd_value = IF kd_shot = Off THEN kd_asked.n ELSE NoRequest

OnTimeInv == ExposureTypeOK /\ DelayInv /\ ValueInv /\ ExposureOnTime

StoresInv ==
  /\ kd_gains[1] = kd_syncs
  /\ kd_pc # "stores" => kd_gains[2] = kd_syncs
ReaderInv ==
  ~kd_overlap =>
    /\ kd_reader # "idle" => kd_pc # "stores"
    /\ kd_reader \in {"rest", "off"} => kd_got[1] = kd_syncs
    /\ kd_reader = "off" => kd_got[2] = kd_syncs
WholeInv == ExposureTypeOK /\ StoresInv /\ ReaderInv

\* Between the two steps of a frame the ISP's delay is one ahead.
IspBefore == IF kd_asked.isp <= kd_age THEN 0 ELSE kd_asked.isp - kd_age
IspInv ==
  ~kd_crossed =>
    /\ kd_isp # Off =>
         kd_isp = IF kd_pc \in {"test", "dec"} THEN IspBefore ELSE IspDue
    /\ kd_pc = "dec" => kd_isp \notin {0, Off}
    /\ kd_reader # "idle" => kd_isp \in {0, Off} /\ kd_taken = 0
    /\ kd_taken <= 1
    /\ kd_taken = 1 => kd_isp = Off
DueInv == ExposureTypeOK /\ IspInv

\* What is left a frame later.
LEMMA OneLess ==
  ASSUME NEW asked \in Nat, NEW age \in Nat, NEW left, ~(asked <= age),
         left = asked - age
  PROVE  left - 1 = IF asked <= age + 1 THEN 0 ELSE asked - 1 - age
BY SMT

USE ExposureAssumption DEF ExposureAssumption
-----------------------------------------------------------------------------
LEMMA DelayRange ==
  ASSUME NEW d \in Delays \cup {Off}
  PROVE  d \in Nat /\ d <= 255 /\ (d # Off => d <= 200) /\ d \in Byte
  BY SMT DEF Off, Byte

LEMMA CountByte == \A d \in Byte : Count(d) \in Byte
  BY SMT DEF Count, Byte, Off

LEMMA NoAskIsRequest == NoAsk \in Requests
  BY SMT DEF NoAsk, Requests, NoRequest

LEMMA NoGiftsTyped == NoGifts \in [Fields -> Gifts]
<1>1. Gift(Main, NoRequest) \in Gifts
  BY SMT DEF Gift, Gifts, NoRequest
<1>2. QED
  BY <1>1 DEF NoGifts

\* What is due replaces a gift by a gift.
LEMMA AppliedGifts ==
  ASSUME NEW d, NEW old \in [Fields -> Gifts], NEW to \in Cameras,
         NEW of \in 0 .. MaxSyncs
  PROVE  Applied(d, old, Gift(to, of)) \in [Fields -> Gifts]
<1>1. Gift(to, of) \in Gifts
  BY SMT DEF Gift, Gifts
<1>2. QED
  BY <1>1 DEF Applied

LEMMA Initially ==
  ExposureInit => OnTimeInv /\ WholeInv /\ DueInv
<1> SUFFICES ASSUME ExposureInit PROVE OnTimeInv /\ WholeInv /\ DueInv
  OBVIOUS
<1> USE DEF ExposureInit
<1>1. ExposureTypeOK
  <2>1. kd_delay \in [Fields -> Byte] /\ kd_isp \in Byte
        /\ kd_done \in [Fields -> Byte]
    BY SMT DEF Byte, NoDelays, Fields, Off
  <2>2. kd_gains \in [1 .. 2 -> 0 .. MaxSyncs]
        /\ kd_got \in [1 .. 2 -> 0 .. MaxSyncs]
        /\ kd_syncs \in 0 .. MaxSyncs /\ kd_age \in 0 .. MaxFrames
    BY SMT
  <2>3. kd_ask \in Requests /\ kd_asked \in Requests
    BY NoAskIsRequest
  <2>4. kd_flag \in BOOLEAN /\ kd_crossed \in BOOLEAN /\ kd_overlap \in BOOLEAN
    BY Zenon
  <2>5. kd_pc = "free" /\ kd_reader = "idle" /\ kd_taken \in 0 .. 2
    BY SMT
  <2>6. kd_value \in 0 .. MaxSyncs /\ kd_shot = Off
    BY SMT DEF NoRequest
  <2>7. kd_given \in [Fields -> Gifts]
    BY NoGiftsTyped
  <2>8. QED
    BY <2>1, <2>2, <2>3, <2>4, <2>5, <2>6, <2>7, Zenon DEF ExposureTypeOK
<1>n. \A x \in Fields : kd_asked[x] = Off /\ kd_delay[x] = Off
                        /\ kd_done[x] = Off
  BY SMT DEF NoAsk, NoDelays, Fields
<1>2. DelayInv /\ ValueInv
  BY <1>n DEF DelayInv, ValueInv
<1>3. ExposureOnTime
  BY <1>n, SMT DEF ExposureOnTime, Off
<1>4. StoresInv /\ ReaderInv
  BY SMT DEF StoresInv, ReaderInv
<1>5. IspInv
  BY SMT DEF IspInv, Off
<1>6. QED
  BY <1>1, <1>2, <1>3, <1>4, <1>5 DEF OnTimeInv, WholeInv, DueInv

\* A field of a record is its value at the field's name.
LEMMA Names ==
  ASSUME NEW r \in Requests
  PROVE  /\ \A x \in Fields : r[x] \in Delays \cup {Off}
         /\ r.to \in Cameras /\ r.n \in 0 .. MaxSyncs
         /\ r.isp \in Delays \cup {Off}
<1>1. /\ r.exp \in Delays \cup {Off} /\ r.gain \in Delays \cup {Off}
      /\ r["exp"] = r.exp /\ r["gain"] = r.gain
      /\ r.to \in Cameras /\ r.n \in 0 .. MaxSyncs
      /\ r.isp \in Delays \cup {Off}
  BY SMT DEF Requests
<1>2. QED
  BY <1>1, Zenon DEF Fields

LEMMA TypeStep ==
  ASSUME ExposureTypeOK, [ExposureNext]_kdVars PROVE ExposureTypeOK'
<1> USE DEF ExposureTypeOK, sensorVars, ispVars, readerVars
<1>1. ASSUME NEW c \in Cameras, NEW e \in Delays, NEW g \in Delays,
             NEW i \in Delays, NEW blank \in BOOLEAN,
             SyncStart(c, e, g, i, blank)
      PROVE  ExposureTypeOK'
  <2>1. kd_syncs' \in 0 .. MaxSyncs /\ kd_gains' \in [1 .. 2 -> 0 .. MaxSyncs]
    BY <1>1, SMT DEF SyncStart
  <2>2. kd_ask' \in Requests
    BY <1>1, <2>1, SMT DEF SyncStart, Requests
  <2>3. QED
    BY <1>1, <2>1, <2>2, SMTT(30) DEF SyncStart
<1>2. CASE SyncStores
  <2>n. /\ \A x \in Fields : kd_ask[x] \in Delays \cup {Off}
        /\ kd_ask.to \in Cameras /\ kd_ask.n \in 0 .. MaxSyncs
        /\ kd_ask.isp \in Delays \cup {Off}
    BY Names
  <2>1. \A x \in Fields : kd_ask[x] \in Byte
    BY <2>n, DelayRange
  <2>2. kd_delay' \in [Fields -> Byte]
    BY <1>2, <2>1, CountByte DEF SyncStores, Counted
  <2>3. kd_done' \in [Fields -> Byte]
    BY <1>2, SMT DEF SyncStores, Applied, NoDelays, Byte, Off
  <2>4. kd_isp' \in Byte /\ kd_gains' \in [1 .. 2 -> 0 .. MaxSyncs]
    <3>1. kd_ask.isp \in Byte
      BY <2>n, DelayRange
    <3>2. kd_isp' = kd_ask.isp
          /\ kd_gains' = [kd_gains EXCEPT ![2] = kd_syncs]
      BY <1>2, Zenon DEF SyncStores
    <3>3. QED
      BY <3>1, <3>2, Zenon
  <2>5. kd_given' \in [Fields -> Gifts]
    <3>1. kd_given' = Applied([x \in Fields |-> kd_ask[x]], NoGifts,
                              Gift(kd_ask.to, kd_ask.n))
      BY <1>2, Zenon DEF SyncStores
    <3>2. QED
      BY <3>1, <2>n, NoGiftsTyped, AppliedGifts
  <2>6. /\ kd_ask' \in Requests /\ kd_asked' \in Requests
        /\ kd_value' \in 0 .. MaxSyncs
    BY <1>2, <2>n, NoAskIsRequest, Zenon DEF SyncStores
  <2>7. kd_pc' = "test" /\ kd_age' = 0 /\ kd_shot' = Off /\ kd_taken' = 0
        /\ kd_crossed' \in BOOLEAN /\ kd_overlap' \in BOOLEAN
        /\ UNCHANGED <<kd_flag, kd_reader, kd_got, kd_syncs>>
    BY <1>2, Zenon DEF SyncStores
  <2>8. kd_age' \in 0 .. MaxFrames /\ kd_taken' \in 0 .. 2
    BY <2>7, SMT
  <2>9. QED
    BY <2>2, <2>3, <2>4, <2>5, <2>6, <2>7, <2>8, Zenon
<1>3. CASE Frame
  <2>1. kd_delay' \in [Fields -> Byte]
    BY <1>3, CountByte DEF Frame, Counted
  <2>2. /\ kd_age' \in 0 .. MaxFrames /\ kd_age' \in Byte
        /\ kd_shot' = Off \/ kd_shot' \in 0 .. kd_age'
    BY <1>3, SMT DEF Frame, Byte
  <2>3. kd_done' \in [Fields -> Byte]
    BY <1>3, <2>2, SMT DEF Frame, Applied
  <2>4. kd_given' \in [Fields -> Gifts]
    BY <1>3, AppliedGifts DEF Frame
  <2>5. QED
    BY <1>3, <2>1, <2>2, <2>3, <2>4, Zenon DEF Frame
<1>4. CASE TestIsp
  BY <1>4, SMT DEF TestIsp
<1>5. CASE CountIsp
  <2>1. kd_isp' \in Byte
    BY <1>5, SMT DEF CountIsp, Byte
  <2>2. QED
    BY <1>5, <2>1, Zenon DEF CountIsp
<1>6. CASE Cancel
  <2>1. kd_delay' \in [Fields -> Byte] /\ kd_done' \in [Fields -> Byte]
        /\ kd_isp' \in Byte
    BY <1>6, SMT DEF Cancel, NoDelays, Byte, Off
  <2>2. kd_asked' \in Requests /\ kd_given' \in [Fields -> Gifts]
    BY <1>6, NoAskIsRequest, NoGiftsTyped DEF Cancel
  <2>3. QED
    BY <1>6, <2>1, <2>2, Zenon DEF Cancel
<1>7. CASE kdSetExpGain
  <2>1. kd_value' \in 0 .. MaxSyncs
        /\ (kd_shot' = Off \/ kd_shot' \in 0 .. kd_age')
    BY <1>7, SMT DEF kdSetExpGain, NoRequest
  <2>2. QED
    BY <1>7, <2>1, Zenon DEF kdSetExpGain
<1>8. CASE WaitDone
  BY <1>8, SMT DEF WaitDone
<1>9. CASE ReadStart
  BY <1>9, Zenon DEF ReadStart
<1>10. ASSUME NEW h \in 1 .. 2, NEW from, NEW to \in {"rest", "off"},
              ReadHalf(h, from, to)
       PROVE  ExposureTypeOK'
  <2>1. kd_got' \in [1 .. 2 -> 0 .. MaxSyncs]
    BY <1>10, SMT DEF ReadHalf
  <2>2. QED
    BY <1>10, <2>1, Zenon DEF ReadHalf
<1>11. CASE ReadEnd
  <2>1. kd_taken' \in 0 .. 2 /\ kd_isp' \in Byte
    BY <1>11, SMT DEF ReadEnd, Byte, Off
  <2>2. QED
    BY <1>11, <2>1, Zenon DEF ReadEnd
<1>12. CASE UNCHANGED kdVars
  BY <1>12, Zenon DEF kdVars
<1>13. CASE ReadHalf(1, "half", "rest") \/ ReadHalf(2, "rest", "off")
  <2>1. 1 \in 1 .. 2 /\ 2 \in 1 .. 2
    BY SMT
  <2>2. QED
    BY <1>10, <1>13, <2>1, Zenon
<1>14. QED
  BY <1>1, <1>2, <1>3, <1>4, <1>5, <1>6, <1>7, <1>8, <1>9, <1>11, <1>12,
     <1>13 DEF ExposureNext

-----------------------------------------------------------------------------
LEMMA AskedRange ==
  ASSUME ExposureTypeOK, NEW x \in Fields
  PROVE  /\ kd_asked[x] \in Nat /\ kd_asked[x] <= 255
         /\ kd_asked[x] = Off \/ kd_asked[x] <= 200
         /\ kd_ask[x] \in Nat /\ kd_ask[x] <= 255
         /\ kd_age \in Nat /\ kd_age <= 200
         /\ kd_shot = Off \/ (kd_shot \in Nat /\ kd_shot <= kd_age)
<1>1. kd_ask \in Requests /\ kd_asked \in Requests
  BY Zenon DEF ExposureTypeOK
<1>2. kd_asked[x] \in Delays \cup {Off} /\ kd_ask[x] \in Delays \cup {Off}
  BY <1>1, Names
<1>3. \A d \in Delays \cup {Off} : d \in Nat /\ d <= 255 /\ (d = Off \/ d <= 200)
  BY DelayRange
<1>4. kd_age \in 0 .. MaxFrames /\ (kd_shot = Off \/ kd_shot \in 0 .. kd_age)
  BY Zenon DEF ExposureTypeOK
<1>5. /\ kd_age \in Nat /\ kd_age <= 200
      /\ kd_shot = Off \/ (kd_shot \in Nat /\ kd_shot <= kd_age)
  BY <1>4, SMT
<1>6. /\ kd_asked[x] \in Nat /\ kd_asked[x] <= 255
      /\ kd_asked[x] = Off \/ kd_asked[x] <= 200
  BY <1>2, <1>3, Zenon
<1>7. kd_ask[x] \in Nat /\ kd_ask[x] <= 255
  <2>1. \A d \in Delays \cup {Off} : d \in Nat /\ d <= 255
    BY DelayRange
  <2>2. QED
    BY <1>2, <2>1, Zenon
<1>8. QED
  BY <1>5, <1>6, <1>7, Zenon

\* What OnTimeInv says of the exposure or of the gain.
FieldInv(x) ==
  /\ kd_delay[x] = IF kd_asked[x] = Off \/ kd_asked[x] <= kd_age THEN Off
                   ELSE kd_asked[x] - 1 - kd_age
  /\ kd_asked[x] # Off =>
       kd_value = IF kd_shot = Off THEN kd_asked.n ELSE NoRequest
  /\ kd_done[x] = IF kd_asked[x] <= kd_age THEN kd_asked[x] ELSE Off
  /\ kd_done[x] # Off =>
       kd_given[x] = Gift(IF kd_asked[x] = 0 THEN kd_asked.to ELSE Main,
                          IF kd_asked[x] <= kd_shot THEN kd_asked.n
                          ELSE NoRequest)

LEMMA OnTimeParts ==
  DelayInv /\ ValueInv /\ ExposureOnTime <=> \A x \in Fields : FieldInv(x)
  BY Zenon DEF DelayInv, ValueInv, ExposureOnTime, FieldInv

LEMMA OnTimeStep ==
  ASSUME OnTimeInv, [ExposureNext]_kdVars PROVE OnTimeInv'
<1> USE DEF sensorVars, ispVars, readerVars
<1>t. ExposureTypeOK' /\ ExposureTypeOK
  BY TypeStep DEF OnTimeInv
<1>f. \A x \in Fields : FieldInv(x)
  BY OnTimeParts DEF OnTimeInv
<1> SUFFICES ASSUME NEW x \in Fields PROVE FieldInv(x)'
  BY <1>t, Zenon DEF OnTimeInv, DelayInv, ValueInv, ExposureOnTime, FieldInv
<1>1. CASE SyncStores
  <2>1. kd_ask[x] \in Nat /\ kd_ask[x] <= 255
    BY <1>t, AskedRange
  <2>2. /\ kd_delay'[x] = Count(kd_ask[x]) /\ kd_asked' = kd_ask /\ kd_age' = 0
        /\ kd_done'[x] = IF kd_ask[x] = 0 THEN 0 ELSE Off
        /\ kd_given'[x] = IF kd_ask[x] = 0 THEN Gift(kd_ask.to, kd_ask.n)
                          ELSE NoGifts[x]
        /\ kd_value' = kd_ask.n /\ kd_shot' = Off
    BY <1>1, Zenon DEF SyncStores, Counted, Applied, Due, NoDelays
  <2>3. QED
    BY <2>1, <2>2, SMT DEF Count, Off, FieldInv
<1>2. CASE Frame
  <2>1. /\ kd_asked[x] \in Nat /\ (kd_asked[x] = Off \/ kd_asked[x] <= 200)
        /\ kd_age \in Nat /\ kd_age <= 200
        /\ kd_shot = Off \/ (kd_shot \in Nat /\ kd_shot <= kd_age)
    BY <1>t, AskedRange
  <2>2. kd_age' \in Nat /\ kd_age' <= 200 /\ kd_age' = kd_age + 1
    BY <1>2, <1>t, <2>1, SMT DEF Frame, ExposureTypeOK
  <2>3. /\ kd_delay'[x] = Count(kd_delay[x])
        /\ kd_done'[x] = IF kd_delay[x] = 0 THEN kd_age + 1 ELSE kd_done[x]
        /\ kd_given'[x] = IF kd_delay[x] = 0 THEN Gift(Main, kd_value)
                          ELSE kd_given[x]
        /\ UNCHANGED <<kd_asked, kd_value, kd_shot>>
    BY <1>2, Zenon DEF Frame, Counted, Applied, Due
  <2>4. FieldInv(x)
    BY <1>f
  <2>5. CASE kd_delay[x] = 0
    <3>1. kd_asked[x] = kd_age + 1 /\ kd_asked[x] # Off
      BY <2>1, <2>2, <2>4, <2>5, SMT DEF FieldInv, Off
    <3>2. kd_value = IF kd_asked[x] <= kd_shot THEN kd_asked.n ELSE NoRequest
      BY <2>1, <2>4, <3>1, SMT DEF FieldInv, Off
    <3>3. /\ kd_delay'[x] = Off /\ kd_done'[x] = kd_asked[x]
          /\ kd_given'[x] = Gift(Main, kd_value)
      BY <2>3, <2>5, <3>1, SMT DEF Count
    <3>4. kd_asked[x] # 0 /\ kd_asked[x] <= kd_age'
      BY <2>1, <2>2, <3>1, SMT
    <3>5. QED
      BY <2>3, <2>4, <3>2, <3>3, <3>4, Zenon DEF FieldInv
  <2>6. CASE kd_delay[x] # 0
    <3>1. kd_asked[x] <= kd_age' <=> kd_asked[x] <= kd_age
      BY <2>1, <2>2, <2>4, <2>6, SMT DEF FieldInv, Off
    <3>2. kd_delay'[x] = IF kd_asked[x] = Off \/ kd_asked[x] <= kd_age' THEN Off
                         ELSE kd_asked[x] - 1 - kd_age'
      BY <2>1, <2>2, <2>3, <2>4, <2>6, <3>1, SMT DEF FieldInv, Count, Off
    <3>3. QED
      BY <2>3, <2>4, <2>6, <3>1, <3>2, Zenon DEF FieldInv
  <2>7. QED
    BY <2>5, <2>6
<1>3. CASE Cancel
  <2>1. kd_asked'[x] = Off /\ kd_delay'[x] = Off /\ kd_done'[x] = Off
    BY <1>3, SMT DEF Cancel, NoAsk, NoDelays, Fields
  <2>2. kd_age' \in 0 .. MaxFrames
    BY <1>t, Zenon DEF ExposureTypeOK
  <2>3. QED
    BY <2>1, <2>2, SMT DEF FieldInv, Off
<1>4. CASE kdSetExpGain
  <2>1. /\ kd_asked[x] \in Nat /\ kd_asked[x] <= 255
        /\ kd_asked[x] = Off \/ kd_asked[x] <= 200
        /\ kd_age \in Nat /\ kd_age <= 200
        /\ kd_shot = Off \/ (kd_shot \in Nat /\ kd_shot <= kd_age)
    BY <1>t, AskedRange
  <2>2. /\ kd_value' = NoRequest
        /\ kd_shot' = IF kd_shot = Off THEN kd_age ELSE kd_shot
        /\ UNCHANGED <<kd_delay, kd_done, kd_given, kd_asked, kd_age>>
    BY <1>4, Zenon DEF kdSetExpGain
  <2>3. FieldInv(x)
    BY <1>f
  <2>4. kd_shot' # Off
    BY <2>1, <2>2, SMT DEF Off
  <2>5. kd_done[x] # Off => (kd_asked[x] <= kd_shot' <=> kd_asked[x] <= kd_shot)
    BY <2>1, <2>2, <2>3, SMT DEF FieldInv, Off
  <2>6. QED
    BY <2>2, <2>3, <2>4, <2>5, Zenon DEF FieldInv
<1>5. ASSUME UNCHANGED <<kd_delay, kd_value, kd_shot, kd_done, kd_given,
                         kd_asked, kd_age>>
      PROVE  FieldInv(x)'
  BY <1>5, <1>f, Zenon DEF FieldInv
<1>6. QED
  BY <1>1, <1>2, <1>3, <1>4, <1>5
     DEF ExposureNext, kdVars, SyncStart, TestIsp, CountIsp, WaitDone,
         ReadStart, ReadHalf, ReadEnd

LEMMA WholeStep ==
  ASSUME WholeInv, [ExposureNext]_kdVars PROVE WholeInv'
<1> USE DEF StoresInv, ReaderInv, sensorVars, ispVars, readerVars
<1>t. ExposureTypeOK' /\ StoresInv /\ ReaderInv
  BY TypeStep DEF WholeInv
<1> SUFFICES StoresInv' /\ ReaderInv'
  BY <1>t DEF WholeInv
<1>r. /\ kd_gains \in [1 .. 2 -> 0 .. MaxSyncs]
      /\ kd_got \in [1 .. 2 -> 0 .. MaxSyncs] /\ kd_syncs \in 0 .. MaxSyncs
  BY Zenon DEF WholeInv, ExposureTypeOK
<1>1. ASSUME NEW c \in Cameras, NEW e \in Delays, NEW g \in Delays,
             NEW i \in Delays, NEW blank \in BOOLEAN,
             SyncStart(c, e, g, i, blank)
      PROVE  StoresInv' /\ ReaderInv'
  <2>1. /\ kd_gains'[1] = kd_syncs' /\ kd_pc' = "stores"
        /\ kd_reader' = kd_reader /\ kd_overlap' = (kd_reader # "idle")
    BY <1>1, <1>r, SMT DEF SyncStart
  <2>2. QED
    BY <2>1, Zenon
<1>2. CASE SyncStores
  <2>1. /\ kd_gains'[1] = kd_gains[1] /\ kd_gains'[2] = kd_syncs
        /\ kd_syncs' = kd_syncs /\ kd_pc' = "test"
        /\ kd_reader' = kd_reader /\ kd_overlap' = (kd_reader # "idle")
    BY <1>2, <1>r, SMT DEF SyncStores
  <2>2. QED
    BY <1>t, <2>1, Zenon
<1>3. CASE ReadStart
  <2>1. kd_reader' = "half" /\ kd_overlap' = (kd_pc = "stores")
        /\ UNCHANGED <<kd_pc, kd_gains, kd_syncs, kd_got>>
    BY <1>3, Zenon DEF ReadStart
  <2>2. QED
    BY <1>t, <2>1, Zenon
<1>4. CASE ReadHalf(1, "half", "rest")
  <2>1. kd_reader = "half" /\ kd_reader' = "rest" /\ kd_got'[1] = kd_gains[1]
        /\ UNCHANGED <<kd_pc, kd_gains, kd_syncs, kd_overlap>>
    BY <1>4, <1>r, SMT DEF ReadHalf
  <2>2. QED
    BY <1>t, <2>1, SMT
<1>5. CASE ReadHalf(2, "rest", "off")
  <2>1. kd_reader = "rest" /\ kd_reader' = "off" /\ kd_got'[2] = kd_gains[2]
        /\ kd_got'[1] = kd_got[1]
        /\ UNCHANGED <<kd_pc, kd_gains, kd_syncs, kd_overlap>>
    BY <1>5, <1>r, SMT DEF ReadHalf
  <2>2. QED
    BY <1>t, <2>1, Zenon
<1>6. CASE ReadEnd
  <2>1. kd_reader' = "idle" /\ UNCHANGED <<kd_pc, kd_gains, kd_syncs, kd_overlap>>
    BY <1>6, Zenon DEF ReadEnd
  <2>2. QED
    BY <1>t, <2>1, Zenon
<1>7. CASE Frame \/ TestIsp \/ CountIsp \/ Cancel \/ kdSetExpGain \/ WaitDone
  <2>1. kd_pc # "stores" /\ kd_pc' # "stores"
        /\ UNCHANGED <<kd_gains, kd_syncs, kd_reader, kd_got, kd_overlap>>
    BY <1>7, SMT
       DEF Frame, TestIsp, CountIsp, Cancel, kdSetExpGain, WaitDone
  <2>2. QED
    BY <1>t, <2>1, Zenon
<1>8. CASE UNCHANGED kdVars
  BY <1>8, <1>t, Zenon DEF kdVars
<1>9. QED
  BY <1>t, <1>1, <1>2, <1>3, <1>4, <1>5, <1>6, <1>7, <1>8
     DEF ExposureNext

LEMMA IspRange ==
  ASSUME ExposureTypeOK
  PROVE  /\ kd_asked.isp \in 0 .. 255 /\ kd_ask.isp \in 0 .. 255
         /\ kd_age \in 0 .. 200 /\ kd_isp \in 0 .. 255 /\ kd_taken \in 0 .. 2
         /\ (kd_asked.isp = Off \/ kd_asked.isp <= 200)
<1>1. kd_asked.isp \in Delays \cup {Off} /\ kd_ask.isp \in Delays \cup {Off}
  <2>1. kd_ask \in Requests /\ kd_asked \in Requests
    BY Zenon DEF ExposureTypeOK
  <2>2. QED
    BY <2>1, Names
<1>2. kd_age \in 0 .. MaxFrames /\ kd_isp \in Byte /\ kd_taken \in 0 .. 2
  BY Zenon DEF ExposureTypeOK
<1>3. /\ kd_asked.isp \in 0 .. 255 /\ kd_ask.isp \in 0 .. 255
      /\ (kd_asked.isp = Off \/ kd_asked.isp <= 200)
  <2>1. \A d \in Delays \cup {Off} :
          d \in 0 .. 255 /\ (d = Off \/ d <= 200)
    BY DelayRange, SMT DEF Byte
  <2>2. QED
    BY <1>1, <2>1
<1>4. QED
  BY <1>2, <1>3, SMT DEF Byte

LEMMA DueStep ==
  ASSUME DueInv, [ExposureNext]_kdVars PROVE DueInv'
<1> USE DEF IspInv, IspBefore, IspDue, sensorVars, ispVars, readerVars, Off
<1>t. ExposureTypeOK' /\ ExposureTypeOK /\ IspInv
  BY TypeStep DEF DueInv
<1> SUFFICES IspInv'
  BY <1>t DEF DueInv
<1>r. /\ kd_asked.isp \in 0 .. 255 /\ kd_ask.isp \in 0 .. 255
      /\ kd_age \in 0 .. 200 /\ kd_isp \in 0 .. 255 /\ kd_taken \in 0 .. 2
      /\ (kd_asked.isp = 255 \/ kd_asked.isp <= 200)
  BY <1>t, IspRange
<1>1. ASSUME NEW c \in Cameras, NEW e \in Delays, NEW g \in Delays,
             NEW i \in Delays, NEW blank \in BOOLEAN,
             SyncStart(c, e, g, i, blank)
      PROVE  IspInv'
  BY <1>1, <1>t, <1>r, SMT DEF SyncStart
<1>2. CASE SyncStores
  <2>1. /\ kd_isp' = kd_ask.isp /\ kd_asked'.isp = kd_ask.isp /\ kd_age' = 0
        /\ kd_pc' = "test" /\ kd_taken' = 0 /\ kd_reader' = kd_reader
        /\ ~kd_crossed' => kd_reader = "idle"
    BY <1>2, Zenon DEF SyncStores
  <2>2. kd_isp' = IspBefore'
    BY <2>1, <1>r, SMT
  <2>3. QED
    BY <2>1, <2>2, SMT
<1>3. CASE Frame
  BY <1>3, <1>t, <1>r, SMT DEF Frame
<1>4. CASE TestIsp
  BY <1>4, <1>t, <1>r, SMT DEF TestIsp
<1>5. CASE CountIsp
  <2>1. kd_pc = "dec" /\ (kd_isp # 0 => kd_isp' = kd_isp - 1)
    BY <1>5, <1>r, SMT DEF CountIsp
  <2>2. kd_pc' = "free"
        /\ UNCHANGED <<kd_asked, kd_age, kd_taken, kd_reader, kd_crossed>>
    BY <1>5, Zenon DEF CountIsp
  <2>3. ASSUME ~kd_crossed'
        PROVE  /\ kd_isp # 0 /\ kd_isp # 255 /\ kd_isp = IspBefore
               /\ kd_reader = "idle" /\ kd_taken = 0
    BY <2>1, <2>2, <2>3, <1>t, <1>r, SMT
  <2>4. ASSUME ~kd_crossed' PROVE kd_isp' = IspDue'
    <3>1. IspDue' = IspDue
      BY <2>2, Zenon
    <3>2. kd_isp' = kd_isp - 1 /\ kd_isp = IspBefore /\ kd_isp # 0
      BY <2>1, <2>3, <2>4
    <3>3. kd_isp' = IspDue
      <4>1. ~(kd_asked.isp <= kd_age) /\ kd_isp = kd_asked.isp - kd_age
        BY <3>2, <1>r, SMT
      <4>2. kd_asked.isp \in Nat /\ kd_age \in Nat
        BY <1>r, SMT
      <4>3. kd_isp - 1 = IspDue
        BY <4>1, <4>2, OneLess, SMT DEF IspDue
      <4>4. QED
        BY <3>2, <4>3
    <3>4. QED
      BY <3>1, <3>3
  <2>5. QED
    BY <2>2, <2>3, <2>4, SMT
<1>6. CASE Cancel
  BY <1>6, <1>t, <1>r, SMT DEF Cancel
<1>7. CASE kdSetExpGain \/ WaitDone
  BY <1>7, <1>t, <1>r, SMT DEF kdSetExpGain, WaitDone
<1>8. CASE ReadStart
  BY <1>8, <1>t, <1>r, SMT DEF ReadStart
<1>9. CASE ReadHalf(1, "half", "rest") \/ ReadHalf(2, "rest", "off")
  BY <1>9, <1>t, <1>r, SMT DEF ReadHalf
<1>10. CASE ReadEnd
  BY <1>10, <1>t, <1>r, SMT DEF ReadEnd
<1>11. CASE UNCHANGED kdVars
  BY <1>11, <1>t, SMT DEF kdVars
<1>12. QED
  BY <1>t, <1>1, <1>2, <1>3, <1>4, <1>5, <1>6, <1>7, <1>8, <1>9, <1>10, <1>11
     DEF ExposureNext

-----------------------------------------------------------------------------
\* Exposure and gain of the last request are given once, at the frame asked for
\* (1312-1335, 2096-2123), to the sensor of the request or, at a frame, to the
\* main one, with the request's values or those that a SET_ESHUTTER_GAIN stored
\* over them (2163-2164), whatever is requested, cancelled or read in between.
THEOREM OnTimeTheorem == ExposureSpec => []ExposureOnTime
<1>1. OnTimeInv /\ [ExposureNext]_kdVars => OnTimeInv'
  BY OnTimeStep
<1>2. OnTimeInv => ExposureOnTime
  BY DEF OnTimeInv
<1>3. QED
  BY <1>1, <1>2, Initially, PTL DEF ExposureSpec

\* The ISP gets whole gains, at their frame and once (1358-1367), unless stores
\* overlap its reading.
THEOREM GainsTheorem == ExposureSpec => []GainsWhole
<1>1. WholeInv /\ [ExposureNext]_kdVars => WholeInv'
  BY WholeStep
<1>2. DueInv /\ [ExposureNext]_kdVars => DueInv'
  BY DueStep
<1>3. WholeInv /\ DueInv => GainsWhole
  BY SMT DEF WholeInv, DueInv, ReaderInv, IspInv, GainsWhole
<1>4. QED
  BY <1>1, <1>2, <1>3, Initially, PTL DEF ExposureSpec

HIDE ExposureAssumption DEF ExposureAssumption
-----------------------------------------------------------------------------
(* The transfers of the sensors.                                           *)

\* A sensor is called, and makes its transfers, with its bus selected, unless a
\* write to /proc overlaps the call or the function selects none; the flag of a
\* search is that of the function in progress.
I2cInv ==
  /\ I2cTypeOK
  /\ kb_search <=> (kb_fn = "search")
  /\ kb_pc = "idle" => ~kb_search
  /\ kb_pc \in {"sensor", "send", "recv"} =>
       /\ Selected(kb_i)
       /\ ~kb_mixed /\ kb_fn \notin Unselecting =>
            kb_bus = Home(kb_socket[kb_i])
  /\ kb_pc \in {"send", "recv"} => kb_op \in Ops
  /\ kb_proc # None /\ kb_pc # "idle" => kb_mixed
  /\ TransferFits

LEMMA I2cInitially == I2cInit => I2cInv
<1> SUFFICES ASSUME I2cInit PROVE I2cInv
  OBVIOUS
<1> USE DEF I2cInit
<1>1. I2cTypeOK
  <2>1. /\ kb_addr \in [Buses -> 0 .. Nobody] /\ kb_old \in 0 .. Nobody
        /\ kb_flags \in [Buses -> SUBSET {"dma", "filter"}]
    BY SMT DEF Nobody
  <2>2. kb_search \in BOOLEAN /\ kb_mixed \in BOOLEAN
    BY Zenon
  <2>3. QED
    BY <2>1, <2>2, SMT DEF I2cTypeOK
<1>2. kb_search <=> (kb_fn = "search")
  BY DEF None
<1>3. QED
  BY <1>1, <1>2 DEF I2cInv, TransferFits

LEMMA DrivenSockets == Driven \subseteq Sockets
BY DEF Driven

\* A function goes through the sensors: no transfer is under way.
LEMMA LoopStep ==
  ASSUME I2cInv, Enter \/ CheckIsAlive \/ Skip \/ Call \/ Back \/ Return
  PROVE  I2cInv'
<1>1. /\ UNCHANGED <<kb_socket, kb_addr, kb_flags, opVars, kb_proc>>
      /\ kb_pc' \in {"idle", "loop", "sensor"} /\ kb_bus' \in Buses
  BY DEF Enter, CheckIsAlive, Skip, Call, Back, Return, Begin, busVars,
         procVars, I2cInv, I2cTypeOK, Home, Buses
<1>2. /\ kb_fn' \in Functions \cup {None} /\ kb_for' \subseteq Sockets
      /\ kb_i' \in -1 .. 3
  <2>1. CASE Enter \/ CheckIsAlive
    BY <2>1, DrivenSockets
       DEF Enter, CheckIsAlive, Begin, First, Functions, Unselecting
  <2>2. CASE Skip \/ Call \/ Back
    BY <2>2 DEF Skip, Call, Back, Following, Failed, Index, loopVars, Selected,
                I2cInv, I2cTypeOK
  <2>3. CASE Return
    <3>1. CASE Resumes
      <4>1. /\ kb_fn' \in {"suspend", "resume"} /\ kb_for' \subseteq Driven
            /\ kb_i' = 0
        BY <2>3, <3>1 DEF Return, Begin, First
      <4>2. QED
        BY <4>1, DrivenSockets DEF Functions
    <3>2. CASE ~Resumes
      BY <2>3, <3>2 DEF Return
    <3>3. QED
      BY <3>1, <3>2
  <2>4. QED
    BY <2>1, <2>2, <2>3
<1>3. /\ kb_search' \in BOOLEAN /\ (kb_search' <=> kb_fn' = "search")
      /\ kb_pc' = "idle" => ~kb_search'
  <2>1. CASE Return
    <3>1. CASE Resumes
      BY <2>1, <3>1 DEF Return, Resumes, Begin, I2cInv, I2cTypeOK
    <3>2. CASE ~Resumes
      BY <2>1, <3>2 DEF Return, None
    <3>3. QED
      BY <3>1, <3>2
  <2>2. CASE Enter
    BY <2>2 DEF Enter, Begin, Unselecting, I2cInv, I2cTypeOK
  <2>3. CASE CheckIsAlive
    BY <2>3 DEF CheckIsAlive, Begin
  <2>4. CASE Skip \/ Call \/ Back
    <3>1. UNCHANGED <<kb_fn, kb_search>> /\ kb_pc' # "idle"
      BY <2>4 DEF Skip, Call, Back, loopVars, I2cInv, I2cTypeOK
    <3>2. QED
      BY <3>1 DEF I2cInv, I2cTypeOK
  <2>5. QED
    BY <2>1, <2>2, <2>3, <2>4
<1>4. /\ kb_mixed' \in BOOLEAN
      /\ kb_proc' # None /\ kb_pc' # "idle" => kb_mixed'
  <2>1. CASE Enter \/ CheckIsAlive
    BY <2>1 DEF Enter, CheckIsAlive
  <2>2. CASE Skip \/ Call \/ Back
    BY <2>2 DEF Skip, Call, Back, procVars, I2cInv, I2cTypeOK
  <2>3. CASE Return
    BY <2>3 DEF Return, Begin, I2cInv, I2cTypeOK
  <2>4. QED
    BY <2>1, <2>2, <2>3
<1>5. kb_pc' = "sensor" =>
        /\ Selected(kb_i)'
        /\ kb_fn' \notin Unselecting => kb_bus' = Home(kb_socket'[kb_i'])
  BY DEF Enter, CheckIsAlive, Skip, Call, Back, Return, Begin, Selected,
         loopVars
<1>6. I2cTypeOK'
  BY <1>1, <1>2, <1>3, <1>4 DEF I2cTypeOK, opVars, I2cInv
<1>7. QED
  BY <1>1, <1>3, <1>4, <1>5, <1>6 DEF I2cInv, TransferFits

\* A function of the sensor sets up the client of its bus.
LEMMA StartStep ==
  ASSUME I2cInv, NEW op \in Ops, Start(op) PROVE I2cInv'
<1> USE DEF I2cInv, loopVars, procVars
<1>1. /\ Selected(kb_i) /\ kb_bus \in Buses /\ kb_i \in Index
      /\ ~kb_mixed /\ kb_fn \notin Unselecting =>
           kb_bus = Home(kb_socket[kb_i])
      /\ UNCHANGED <<kb_socket, kb_bus, loopVars, procVars>>
      /\ kb_pc = "sensor" /\ kb_pc' = "send" /\ kb_op' = op /\ op \in Ops
  BY DEF Start, Selected, I2cTypeOK
<1>2. Selected(kb_i)'
  BY <1>1 DEF Selected
<1>3. /\ kb_addr' \in [Buses -> 0 .. Nobody]
      /\ kb_addr'[kb_bus] = kb_i
  BY <1>1 DEF Start, I2cTypeOK, Index, Nobody
<1>4. /\ Flags(op, kb_bus) \in SUBSET {"dma", "filter"}
      /\ op \in {"iBurstWriteReg", "iMultiWriteReg"} =>
           "dma" \in Flags(op, kb_bus)
      /\ op = "iWriteReg" \/ (op = "iReadReg" /\ kb_bus = 1) =>
           "dma" \notin Flags(op, kb_bus)
      /\ op = "iReadReg" => ("filter" \in Flags(op, kb_bus) <=> kb_search)
  <2>1. kb_flags[kb_bus] \in SUBSET {"dma", "filter"} /\ kb_search \in BOOLEAN
    BY <1>1 DEF I2cTypeOK
  <2>2. QED
    BY <1>1, <2>1 DEF Flags, Filtered, Ops, Reads
<1>5. /\ kb_flags' \in [Buses -> SUBSET {"dma", "filter"}]
      /\ kb_flags'[kb_bus] = Flags(op, kb_bus)
  BY <1>1, <1>4 DEF Start, I2cTypeOK
<1>6. kb_left' \in 0 .. 4 /\ kb_old' \in 0 .. Nobody
  BY <1>1 DEF Start, Attempts, I2cTypeOK, Nobody
<1>7. I2cTypeOK'
  BY <1>1, <1>3, <1>5, <1>6 DEF I2cTypeOK
<1>8. TransferFits'
  BY <1>1, <1>3, <1>4, <1>5 DEF TransferFits
<1>9. QED
  BY <1>1, <1>2, <1>7, <1>8

LEMMA DoneStep == ASSUME I2cInv, kb_pc \in {"send", "recv"}, Done PROVE I2cInv'
<1> USE DEF I2cInv, loopVars, procVars, Done
<1>1. I2cTypeOK'
  <2>1. kb_addr' \in [Buses -> 0 .. Nobody] /\ kb_old' \in 0 .. Nobody
    BY DEF I2cTypeOK, Nobody
  <2>2. QED
    BY <2>1 DEF I2cTypeOK
<1>2. Selected(kb_i)'
  BY DEF Selected
<1>3. QED
  BY <1>1, <1>2 DEF TransferFits

LEMMA TransferStep ==
  ASSUME I2cInv, Refuse \/ Sent \/ SendFails \/ Receive PROVE I2cInv'
<1>1. CASE Done /\ kb_pc \in {"send", "recv"}
  BY <1>1, DoneStep
<1>2. CASE /\ kb_pc = "send" /\ kb_pc' \in {"send", "recv"}
           /\ kb_left' \in 0 .. 4
           /\ UNCHANGED <<kb_socket, busVars, loopVars, kb_op, kb_old, procVars>>
  <2> USE <1>2 DEF I2cInv, busVars, loopVars, procVars
  <2>1. I2cTypeOK'
    BY DEF I2cTypeOK
  <2>2. Selected(kb_i)'
    BY DEF Selected
  <2>3. QED
    BY <2>1, <2>2 DEF TransferFits
<1>3. QED
  BY <1>1, <1>2 DEF Refuse, Sent, SendFails, Receive, opVars, I2cInv, I2cTypeOK

\* A write to /proc disturbs the call that it overlaps and no other.
LEMMA ProcStep ==
  ASSUME I2cInv, (\E s \in Driven : ProcStart(s)) \/ ProcSteps \/ ProcEnd
  PROVE  I2cInv'
<1> USE DEF I2cInv
<1>1. /\ UNCHANGED <<kb_socket, kb_fn, kb_for, kb_i, kb_search, kb_pc, kb_op,
                     kb_left, kb_old>>
      /\ Selected(kb_i) => Selected(kb_i)'
  BY DEF ProcStart, ProcSteps, ProcEnd, loopVars, opVars, Selected
<1>2. CASE (\E s \in Driven : ProcStart(s)) \/ ProcEnd
  <2>1. /\ UNCHANGED <<kb_bus, kb_addr, kb_flags>>
        /\ kb_proc' \in Sockets \cup {None} /\ kb_mixed' \in BOOLEAN
        /\ kb_proc' # None /\ kb_pc # "idle" => kb_mixed'
        /\ kb_pc # "idle" /\ ~kb_mixed' => ~kb_mixed
    BY <1>2, DrivenSockets DEF ProcStart, ProcEnd, busVars, I2cTypeOK
  <2>2. I2cTypeOK'
    BY <1>1, <2>1 DEF I2cTypeOK
  <2>3. TransferFits'
    BY <1>1, <2>1 DEF TransferFits
  <2>4. QED
    BY <1>1, <2>1, <2>2, <2>3
<1>3. CASE ProcSteps
  <2>1. /\ UNCHANGED procVars /\ kb_proc # None
        /\ kb_pc # "idle" => kb_mixed
    BY <1>3 DEF ProcSteps
  <2>2. /\ kb_bus' \in Buses /\ kb_addr' \in [Buses -> 0 .. Nobody]
        /\ kb_flags' \in [Buses -> SUBSET {"dma", "filter"}]
    <3>1. PICK k \in Index :
             \/ kb_bus' = Home(kb_proc) /\ UNCHANGED <<kb_addr, kb_flags>>
             \/ \E op \in Ops, b \in Buses :
                  /\ kb_addr' = [kb_addr EXCEPT ![b] = k]
                  /\ kb_flags' = [kb_flags EXCEPT ![b] = Flags(op, b)]
                  /\ UNCHANGED kb_bus
             \/ \E b \in Buses, a \in 0 .. Nobody :
                  /\ kb_addr' = [kb_addr EXCEPT ![b] = a]
                  /\ UNCHANGED <<kb_bus, kb_flags>>
      BY <1>3, Zenon DEF ProcSteps
    <3>2. CASE kb_bus' = Home(kb_proc) /\ UNCHANGED <<kb_addr, kb_flags>>
      BY <3>2 DEF Home, Buses, I2cTypeOK
    <3>3. ASSUME NEW op \in Ops, NEW b \in Buses,
                 kb_addr' = [kb_addr EXCEPT ![b] = k],
                 kb_flags' = [kb_flags EXCEPT ![b] = Flags(op, b)],
                 UNCHANGED kb_bus
          PROVE  /\ kb_bus' \in Buses /\ kb_addr' \in [Buses -> 0 .. Nobody]
                 /\ kb_flags' \in [Buses -> SUBSET {"dma", "filter"}]
      <4>1. Flags(op, b) \in SUBSET {"dma", "filter"}
        BY <3>3 DEF Flags, Filtered, I2cTypeOK
      <4>2. k \in 0 .. Nobody
        BY DEF Index, Nobody
      <4>3. QED
        BY <3>3, <4>1, <4>2 DEF I2cTypeOK
    <3>4. CASE \E b \in Buses, a \in 0 .. Nobody :
                 /\ kb_addr' = [kb_addr EXCEPT ![b] = a]
                 /\ UNCHANGED <<kb_bus, kb_flags>>
      BY <3>4 DEF I2cTypeOK
    <3>5. QED
      BY <3>1, <3>2, <3>3, <3>4, Zenon
  <2>3. I2cTypeOK'
    BY <1>1, <2>1, <2>2 DEF I2cTypeOK, procVars
  <2>4. TransferFits'
    BY <1>1, <2>1 DEF TransferFits, procVars
  <2>5. QED
    BY <1>1, <2>1, <2>3, <2>4 DEF procVars
<1>4. QED
  BY <1>2, <1>3

LEMMA I2cStep == I2cInv /\ [I2cNext]_kbVars => I2cInv'
<1> SUFFICES ASSUME I2cInv, [I2cNext]_kbVars PROVE I2cInv'
  OBVIOUS
<1>1. CASE UNCHANGED kbVars
  BY <1>1 DEF kbVars, busVars, loopVars, opVars, procVars, I2cInv, I2cTypeOK,
              TransferFits, Selected
<1>2. QED
  BY <1>1, LoopStep, StartStep, TransferStep, ProcStep DEF I2cNext

\* In every reachable state of the calls, for all orders and failures of the
\* functions and all that a write to /proc did before, a transfer of a call that
\* no such write overlaps has the address and the flags of its sensor, and the
\* bus of its socket unless its function selects none (865-875, 896-906).
THEOREM TransferTheorem == I2cSpec => []TransferFits
<1>1. I2cInv => TransferFits
  BY DEF I2cInv
<1>2. QED
  BY <1>1, I2cInitially, I2cStep, PTL DEF I2cSpec

-----------------------------------------------------------------------------
(* The buffers of the calls.                                               *)

\* The steps that a call can be made of.
StepTypes ==
  {s \in [op : {"alloc", "in", "out", "sensor", "point", "free"},
          bufs : SUBSET (Heap \cup Other \cup {"user"}),
          to : Heap \cup Other \cup {"", "0", "1"},
          frees : SUBSET Heap, fail : {"next", "tail", "exit"}] :
     /\ s.op = "alloc" => s.bufs \subseteq Heap
     /\ s.op = "sensor" => s.bufs \subseteq Heap \cup Other
     /\ s.op = "out" => /\ s.bufs \subseteq Heap \cup Other
                        /\ s.to \in Heap \cup Other
     /\ s.op = "point" => /\ s.bufs \subseteq Heap \cup {"user"}
                          /\ s.to \in {"0", "1"}}

FeatureInv == FeatureTypeOK /\ kf_todo \in Seq(StepTypes)

Kernel == Heap \cup Other

\* Every step of every call is one of them.
LEMMA StepKinds ==
  /\ \A b, f \in SUBSET Heap : Alloc(b, f) \in StepTypes
  /\ \A b \in Kernel, f \in SUBSET Heap : Take(b, f) \in StepTypes
  /\ \A b, u \in Kernel, f \in SUBSET Heap : Put(b, u, f) \in StepTypes
  /\ \A b, u \in Kernel : TryTake(b) \in StepTypes /\ TryPut(b, u) \in StepTypes
  /\ \A b \in SUBSET Kernel : Sensor(b) \in StepTypes
  /\ \A w \in {"0", "1"}, b \in Heap : Point(w, b) \in StepTypes
  /\ \A w \in {"0", "1"} : Restore(w) \in StepTypes
  /\ \A b \in SUBSET Heap : Free(b) \in StepTypes
<1> USE DEF StepTypes, Step, Kernel
<1>1. \A b, f \in SUBSET Heap : Alloc(b, f) \in StepTypes
  BY DEF Alloc
<1>2. \A b \in Kernel, f \in SUBSET Heap : Take(b, f) \in StepTypes
  BY DEF Take
<1>3. \A b, u \in Kernel, f \in SUBSET Heap : Put(b, u, f) \in StepTypes
  BY DEF Put
<1>4. \A b, u \in Kernel : TryTake(b) \in StepTypes /\ TryPut(b, u) \in StepTypes
  BY DEF TryTake, TryPut
<1>5. \A b \in SUBSET Kernel : Sensor(b) \in StepTypes
  BY DEF Sensor
<1>6. \A w \in {"0", "1"}, b \in Heap : Point(w, b) \in StepTypes
  BY DEF Point
<1>7. \A w \in {"0", "1"} : Restore(w) \in StepTypes
  BY DEF Restore, Point
<1>8. \A b \in SUBSET Heap : Free(b) \in StepTypes
  BY DEF Free
<1>9. QED
  BY <1>1, <1>2, <1>3, <1>4, <1>5, <1>6, <1>7, <1>8

LEMMA Around == Before \in Seq(StepTypes) /\ After \in Seq(StepTypes)
<1>1. {"buff"} \in SUBSET Heap /\ "buff" \in Kernel /\ {} \in SUBSET Heap
  BY DEF Heap, Kernel
<1>2. \A s \in StepTypes : [s EXCEPT !.fail = "exit"] \in StepTypes
  BY DEF StepTypes
<1>3. QED
  BY <1>1, <1>2, StepKinds DEF Before, After

LEMMA FeatureParts ==
  ASSUME NEW f
  PROVE  /\ CopyIn(f) \in Seq(StepTypes) /\ Nested(f) \in Seq(StepTypes)
         /\ CopyOut(f) \in Seq(StepTypes)
         /\ <<Null, Take("len", {}), Alloc({"para"}, {})>> \in Seq(StepTypes)
         /\ <<Free({"para"}), Put("len", "len", {})>> \in Seq(StepTypes)
<1>1. /\ {"value0", "value1", "struct", "para"} \subseteq Heap
      /\ "len" \in Kernel /\ Heap \subseteq Kernel
  BY DEF Heap, Other, Kernel
<1>2. CopyIn(f) \in Seq(StepTypes) /\ CopyOut(f) \in Seq(StepTypes)
  BY <1>1, StepKinds DEF CopyIn, CopyOut
<1>3. Nested(f) \in Seq(StepTypes)
  <2>1. OneValueSteps \in Seq(StepTypes)
    BY <1>1, StepKinds DEF OneValueSteps
  <2>2. TwoValueSteps \in Seq(StepTypes)
    BY <1>1, StepKinds DEF TwoValueSteps
  <2>3. \A w \in {"0", "1"} : StructSteps(w) \in Seq(StepTypes)
    BY <1>1, StepKinds DEF StructSteps
  <2>4. WindowSteps \in Seq(StepTypes)
    BY <1>1, StepKinds DEF WindowSteps
  <2>5. <<Sensor({"para"})>> \in Seq(StepTypes)
    BY <1>1, StepKinds
  <2>6. QED
    BY <2>1, <2>2, <2>3, <2>4, <2>5 DEF Nested
<1>4. /\ <<Null, Take("len", {}), Alloc({"para"}, {})>> \in Seq(StepTypes)
      /\ <<Free({"para"}), Put("len", "len", {})>> \in Seq(StepTypes)
  <2>1. Null = Take("len", {})
    BY DEF Null, Take
  <2>2. QED
    BY <1>1, <2>1, StepKinds
<1>5. QED
  BY <1>2, <1>3, <1>4

LEMMA FeatureSteps == ASSUME NEW f PROVE FeatureControl(f) \in Seq(StepTypes)
BY FeatureParts, ConcatProperties DEF FeatureControl

LEMMA BodySteps == ASSUME NEW c PROVE Body(c) \in Seq(StepTypes)
<1>1. /\ {"res0", "res1"} \subseteq Heap /\ Heap \subseteq Kernel
      /\ {"len", "info0", "info1", "config0", "config1", "info2", "window",
          "config", "resolution"} \subseteq Kernel
      /\ Null = Take("len", {})
  BY DEF Heap, Other, Kernel, Null, Take
<1>2. GetResolution \in Seq(StepTypes)
  BY <1>1, StepKinds DEF GetResolution
<1>3. GetInfo(c.compat) \in Seq(StepTypes)
  BY <1>1, StepKinds DEF GetInfo, ConfigTo
<1>4. GetInfo2 \in Seq(StepTypes)
  BY <1>1, StepKinds DEF GetInfo2
<1>5. Control \in Seq(StepTypes)
  BY <1>1, StepKinds DEF Control
<1>6. QED
  BY <1>2, <1>3, <1>4, <1>5, FeatureSteps DEF Body

LEMMA FeatureInitially == FeatureInit => FeatureInv
<1> SUFFICES ASSUME FeatureInit PROVE FeatureInv
  OBVIOUS
<1> USE DEF FeatureInit
<1>1. kf_word \in [{"0", "1"} -> Heap \cup {"user"}]
  OBVIOUS
<1>2. kf_blind \in BOOLEAN
  BY Zenon
<1>3. QED
  BY <1>1, <1>2 DEF FeatureInv, FeatureTypeOK

LEMMA FeatureStep == FeatureInv /\ [FeatureNext]_kfVars => FeatureInv'
<1> SUFFICES ASSUME FeatureInv, [FeatureNext]_kfVars PROVE FeatureInv'
  OBVIOUS
<1>1. ASSUME kf_todo # <<>>
      PROVE  This \in StepTypes /\ Tail(kf_todo) \in Seq(StepTypes)
  BY <1>1, HeadTailProperties DEF FeatureInv, This
<1>2. ASSUME NEW c \in Calls, CAMERA_HW_Ioctl(c) PROVE FeatureInv'
  <2>1. kf_todo' \in Seq(StepTypes)
    BY <1>2, Around, BodySteps, ConcatProperties DEF CAMERA_HW_Ioctl
  <2>2. kf_word' \in [{"0", "1"} -> Heap \cup {"user"}]
    BY <1>2 DEF CAMERA_HW_Ioctl
  <2>3. kf_blind' \in BOOLEAN
    BY <1>2, Zenon DEF CAMERA_HW_Ioctl
  <2>4. QED
    BY <1>2, <2>1, <2>2, <2>3 DEF FeatureInv, FeatureTypeOK, CAMERA_HW_Ioctl
<1>3. CASE Allocate
  BY <1>1, <1>3
  DEF Allocate, Doing, Goes, This, FeatureInv, FeatureTypeOK, StepTypes
<1>4. CASE Copy
  <2>1. This \in StepTypes /\ kf_todo' \in Seq(StepTypes)
        /\ This.op \in {"in", "out"}
    BY <1>1, <1>4 DEF Copy, Doing, Goes, This
  <2>2. kf_got' \subseteq Kernel \X Kernel
    <3>1. kf_got \subseteq Kernel \X Kernel
      BY DEF FeatureInv, FeatureTypeOK, Kernel
    <3>2. CASE This.op = "in"
      BY <1>4, <3>1, <3>2 DEF Copy
    <3>3. CASE This.op = "out"
      <4>1. This.bufs \subseteq Kernel /\ This.to \in Kernel
        BY <2>1, <3>3 DEF StepTypes, Kernel
      <4>2. kf_got' = kf_got \cup (This.bufs \X {This.to})
        BY <1>4, <3>3 DEF Copy
      <4>3. QED
        BY <3>1, <4>1, <4>2
    <3>4. QED
      BY <2>1, <3>2, <3>3
  <2>3. QED
    BY <1>4, <2>1, <2>2 DEF Copy, FeatureInv, FeatureTypeOK, Kernel
<1>5. CASE Fails
  <2>1. This \in StepTypes /\ Tail(kf_todo) \in Seq(StepTypes)
    BY <1>1, <1>5 DEF Fails, Doing
  <2>2. kf_todo' \in Seq(StepTypes)
    <3>1. <<>> \in Seq(StepTypes)
      OBVIOUS
    <3>2. kf_todo' \in {Tail(kf_todo), After, <<>>}
      BY <1>5 DEF Fails
    <3>3. QED
      BY <2>1, <3>1, <3>2, Around
  <2>3. kf_live' \subseteq Heap
    BY <1>5, <2>1 DEF Fails, StepTypes, FeatureInv, FeatureTypeOK
  <2>4. kf_blind' \in BOOLEAN
    BY <1>5, Zenon DEF Fails, FeatureInv, FeatureTypeOK
  <2>5. QED
    BY <1>5, <2>2, <2>3, <2>4 DEF Fails, FeatureInv, FeatureTypeOK
<1>6. CASE CallSensor
  <2>1. kf_todo' \in Seq(StepTypes) /\ This \in StepTypes /\ This.op = "sensor"
    BY <1>1, <1>6 DEF CallSensor, Doing, Goes, This
  <2>2. kf_set' \subseteq Heap \cup Other /\ kf_blind' \in BOOLEAN
    BY <1>6, <2>1 DEF CallSensor, StepTypes, FeatureInv, FeatureTypeOK
  <2>3. QED
    BY <1>6, <2>1, <2>2 DEF CallSensor, FeatureInv, FeatureTypeOK
<1>7. CASE Redirect
  <2>1. kf_todo' \in Seq(StepTypes) /\ This \in StepTypes /\ This.op = "point"
    BY <1>1, <1>7 DEF Redirect, Doing, Goes, This
  <2>2. kf_word' \in [{"0", "1"} -> Heap \cup {"user"}]
    BY <1>7, <2>1 DEF Redirect, StepTypes, FeatureInv, FeatureTypeOK
  <2>3. QED
    BY <1>7, <2>1, <2>2 DEF Redirect, FeatureInv, FeatureTypeOK
<1>8. CASE FreeBuffers
  BY <1>1, <1>8 DEF FreeBuffers, Doing, Goes, FeatureInv, FeatureTypeOK
<1>9. CASE UNCHANGED kfVars
  BY <1>9 DEF kfVars, FeatureInv, FeatureTypeOK
<1>10. QED
  BY <1>2, <1>3, <1>4, <1>5, <1>6, <1>7, <1>8, <1>9 DEF FeatureNext

-----------------------------------------------------------------------------
(* What the calls do to the buffers, as triples: from a state of the       *)
(* buffers, a list of steps leads to another one, and every step on the    *)
(* way, and every failure of it, is as it should be.                       *)

\* What a failing step may leave to the end of CAMERA_HW_Ioctl.
Leaves(x, l) ==
  /\ "buff" \in l
  /\ l \ {"buff"} # {} =>
       Forgets(x) /\ l \ {"buff"} \subseteq {"para", "value0", "value1"}

\* Wherever a step can fail, it leaves the buffers as the rest expects them.
FailsWell(x, l) ==
  \A some \in SUBSET x.bufs :
    some = {} \/ (x.op = "alloc" /\ some # x.bufs) =>
      LET left == (l \ x.frees) \cup some IN
      /\ x.fail = "next" => x.op # "alloc" /\ left = l
      /\ x.fail = "tail" => Leaves(x, left)
      /\ x.fail = "exit" => left = {}

\* A buffer that is copied out: alive, filled, and to the user's own.
GoesOut(c, x, s) ==
  /\ x.bufs \cap Heap \subseteq s.live
  /\ x.bufs \ {"buff", "len", "para"} \subseteq s.set
  /\ x.bufs = {"para"} => \A w \in {"0", "1"} : s.word[w] = "user"
  /\ \A b \in x.bufs : b = x.to \/ (c.compat /\ c.cmd = "GETINFO")

\* Step x of call c leads from s to t.
Leads(c, x, s, t) ==
  /\ x \in StepTypes
  /\ t.live = CASE x.op = "alloc" -> s.live \cup x.bufs
                [] x.op = "free" -> s.live \ x.bufs
                [] OTHER -> s.live
  /\ IF x.op = "point"
     THEN /\ x.bufs = {t.word[x.to]}
          /\ t.word = [s.word EXCEPT ![x.to] = t.word[x.to]]
     ELSE t.word = s.word
  /\ t.set = IF x.op = "sensor" THEN s.set \cup x.bufs ELSE s.set
  /\ x.op = "sensor" =>
       \A w \in {"0", "1"} : s.word[w] \in s.live \cup {"user"}
  /\ x.op = "out" => GoesOut(c, x, s)
  /\ x.op \in {"alloc", "in", "out"} => FailsWell(x, s.live)

\* The first k steps of u lead from s to t, and all of them do.
RunsTo(c, u, k, s, t) ==
  \E tr : /\ tr[1] = s /\ tr[k + 1] = t
          /\ \A i \in 1 .. k : Leads(c, u[i], tr[i], tr[i + 1])
Runs(c, u, s, t) == RunsTo(c, u, Len(u), s, t)

LEMMA RunsStart == ASSUME NEW c, NEW u, NEW s PROVE RunsTo(c, u, 0, s, s)
<1> DEFINE tr == [i \in 1 .. 1 |-> s]
<1>1. tr[1] = s /\ tr[0 + 1] = s /\ 1 .. 0 = {}
  OBVIOUS
<1> HIDE DEF tr
<1>2. QED
  BY <1>1 DEF RunsTo

LEMMA RunsMore ==
  ASSUME NEW c, NEW u, NEW k \in Nat, NEW s, NEW t, NEW r,
         RunsTo(c, u, k, s, t), Leads(c, u[k + 1], t, r)
  PROVE  RunsTo(c, u, k + 1, s, r)
<1>1. PICK a : /\ a[1] = s /\ a[k + 1] = t
               /\ \A i \in 1 .. k : Leads(c, u[i], a[i], a[i + 1])
  BY DEF RunsTo
<1> DEFINE tr == [i \in 1 .. k + 2 |-> IF i = k + 2 THEN r ELSE a[i]]
<1>2. \A i \in 1 .. k + 1 : tr[i] = a[i]
  OBVIOUS
<1>3. tr[k + 2] = r
  OBVIOUS
<1> HIDE DEF tr
<1>4. tr[1] = s /\ tr[(k + 1) + 1] = r
  BY <1>1, <1>2, <1>3
<1>5. ASSUME NEW i \in 1 .. k + 1 PROVE Leads(c, u[i], tr[i], tr[i + 1])
  <2>1. CASE i = k + 1
    BY <1>1, <1>2, <1>4, <2>1
  <2>2. CASE i # k + 1
    <3>1. i \in 1 .. k /\ tr[i] = a[i] /\ tr[i + 1] = a[i + 1]
      BY <1>2, <2>2
    <3>2. QED
      BY <1>1, <3>1
  <2>3. QED
    BY <2>1, <2>2
<1>6. QED
  BY <1>4, <1>5 DEF RunsTo

LEMMA RunsNothing == ASSUME NEW c, NEW s PROVE Runs(c, <<>>, s, s)
<1>1. Len(<<>>) = 0
  OBVIOUS
<1>2. QED
  BY <1>1, RunsStart DEF Runs

LEMMA NothingRuns ==
  ASSUME NEW c, NEW s, NEW t, Runs(c, <<>>, s, t) PROVE s = t
BY DEF Runs, RunsTo

LEMMA RunsOne ==
  ASSUME NEW c, NEW x, NEW s, NEW t, Leads(c, x, s, t)
  PROVE  Runs(c, <<x>>, s, t)
<1> DEFINE u == <<x>>
<1>1. Len(u) = 0 + 1 /\ u[0 + 1] = x
  OBVIOUS
<1> HIDE DEF u
<1>2. Runs(c, u, s, t)
  BY <1>1, RunsStart, RunsMore DEF Runs
<1>3. QED
  BY <1>2 DEF u

LEMMA RunsThen ==
  ASSUME NEW c, NEW u \in Seq(StepTypes), NEW v \in Seq(StepTypes),
         NEW s, NEW t, NEW r, Runs(c, u, s, t), Runs(c, v, t, r)
  PROVE  Runs(c, u \o v, s, r)
<1> DEFINE m == Len(u)
           n == Len(v)
<1>1. PICK a : /\ a[1] = s /\ a[m + 1] = t
               /\ \A i \in 1 .. m : Leads(c, u[i], a[i], a[i + 1])
  BY DEF Runs, RunsTo
<1>2. PICK b : /\ b[1] = t /\ b[n + 1] = r
               /\ \A i \in 1 .. n : Leads(c, v[i], b[i], b[i + 1])
  BY DEF Runs, RunsTo
<1> DEFINE tr == [i \in 1 .. m + n + 1 |-> IF i <= m THEN a[i] ELSE b[i - m]]
<1>3. m \in Nat /\ n \in Nat
  OBVIOUS
<1>4. /\ Len(u \o v) = m + n
      /\ \A i \in 1 .. m + n : (u \o v)[i] = IF i <= m THEN u[i] ELSE v[i - m]
  BY ConcatProperties
<1> HIDE DEF m, n
<1>5. /\ \A i \in 1 .. m : tr[i] = a[i]
      /\ \A i \in m + 1 .. m + n + 1 : tr[i] = b[i - m]
  BY <1>3
<1> HIDE DEF tr
<1>6. tr[1] = s /\ tr[(m + n) + 1] = r
  <2>1. tr[(m + n) + 1] = b[n + 1]
    <3>1. /\ (m + n) + 1 \in m + 1 .. m + n + 1
          /\ ((m + n) + 1) - m = n + 1
      BY <1>3
    <3>2. QED
      BY <1>5, <3>1
  <2>2. CASE m = 0
    BY <1>1, <1>2, <1>3, <1>5, <2>1, <2>2
  <2>3. CASE 1 <= m
    BY <1>1, <1>2, <1>3, <1>5, <2>1, <2>3
  <2>4. QED
    BY <1>3, <2>2, <2>3
<1>7. ASSUME NEW i \in 1 .. m + n
      PROVE  Leads(c, (u \o v)[i], tr[i], tr[i + 1])
  <2>1. CASE i < m
    <3>1. i \in 1 .. m /\ tr[i] = a[i] /\ tr[i + 1] = a[i + 1]
      BY <1>3, <1>5, <2>1
    <3>2. QED
      BY <1>1, <1>4, <3>1
  <2>2. CASE i = m
    <3>1. i \in 1 .. m /\ tr[i] = a[i] /\ i + 1 \in m + 1 .. m + n + 1
      BY <1>3, <1>5, <2>2
    <3>2. tr[i + 1] = b[1] /\ i + 1 = m + 1
      BY <1>3, <1>5, <2>2, <3>1
    <3>3. QED
      BY <1>1, <1>2, <1>4, <2>2, <3>1, <3>2
  <2>3. CASE i > m
    <3>1. /\ i - m \in 1 .. n /\ tr[i] = b[i - m] /\ ~(i <= m)
          /\ tr[i + 1] = b[(i - m) + 1]
      BY <1>3, <1>5, <2>3
    <3>2. QED
      BY <1>2, <1>4, <3>1
  <2>4. i < m \/ i = m \/ i > m
    BY <1>3
  <2>5. QED
    BY <2>1, <2>2, <2>3, <2>4, Zenon
<1>8. QED
  BY <1>4, <1>6, <1>7 DEF Runs, RunsTo

LEMMA RunsOn ==
  ASSUME NEW c, NEW u \in Seq(StepTypes), u # <<>>, NEW s, NEW t,
         Runs(c, u, s, t)
  PROVE  \E r : Leads(c, Head(u), s, r) /\ Runs(c, Tail(u), r, t)
<1> DEFINE n == Len(u) - 1
           v == Tail(u)
<1>1. PICK a : /\ a[1] = s /\ a[Len(u) + 1] = t
               /\ \A i \in 1 .. Len(u) : Leads(c, u[i], a[i], a[i + 1])
  BY DEF Runs, RunsTo
<1> DEFINE tr == [i \in 1 .. n + 1 |-> a[i + 1]]
<1>2. /\ n \in Nat /\ Len(u) = n + 1 /\ Len(v) = n
      /\ Head(u) = u[1]
      /\ \A i \in 1 .. n : v[i] = u[i + 1]
  BY HeadTailProperties
<1> HIDE DEF v, n
<1>3. Leads(c, Head(u), s, a[2])
  <2>1. 1 \in 1 .. Len(u)
    BY <1>2
  <2>2. Leads(c, u[1], a[1], a[1 + 1])
    BY <1>1, <2>1
  <2>3. 1 + 1 = 2
    OBVIOUS
  <2>4. QED
    BY <1>1, <1>2, <2>2, <2>3
<1>4. tr[1] = a[2] /\ tr[n + 1] = t
  BY <1>1, <1>2
<1>5. ASSUME NEW i \in 1 .. n PROVE Leads(c, v[i], tr[i], tr[i + 1])
  <2>1. /\ i + 1 \in 1 .. Len(u) /\ tr[i] = a[i + 1]
        /\ tr[i + 1] = a[(i + 1) + 1]
    BY <1>2
  <2>2. QED
    BY <1>1, <1>2, <2>1
<1> HIDE DEF tr
<1>6. Runs(c, v, a[2], t)
  BY <1>2, <1>4, <1>5 DEF Runs, RunsTo
<1>7. QED
  BY <1>3, <1>6 DEF v

-----------------------------------------------------------------------------
(* The steps.                                                              *)

Words == [{"0", "1"} -> Heap \cup {"user"}]
User == [w \in {"0", "1"} |-> "user"]
At(l, w, f) == [live |-> l, word |-> w, set |-> f]

LEMMA AtStates ==
  /\ \A l, w, f : /\ At(l, w, f).live = l /\ At(l, w, f).word = w
                  /\ At(l, w, f).set = f
  /\ User \in Words /\ User["0"] = "user" /\ User["1"] = "user"
BY DEF At, Words, User

\* What becomes of a call whose step fails: alone it gets nothing.
LEMMA OneFails ==
  ASSUME NEW x, NEW l, \/ x.op # "alloc" \/ \E b : x.bufs = {b},
         x.fail = "next" => x.op # "alloc" /\ x.frees = {},
         x.fail = "tail" => Leaves(x, l \ x.frees),
         x.fail = "exit" => l \ x.frees = {}
  PROVE  FailsWell(x, l)
<1>1. ASSUME NEW some \in SUBSET x.bufs,
             some = {} \/ (x.op = "alloc" /\ some # x.bufs)
      PROVE  some = {}
  BY <1>1
<1>2. \A some : some = {} => (l \ x.frees) \cup some = l \ x.frees
  OBVIOUS
<1>3. x.fail = "next" => l \ x.frees = l
  OBVIOUS
<1>4. QED
  BY <1>1, <1>2, <1>3, Zenon DEF FailsWell

LEMMA AllocLeads ==
  ASSUME NEW c, NEW b \in SUBSET Heap, NEW f \in SUBSET Heap, NEW l, NEW w,
         NEW g, FailsWell(Alloc(b, f), l)
  PROVE  Leads(c, Alloc(b, f), At(l, w, g), At(l \cup b, w, g))
<1>1. Alloc(b, f) \in StepTypes
  BY StepKinds
<1>2. QED
  BY <1>1 DEF Leads, At, Alloc, Step

LEMMA TakeLeads ==
  ASSUME NEW c, NEW b \in Kernel, NEW f \in SUBSET Heap, NEW l, NEW w, NEW g,
         Leaves(Take(b, f), l \ f)
  PROVE  Leads(c, Take(b, f), At(l, w, g), At(l, w, g))
<1>1. Take(b, f) \in StepTypes
  BY StepKinds
<1>2. FailsWell(Take(b, f), l)
  <2>1. /\ Take(b, f).op = "in" /\ Take(b, f).fail = "tail"
        /\ Take(b, f).frees = f
    BY DEF Take, Step
  <2>2. QED
    BY <2>1, OneFails
<1>3. Take(b, f).op = "in"
  BY DEF Take, Step
<1>4. QED
  BY <1>1, <1>2, <1>3 DEF Leads, At

LEMMA PutLeads ==
  ASSUME NEW c, NEW b \in Kernel, NEW u \in Kernel, NEW f \in SUBSET Heap,
         NEW l, NEW w, NEW g,
         GoesOut(c, Put(b, u, f), At(l, w, g)), Leaves(Put(b, u, f), l \ f)
  PROVE  Leads(c, Put(b, u, f), At(l, w, g), At(l, w, g))
<1>1. Put(b, u, f) \in StepTypes
  BY StepKinds
<1>2. FailsWell(Put(b, u, f), l)
  BY OneFails DEF Put, Step
<1>3. QED
  BY <1>1, <1>2 DEF Leads, At, Put, Step

LEMMA TryLeads ==
  ASSUME NEW c, NEW b \in Kernel, NEW l, NEW w, NEW g
  PROVE  /\ Leads(c, TryTake(b), At(l, w, g), At(l, w, g))
         /\ GoesOut(c, TryPut(b, b), At(l, w, g)) =>
              Leads(c, TryPut(b, b), At(l, w, g), At(l, w, g))
<1>1. TryTake(b) \in StepTypes /\ TryPut(b, b) \in StepTypes
  BY StepKinds
<1>2. FailsWell(TryTake(b), l) /\ FailsWell(TryPut(b, b), l)
  <2>1. /\ TryTake(b).op = "in" /\ TryTake(b).fail = "next"
        /\ TryTake(b).frees = {}
        /\ TryPut(b, b).op = "out" /\ TryPut(b, b).fail = "next"
        /\ TryPut(b, b).frees = {}
    BY DEF TryTake, TryPut, Step
  <2>2. QED
    BY <2>1, OneFails
<1>3. Leads(c, TryTake(b), At(l, w, g), At(l, w, g))
  <2>1. TryTake(b).op = "in"
    BY DEF TryTake, Step
  <2>2. QED
    BY <1>1, <1>2, <2>1 DEF Leads, At
<1>4. GoesOut(c, TryPut(b, b), At(l, w, g)) =>
        Leads(c, TryPut(b, b), At(l, w, g), At(l, w, g))
  BY <1>1, <1>2 DEF Leads, At, TryPut, Step
<1>5. QED
  BY <1>3, <1>4

LEMMA SensorLeads ==
  ASSUME NEW c, NEW b \in SUBSET Kernel, NEW l, NEW w, NEW g,
         w["0"] \in l \cup {"user"}, w["1"] \in l \cup {"user"}
  PROVE  Leads(c, Sensor(b), At(l, w, g), At(l, w, g \cup b))
<1>1. Sensor(b) \in StepTypes
  BY StepKinds
<1>2. QED
  BY <1>1 DEF Leads, At, Sensor, Step

LEMMA PointLeads ==
  ASSUME NEW c, NEW k \in {"0", "1"}, NEW b \in Heap \cup {"user"}, NEW l,
         NEW w \in Words, NEW g
  PROVE  Leads(c, Point(k, b), At(l, w, g), At(l, [w EXCEPT ![k] = b], g))
<1>1. Point(k, b) \in StepTypes
  BY StepKinds DEF Restore
<1>2. [w EXCEPT ![k] = b][k] = b
  BY DEF Words
<1>3. QED
  BY <1>1, <1>2 DEF Leads, At, Point, Step

LEMMA FreeLeads ==
  ASSUME NEW c, NEW b \in SUBSET Heap, NEW l, NEW w, NEW g
  PROVE  Leads(c, Free(b), At(l, w, g), At(l \ b, w, g))
<1>1. Free(b) \in StepTypes
  BY StepKinds
<1>2. QED
  BY <1>1 DEF Leads, At, Free, Step

\* One buffer is allocated.
LEMMA AllocOne ==
  ASSUME NEW c, NEW b \in Heap, NEW f \in SUBSET Heap, NEW l, NEW w, NEW g,
         Leaves(Alloc({b}, f), l \ f)
  PROVE  Leads(c, Alloc({b}, f), At(l, w, g), At(l \cup {b}, w, g))
<1>1. FailsWell(Alloc({b}, f), l)
  <2>1. /\ Alloc({b}, f).op = "alloc" /\ Alloc({b}, f).fail = "tail"
        /\ Alloc({b}, f).frees = f /\ Alloc({b}, f).bufs = {b}
    BY DEF Alloc, Step
  <2>2. QED
    BY <2>1, OneFails
<1>2. {b} \in SUBSET Heap
  OBVIOUS
<1>3. QED
  BY <1>1, <1>2, AllocLeads

\* What is left to CAMERA_HW_Ioctl when only its own buffer is, or when the
\* parameter is forgotten.
LEMMA Remains ==
  /\ \A x : Leaves(x, {"buff"})
  /\ \A x : Forgets(x) => Leaves(x, {"buff", "para"})
  /\ Forgets(Take("para", {}))
  /\ \A b \in {"value0", "value1", "struct"} : Forgets(Alloc({b}, {}))
  /\ Forgets(Alloc({"value0", "value1"}, {}))
<1>1. \A x : Leaves(x, {"buff"})
  BY DEF Leaves
<1>2. \A x : Forgets(x) => Leaves(x, {"buff", "para"})
  BY DEF Leaves
<1>3. Forgets(Take("para", {}))
  BY DEF Forgets
<1>4. \A b \in {"value0", "value1", "struct"} : Forgets(Alloc({b}, {}))
  BY DEF Forgets, Alloc, Step
<1>5. Forgets(Alloc({"value0", "value1"}, {}))
  BY DEF Forgets, Alloc, Step
<1>6. QED
  BY <1>1, <1>2, <1>3, <1>4, <1>5

\* The words are put back.
LEMMA Restored ==
  /\ \A k \in {"0", "1"}, b \in Heap :
       /\ [User EXCEPT ![k] = b] \in Words
       /\ [[User EXCEPT ![k] = b] EXCEPT ![k] = "user"] = User
  /\ LET both == [[User EXCEPT !["0"] = "value0"] EXCEPT !["1"] = "value1"] IN
     /\ both \in Words /\ both["0"] = "value0" /\ both["1"] = "value1"
     /\ [both EXCEPT !["0"] = "user"] = [User EXCEPT !["1"] = "value1"]
BY DEF User, Words, Heap

-----------------------------------------------------------------------------
(* What surrounds a call.                                                  *)

LEMMA BufferNames ==
  /\ {"buff", "para", "value0", "value1", "struct", "res0", "res1"} = Heap
  /\ Heap \subseteq Kernel
  /\ {"len", "info0", "info1", "config0", "config1", "info2", "window",
      "config", "resolution"} \subseteq Kernel
  /\ {"len", "info0", "info1", "config0", "config1", "info2", "window",
      "config", "resolution"} \cap Heap = {}
  /\ Null = Take("len", {})
BY DEF Heap, Other, Kernel, Null, Take

LEMMA BeforeRuns ==
  ASSUME NEW c PROVE Runs(c, Before, At({}, User, {}), At({"buff"}, User, {}))
<1> DEFINE x == [Alloc({"buff"}, {}) EXCEPT !.fail = "exit"]
           y == [Take("buff", {"buff"}) EXCEPT !.fail = "exit"]
<1>1. Len(Before) = 2 /\ Before[1] = x /\ Before[2] = y
  BY DEF Before
<1>2. /\ x.op = "alloc" /\ x.bufs = {"buff"} /\ x.frees = {} /\ x.fail = "exit"
      /\ y.op = "in" /\ y.frees = {"buff"} /\ y.fail = "exit"
  BY DEF Alloc, Take, Step
<1>3. x \in StepTypes /\ y \in StepTypes
  BY <1>1, Around, ElementOfSeq
<1> HIDE DEF x, y
<1>4. FailsWell(x, {}) /\ FailsWell(y, {"buff"})
  BY <1>2, OneFails
<1>5. Leads(c, x, At({}, User, {}), At({"buff"}, User, {}))
  BY <1>2, <1>3, <1>4 DEF Leads, At
<1>6. Leads(c, y, At({"buff"}, User, {}), At({"buff"}, User, {}))
  BY <1>2, <1>3, <1>4 DEF Leads, At
<1>7. RunsTo(c, Before, 1, At({}, User, {}), At({"buff"}, User, {}))
  BY <1>1, <1>5, RunsStart, RunsMore, 0 + 1 = 1
<1>8. RunsTo(c, Before, 2, At({}, User, {}), At({"buff"}, User, {}))
  BY <1>1, <1>6, <1>7, RunsMore, 1 + 1 = 2
<1>9. QED
  BY <1>1, <1>8 DEF Runs

LEMMA AfterRuns ==
  ASSUME NEW c, NEW g
  PROVE  Runs(c, After, At({"buff"}, User, g), At({}, User, g))
<1> DEFINE x == [Put("buff", "buff", {"buff"}) EXCEPT !.fail = "exit"]
<1>1. Len(After) = 2 /\ After[1] = x /\ After[2] = Free({"buff"})
  BY DEF After
<1>2. /\ x.op = "out" /\ x.bufs = {"buff"} /\ x.frees = {"buff"}
      /\ x.fail = "exit" /\ x.to = "buff"
  BY DEF Put, Step
<1>3. x \in StepTypes
  BY <1>1, Around, ElementOfSeq
<1> HIDE DEF x
<1>4. FailsWell(x, {"buff"}) /\ GoesOut(c, x, At({"buff"}, User, g))
  <2>1. FailsWell(x, {"buff"})
    BY <1>2, OneFails
  <2>2. GoesOut(c, x, At({"buff"}, User, g))
    BY <1>2 DEF GoesOut, At
  <2>3. QED
    BY <2>1, <2>2
<1>5. Leads(c, x, At({"buff"}, User, g), At({"buff"}, User, g))
  BY <1>2, <1>3, <1>4 DEF Leads, At
<1>6. Leads(c, Free({"buff"}), At({"buff"}, User, g), At({}, User, g))
  <2>1. {"buff"} \in SUBSET Heap /\ {"buff"} \ {"buff"} = {}
    BY BufferNames
  <2>2. QED
    BY <2>1, FreeLeads
<1>7. RunsTo(c, After, 1, At({"buff"}, User, g), At({"buff"}, User, g))
  BY <1>1, <1>5, RunsStart, RunsMore, 0 + 1 = 1
<1>8. RunsTo(c, After, 2, At({"buff"}, User, g), At({}, User, g))
  BY <1>1, <1>6, <1>7, RunsMore, 1 + 1 = 2
<1>9. QED
  BY <1>1, <1>8 DEF Runs

-----------------------------------------------------------------------------
(* FeatureControl: the parameter is there from its start to its end.       *)

LEMMA OneValueRuns ==
  ASSUME NEW c
  PROVE  Runs(c, OneValueSteps,
              At({"buff", "para"}, User, {}),
              At({"buff", "para"}, User, {"value1"}))
<1> DEFINE u == OneValueSteps
           w == [User EXCEPT !["1"] = "value1"]
           s0 == At({"buff", "para"}, User, {})
           s1 == At({"buff", "para", "value1"}, User, {})
           s2 == At({"buff", "para", "value1"}, w, {})
           s3 == At({"buff", "para", "value1"}, w, {"value1"})
           s4 == At({"buff", "para", "value1"}, User, {"value1"})
           s5 == At({"buff", "para"}, User, {"value1"})
<1>0. /\ {"buff", "para"} \ {} = {"buff", "para"} /\ {} \in SUBSET Heap
      /\ {"buff", "para"} \cup {"value1"} = {"buff", "para", "value1"}
      /\ {"buff", "para", "value1"} \ {"value1"} = {"buff", "para"}
      /\ "value1" \in Heap /\ {"value1"} \in SUBSET Heap
      /\ {"value1"} \in SUBSET Kernel /\ {} \cup {"value1"} = {"value1"}
      /\ w["0"] = "user" /\ w["1"] = "value1" /\ w \in Words
  BY BufferNames, Restored DEF User
<1>1. /\ Len(u) = 5
      /\ u[1] = Alloc({"value1"}, {})
      /\ u[2] = Point("1", "value1")
      /\ u[3] = Sensor({"value1"})
      /\ u[4] = Restore("1")
      /\ u[5] = Free({"value1"})
  BY DEF OneValueSteps
<1> HIDE DEF u, w, s0, s1, s2, s3, s4, s5
<1>2. Leads(c, Alloc({"value1"}, {}), s0, s1)
  BY <1>0, AllocOne, Remains DEF s0, s1
<1>3. Leads(c, Point("1", "value1"), s1, s2)
  BY <1>0, PointLeads, AtStates DEF s1, s2, w
<1>4. Leads(c, Sensor({"value1"}), s2, s3)
  BY <1>0, SensorLeads DEF s2, s3
<1>5. Leads(c, Restore("1"), s3, s4)
  BY <1>0, PointLeads, Restored DEF s3, s4, w, Restore
<1>6. Leads(c, Free({"value1"}), s4, s5)
  BY <1>0, FreeLeads DEF s4, s5
<1>7. RunsTo(c, u, 1, s0, s1)
  BY <1>1, <1>2, RunsStart, RunsMore, 0 + 1 = 1
<1>8. RunsTo(c, u, 2, s0, s2)
  BY <1>1, <1>3, <1>7, RunsMore, 1 + 1 = 2
<1>9. RunsTo(c, u, 3, s0, s3)
  BY <1>1, <1>4, <1>8, RunsMore, 2 + 1 = 3
<1>10. RunsTo(c, u, 4, s0, s4)
  BY <1>1, <1>5, <1>9, RunsMore, 3 + 1 = 4
<1>11. RunsTo(c, u, 5, s0, s5)
  BY <1>1, <1>6, <1>10, RunsMore, 4 + 1 = 5
<1>12. QED
  BY <1>1, <1>11 DEF Runs, u, s0, s5

LEMMA TwoValueRuns ==
  ASSUME NEW c
  PROVE  Runs(c, TwoValueSteps,
              At({"buff", "para"}, User, {}),
              At({"buff", "para"}, User, {"value0", "value1"}))
<1> DEFINE u == TwoValueSteps
           w0 == [User EXCEPT !["0"] = "value0"]
           w1 == [User EXCEPT !["1"] = "value1"]
           w == [w0 EXCEPT !["1"] = "value1"]
           s0 == At({"buff", "para"}, User, {})
           s1 == At({"buff", "para", "value0", "value1"}, User, {})
           s2 == At({"buff", "para", "value0", "value1"}, w0, {})
           s3 == At({"buff", "para", "value0", "value1"}, w, {})
           s4 == At({"buff", "para", "value0", "value1"}, w, {"value0",
                    "value1"})
           s5 == At({"buff", "para", "value0", "value1"}, w1, {"value0",
                    "value1"})
           s6 == At({"buff", "para", "value0", "value1"}, User, {"value0",
                    "value1"})
           s7 == At({"buff", "para"}, User, {"value0", "value1"})
<1>0. /\ {} \in SUBSET Heap /\ "value0" \in Heap /\ "value1" \in Heap
      /\ {"buff", "para"} \cup {"value0", "value1"} =
           {"buff", "para", "value0", "value1"}
      /\ {"buff", "para", "value0", "value1"} \ {"value0", "value1"} =
           {"buff", "para"}
      /\ {"value0", "value1"} \in SUBSET Heap
      /\ {"value0", "value1"} \in SUBSET Kernel
      /\ {} \cup {"value0", "value1"} = {"value0", "value1"}
  BY BufferNames
<1>w. /\ w["0"] = "value0" /\ w["1"] = "value1"
      /\ w \in Words /\ w0 \in Words /\ w1 \in Words
      /\ [w EXCEPT !["0"] = "user"] = w1 /\ [w1 EXCEPT !["1"] = "user"] = User
  <2>1. "value0" \in Heap /\ "value1" \in Heap
    BY BufferNames
  <2>2. w0 \in Words /\ w1 \in Words /\ [w1 EXCEPT !["1"] = "user"] = User
    BY <2>1, Restored, Zenon
  <2>3. QED
    BY <2>2, Restored
<1>f. FailsWell(Alloc({"value0", "value1"}, {}), {"buff", "para"})
  <2> DEFINE x == Alloc({"value0", "value1"}, {})
  <2>1. /\ x.bufs = {"value0", "value1"} /\ x.frees = {} /\ x.fail = "tail"
        /\ Forgets(x)
    BY Remains DEF Alloc, Step
  <2> HIDE DEF x
  <2>2. \A some \in SUBSET {"value0", "value1"} :
          Leaves(x, ({"buff", "para"} \ {}) \cup some)
    BY <2>1 DEF Leaves
  <2>3. FailsWell(x, {"buff", "para"})
    BY <2>1, <2>2 DEF FailsWell
  <2>4. QED
    BY <2>3 DEF x
<1>1. /\ Len(u) = 7
      /\ u[1] = Alloc({"value0", "value1"}, {})
      /\ u[2] = Point("0", "value0")
      /\ u[3] = Point("1", "value1")
      /\ u[4] = Sensor({"value0", "value1"})
      /\ u[5] = Restore("0")
      /\ u[6] = Restore("1")
      /\ u[7] = Free({"value0", "value1"})
  BY DEF TwoValueSteps
<1> HIDE DEF u, w, w0, w1, s0, s1, s2, s3, s4, s5, s6, s7
<1>2. Leads(c, Alloc({"value0", "value1"}, {}), s0, s1)
  BY <1>0, <1>f, AllocLeads DEF s0, s1
<1>3. Leads(c, Point("0", "value0"), s1, s2)
  BY <1>0, PointLeads, AtStates DEF s1, s2, w0
<1>4. Leads(c, Point("1", "value1"), s2, s3)
  BY <1>0, <1>w, PointLeads, AtStates DEF s2, s3, w
<1>5. Leads(c, Sensor({"value0", "value1"}), s3, s4)
  BY <1>0, <1>w, SensorLeads DEF s3, s4
<1>6. Leads(c, Restore("0"), s4, s5)
  BY <1>w, PointLeads DEF s4, s5, Restore
<1>7. Leads(c, Restore("1"), s5, s6)
  BY <1>w, PointLeads DEF s5, s6, Restore
<1>8. Leads(c, Free({"value0", "value1"}), s6, s7)
  BY <1>0, FreeLeads DEF s6, s7
<1>9. RunsTo(c, u, 1, s0, s1)
  BY <1>1, <1>2, RunsStart, RunsMore, 0 + 1 = 1
<1>10. RunsTo(c, u, 2, s0, s2)
  BY <1>1, <1>3, <1>9, RunsMore, 1 + 1 = 2
<1>11. RunsTo(c, u, 3, s0, s3)
  BY <1>1, <1>4, <1>10, RunsMore, 2 + 1 = 3
<1>12. RunsTo(c, u, 4, s0, s4)
  BY <1>1, <1>5, <1>11, RunsMore, 3 + 1 = 4
<1>13. RunsTo(c, u, 5, s0, s5)
  BY <1>1, <1>6, <1>12, RunsMore, 4 + 1 = 5
<1>14. RunsTo(c, u, 6, s0, s6)
  BY <1>1, <1>7, <1>13, RunsMore, 5 + 1 = 6
<1>15. RunsTo(c, u, 7, s0, s7)
  BY <1>1, <1>8, <1>14, RunsMore, 6 + 1 = 7
<1>16. QED
  BY <1>1, <1>15 DEF Runs, u, s0, s7

LEMMA StructRuns ==
  ASSUME NEW c, NEW k \in {"0", "1"}
  PROVE  Runs(c, StructSteps(k),
              At({"buff", "para"}, User, {}),
              At({"buff", "para"}, User, {"struct"}))
<1> DEFINE u == StructSteps(k)
           w == [User EXCEPT ![k] = "struct"]
           s0 == At({"buff", "para"}, User, {})
           s1 == At({"buff", "para", "struct"}, User, {})
           s2 == At({"buff", "para", "struct"}, w, {})
           s3 == At({"buff", "para", "struct"}, w, {"struct"})
           s4 == At({"buff", "para"}, w, {"struct"})
           s5 == At({"buff", "para"}, User, {"struct"})
<1>0. /\ {"buff", "para"} \ {} = {"buff", "para"} /\ {} \in SUBSET Heap
      /\ {"buff", "para"} \cup {"struct"} = {"buff", "para", "struct"}
      /\ {"buff", "para", "struct"} \ {"struct"} = {"buff", "para"}
      /\ "struct" \in Heap /\ {"struct"} \in SUBSET Heap /\ "struct" \in Kernel
      /\ {"struct"} \in SUBSET Kernel /\ {} \in SUBSET Kernel
      /\ {} \cup {"struct"} = {"struct"} /\ {} \cup {} = {}
      /\ w["0"] \in {"user", "struct"} /\ w["1"] \in {"user", "struct"}
      /\ w \in Words /\ [w EXCEPT ![k] = "user"] = User
  BY BufferNames, Restored DEF User
<1>g. GoesOut(c, TryPut("struct", "struct"),
              At({"buff", "para", "struct"}, w, {"struct"}))
  BY DEF GoesOut, TryPut, Step, At
<1>1. /\ Len(u) = 6
      /\ u[1] = Alloc({"struct"}, {})
      /\ u[2] = Point(k, "struct")
      /\ u[3] = Sensor({"struct"})
      /\ u[4] = TryPut("struct", "struct")
      /\ u[5] = Free({"struct"})
      /\ u[6] = Restore(k)
  BY DEF StructSteps
<1> HIDE DEF u, w, s0, s1, s2, s3, s4, s5
<1>2. Leads(c, Alloc({"struct"}, {}), s0, s1)
  BY <1>0, AllocOne, Remains DEF s0, s1
<1>3. Leads(c, Point(k, "struct"), s1, s2)
  BY <1>0, PointLeads, AtStates DEF s1, s2, w
<1>4. Leads(c, Sensor({"struct"}), s2, s3)
  BY <1>0, SensorLeads DEF s2, s3
<1>5. Leads(c, TryPut("struct", "struct"), s3, s3)
  BY <1>0, <1>g, TryLeads DEF s3
<1>6. Leads(c, Free({"struct"}), s3, s4)
  BY <1>0, FreeLeads DEF s3, s4
<1>7. Leads(c, Restore(k), s4, s5)
  BY <1>0, PointLeads DEF s4, s5, Restore
<1>8. RunsTo(c, u, 1, s0, s1)
  BY <1>1, <1>2, RunsStart, RunsMore, 0 + 1 = 1
<1>9. RunsTo(c, u, 2, s0, s2)
  BY <1>1, <1>3, <1>8, RunsMore, 1 + 1 = 2
<1>10. RunsTo(c, u, 3, s0, s3)
  BY <1>1, <1>4, <1>9, RunsMore, 2 + 1 = 3
<1>11. RunsTo(c, u, 4, s0, s3)
  BY <1>1, <1>5, <1>10, RunsMore, 3 + 1 = 4
<1>12. RunsTo(c, u, 5, s0, s4)
  BY <1>1, <1>6, <1>11, RunsMore, 4 + 1 = 5
<1>13. RunsTo(c, u, 6, s0, s5)
  BY <1>1, <1>7, <1>12, RunsMore, 5 + 1 = 6
<1>14. QED
  BY <1>1, <1>13 DEF Runs, u, s0, s5

LEMMA WindowRuns ==
  ASSUME NEW c
  PROVE  Runs(c, WindowSteps,
              At({"buff", "para"}, User, {}),
              At({"buff", "para"}, User, {}))
<1> DEFINE u == WindowSteps
           w == [User EXCEPT !["0"] = "struct"]
           s0 == At({"buff", "para"}, User, {})
           s1 == At({"buff", "para", "struct"}, User, {})
           s2 == At({"buff", "para", "struct"}, w, {})
           s3 == At({"buff", "para"}, w, {})
           s4 == At({"buff", "para"}, User, {})
<1>0. /\ {"buff", "para"} \ {} = {"buff", "para"} /\ {} \in SUBSET Heap
      /\ {"buff", "para"} \cup {"struct"} = {"buff", "para", "struct"}
      /\ {"buff", "para", "struct"} \ {"struct"} = {"buff", "para"}
      /\ "struct" \in Heap /\ {"struct"} \in SUBSET Heap /\ "struct" \in Kernel
      /\ {"struct"} \in SUBSET Kernel /\ {} \in SUBSET Kernel
      /\ {} \cup {"struct"} = {"struct"} /\ {} \cup {} = {}
      /\ w["0"] \in {"user", "struct"} /\ w["1"] \in {"user", "struct"}
      /\ w \in Words /\ [w EXCEPT !["0"] = "user"] = User
  BY BufferNames, Restored DEF User
<1>1. /\ Len(u) = 6
      /\ u[1] = Alloc({"struct"}, {})
      /\ u[2] = Point("0", "struct")
      /\ u[3] = TryTake("struct")
      /\ u[4] = Sensor({})
      /\ u[5] = Free({"struct"})
      /\ u[6] = Restore("0")
  BY DEF WindowSteps
<1> HIDE DEF u, w, s0, s1, s2, s3, s4
<1>2. Leads(c, Alloc({"struct"}, {}), s0, s1)
  BY <1>0, AllocOne, Remains DEF s0, s1
<1>3. Leads(c, Point("0", "struct"), s1, s2)
  BY <1>0, PointLeads, AtStates DEF s1, s2, w
<1>4. Leads(c, TryTake("struct"), s2, s2)
  BY <1>0, TryLeads DEF s2
<1>5. Leads(c, Sensor({}), s2, s2)
  BY <1>0, SensorLeads DEF s2
<1>6. Leads(c, Free({"struct"}), s2, s3)
  BY <1>0, FreeLeads DEF s2, s3
<1>7. Leads(c, Restore("0"), s3, s4)
  BY <1>0, PointLeads DEF s3, s4, Restore
<1>8. RunsTo(c, u, 1, s0, s1)
  BY <1>1, <1>2, RunsStart, RunsMore, 0 + 1 = 1
<1>9. RunsTo(c, u, 2, s0, s2)
  BY <1>1, <1>3, <1>8, RunsMore, 1 + 1 = 2
<1>10. RunsTo(c, u, 3, s0, s2)
  BY <1>1, <1>4, <1>9, RunsMore, 2 + 1 = 3
<1>11. RunsTo(c, u, 4, s0, s2)
  BY <1>1, <1>5, <1>10, RunsMore, 3 + 1 = 4
<1>12. RunsTo(c, u, 5, s0, s3)
  BY <1>1, <1>6, <1>11, RunsMore, 4 + 1 = 5
<1>13. RunsTo(c, u, 6, s0, s4)
  BY <1>1, <1>7, <1>12, RunsMore, 5 + 1 = 6
<1>14. QED
  BY <1>1, <1>13 DEF Runs, u, s0, s4

LEMMA OpeningRuns ==
  ASSUME NEW c
  PROVE  Runs(c, <<Null, Take("len", {}), Alloc({"para"}, {})>>,
              At({"buff"}, User, {}),
              At({"buff", "para"}, User, {}))
<1> DEFINE u == <<Null, Take("len", {}), Alloc({"para"}, {})>>
           s0 == At({"buff"}, User, {})
           s1 == At({"buff", "para"}, User, {})
<1>0. /\ {"buff"} \ {} = {"buff"} /\ {"buff"} \cup {"para"} = {"buff", "para"}
      /\ {} \in SUBSET Heap /\ "len" \in Kernel /\ "para" \in Heap
      /\ Null = Take("len", {}) /\ \A x : Leaves(x, {"buff"})
  BY BufferNames, Remains
<1>1. /\ Len(u) = 3
      /\ u[1] = Null
      /\ u[2] = Take("len", {})
      /\ u[3] = Alloc({"para"}, {})
  OBVIOUS
<1> HIDE DEF u, s0, s1
<1>2. Leads(c, Null, s0, s0)
  BY <1>0, TakeLeads DEF s0
<1>3. Leads(c, Take("len", {}), s0, s0)
  BY <1>0, TakeLeads DEF s0
<1>4. Leads(c, Alloc({"para"}, {}), s0, s1)
  BY <1>0, AllocOne DEF s0, s1
<1>5. RunsTo(c, u, 1, s0, s0)
  BY <1>1, <1>2, RunsStart, RunsMore, 0 + 1 = 1
<1>6. RunsTo(c, u, 2, s0, s0)
  BY <1>1, <1>3, <1>5, RunsMore, 1 + 1 = 2
<1>7. RunsTo(c, u, 3, s0, s1)
  BY <1>1, <1>4, <1>6, RunsMore, 2 + 1 = 3
<1>8. QED
  BY <1>1, <1>7 DEF Runs, u, s0, s1

LEMMA ClosingRuns ==
  ASSUME NEW c, NEW g
  PROVE  Runs(c, <<Free({"para"}), Put("len", "len", {})>>,
              At({"buff", "para"}, User, g),
              At({"buff"}, User, g))
<1> DEFINE u == <<Free({"para"}), Put("len", "len", {})>>
           s0 == At({"buff", "para"}, User, g)
           s1 == At({"buff"}, User, g)
<1>0. /\ {"buff"} \ {} = {"buff"} /\ {"buff", "para"} \ {"para"} = {"buff"}
      /\ {} \in SUBSET Heap /\ "len" \in Kernel /\ {"para"} \in SUBSET Heap
      /\ \A x : Leaves(x, {"buff"})
  BY BufferNames, Remains
<1>g. GoesOut(c, Put("len", "len", {}), At({"buff"}, User, g))
  BY BufferNames DEF GoesOut, Put, Step, At
<1>1. /\ Len(u) = 2
      /\ u[1] = Free({"para"})
      /\ u[2] = Put("len", "len", {})
  OBVIOUS
<1> HIDE DEF u, s0, s1
<1>2. Leads(c, Free({"para"}), s0, s1)
  BY <1>0, FreeLeads DEF s0, s1
<1>3. Leads(c, Put("len", "len", {}), s1, s1)
  BY <1>0, <1>g, PutLeads DEF s1
<1>4. RunsTo(c, u, 1, s0, s1)
  BY <1>1, <1>2, RunsStart, RunsMore, 0 + 1 = 1
<1>5. RunsTo(c, u, 2, s0, s1)
  BY <1>1, <1>3, <1>4, RunsMore, 1 + 1 = 2
<1>6. QED
  BY <1>1, <1>5 DEF Runs, u, s0, s1

LEMMA ParameterRuns ==
  ASSUME NEW c, NEW f
  PROVE  /\ Runs(c, CopyIn(f), At({"buff", "para"}, User, {}),
                 At({"buff", "para"}, User, {}))
         /\ \A g : Runs(c, CopyOut(f), At({"buff", "para"}, User, g),
                        At({"buff", "para"}, User, g))
<1> DEFINE s(g) == At({"buff", "para"}, User, g)
<1>1. /\ {"buff", "para"} \ {} = {"buff", "para"} /\ {} \in SUBSET Heap
      /\ {"buff", "para"} \ {"para"} = {"buff"} /\ "para" \in Kernel
      /\ {"para"} \in SUBSET Heap
  BY BufferNames
<1>2. Runs(c, CopyIn(f), s({}), s({}))
  <2>1. Leads(c, Take("para", {}), s({}), s({}))
    BY <1>1, TakeLeads, Remains
  <2>2. Leads(c, Take("para", {"para"}), s({}), s({}))
    <3>1. Leaves(Take("para", {"para"}), {"buff", "para"} \ {"para"})
      BY <1>1, Remains
    <3>2. QED
      BY <1>1, <3>1, TakeLeads
  <2> HIDE DEF s
  <2>3. CopyIn(f) \in {<<Take("para", {})>>, <<Take("para", {"para"})>>, <<>>}
    BY Zenon DEF CopyIn
  <2>4. QED
    BY <2>1, <2>2, <2>3, RunsOne, RunsNothing, Zenon
<1>3. ASSUME NEW g PROVE Runs(c, CopyOut(f), s(g), s(g))
  <2> DEFINE x == Put("para", "para", {"para"})
  <2>1. GoesOut(c, x, s(g))
    BY AtStates DEF GoesOut, Put, Step
  <2>2. Leads(c, x, s(g), s(g))
    <3>1. Leaves(x, {"buff", "para"} \ {"para"})
      BY <1>1, Remains
    <3>2. QED
      BY <1>1, <2>1, <3>1, PutLeads
  <2> HIDE DEF s
  <2>3. CopyOut(f) \in {<<x>>, <<>>}
    BY Zenon DEF CopyOut
  <2> HIDE DEF x
  <2>4. QED
    BY <2>2, <2>3, RunsOne, RunsNothing, Zenon
<1>4. QED
  BY <1>2, <1>3

LEMMA NestedRuns ==
  ASSUME NEW c, NEW f
  PROVE  \E g : Runs(c, Nested(f), At({"buff", "para"}, User, {}),
                     At({"buff", "para"}, User, g))
<1> DEFINE good(u) == \E g : Runs(c, u, At({"buff", "para"}, User, {}),
                                  At({"buff", "para"}, User, g))
<1>1. /\ good(OneValueSteps) /\ good(TwoValueSteps) /\ good(StructSteps("0"))
      /\ good(StructSteps("1")) /\ good(WindowSteps)
  BY OneValueRuns, TwoValueRuns, StructRuns, WindowRuns, Zenon
<1>2. good(<<Sensor({"para"})>>)
  <2>1. Leads(c, Sensor({"para"}), At({"buff", "para"}, User, {}),
              At({"buff", "para"}, User, {} \cup {"para"}))
    BY SensorLeads, AtStates, BufferNames
  <2>2. QED
    BY <2>1, RunsOne
<1> HIDE DEF good
<1>3. Nested(f) \in {OneValueSteps, TwoValueSteps, StructSteps("0"),
                     StructSteps("1"), WindowSteps, <<Sensor({"para"})>>}
  BY DEF Nested
<1>4. good(Nested(f))
  BY <1>1, <1>2, <1>3, Zenon
<1>5. QED
  BY <1>4 DEF good

LEMMA FeatureRuns ==
  ASSUME NEW c, NEW f
  PROVE  \E g : Runs(c, FeatureControl(f), At({"buff"}, User, {}),
                     At({"buff"}, User, g))
<1> DEFINE opening == <<Null, Take("len", {}), Alloc({"para"}, {})>>
           closing == <<Free({"para"}), Put("len", "len", {})>>
           free(g) == At({"buff"}, User, g)
           full(g) == At({"buff", "para"}, User, g)
           S == Seq(StepTypes)
<1>1. /\ opening \in S /\ closing \in S /\ CopyIn(f) \in S /\ Nested(f) \in S
      /\ CopyOut(f) \in S
  BY FeatureParts
<1>2. PICK g : Runs(c, Nested(f), full({}), full(g))
  BY NestedRuns
<1>3. /\ Runs(c, opening, free({}), full({}))
      /\ Runs(c, closing, full(g), free(g))
  BY OpeningRuns, ClosingRuns
<1>4. /\ Runs(c, CopyIn(f), full({}), full({}))
      /\ Runs(c, CopyOut(f), full(g), full(g))
  BY ParameterRuns
<1>5. /\ opening \o CopyIn(f) \in S /\ opening \o CopyIn(f) \o Nested(f) \in S
      /\ opening \o CopyIn(f) \o Nested(f) \o CopyOut(f) \in S
  BY <1>1, ConcatProperties
<1>6. FeatureControl(f) =
        opening \o CopyIn(f) \o Nested(f) \o CopyOut(f) \o closing
  BY DEF FeatureControl
<1> HIDE DEF opening, closing, free, full
<1>7. Runs(c, opening \o CopyIn(f), free({}), full({}))
  BY <1>1, <1>3, <1>4, RunsThen
<1>8. Runs(c, opening \o CopyIn(f) \o Nested(f), free({}), full(g))
  BY <1>1, <1>2, <1>5, <1>7, RunsThen
<1>9. Runs(c, opening \o CopyIn(f) \o Nested(f) \o CopyOut(f), free({}),
           full(g))
  BY <1>1, <1>4, <1>5, <1>8, RunsThen
<1>10. Runs(c, FeatureControl(f), free({}), free(g))
  BY <1>1, <1>3, <1>5, <1>6, <1>9, RunsThen
<1>11. QED
  BY <1>10 DEF free

-----------------------------------------------------------------------------
(* The other calls.                                                        *)

\* What is not on the heap goes out once it is filled.
LEMMA PutsLead ==
  ASSUME NEW c, NEW b \in Kernel \ Heap, NEW u \in Kernel, NEW g, b \in g,
         b = u \/ (c.compat /\ c.cmd = "GETINFO")
  PROVE  Leads(c, Put(b, u, {}), At({"buff"}, User, g), At({"buff"}, User, g))
<1>1. GoesOut(c, Put(b, u, {}), At({"buff"}, User, g))
  BY BufferNames DEF GoesOut, Put, Step, At
<1>2. Leaves(Put(b, u, {}), {"buff"} \ {})
  BY Remains, {"buff"} \ {} = {"buff"}
<1>3. QED
  BY <1>1, <1>2, PutLeads

LEMMA ResolutionRuns ==
  ASSUME NEW c
  PROVE  Runs(c, GetResolution,
              At({"buff"}, User, {}),
              At({"buff"}, User, {"res0", "res1"}))
<1> DEFINE u == GetResolution
           s0 == At({"buff"}, User, {})
           s1 == At({"buff", "res0"}, User, {})
           s2 == At({"buff", "res0", "res1"}, User, {})
           s3 == At({"buff", "res0", "res1"}, User, {"res0", "res1"})
           s4 == At({"buff", "res1"}, User, {"res0", "res1"})
           s5 == At({"buff"}, User, {"res0", "res1"})
<1>0. /\ {"buff"} \ {} = {"buff"} /\ {"buff"} \cup {"res0"} = {"buff", "res0"}
      /\ {"buff", "res0"} \ {"res0"} = {"buff"}
      /\ {"buff", "res0"} \cup {"res1"} = {"buff", "res0", "res1"}
      /\ {"buff", "res0", "res1"} \ {"res0"} = {"buff", "res1"}
      /\ {"buff", "res1"} \ {"res1"} = {"buff"}
      /\ {} \in SUBSET Heap /\ {"res0"} \in SUBSET Heap
      /\ {"res1"} \in SUBSET Heap
      /\ "res0" \in Heap /\ "res1" \in Heap
      /\ "res0" \in Kernel /\ "res1" \in Kernel
      /\ {"res0", "res1"} \in SUBSET Kernel
      /\ {} \cup {"res0", "res1"} = {"res0", "res1"}
      /\ \A x : Leaves(x, {"buff"}) /\ Leaves(x, {"buff", "res0"} \ {"res0"})
  BY BufferNames, Remains
<1>g. \A b \in {"res0", "res1"} : GoesOut(c, TryPut(b, b),
        At({"buff", "res0", "res1"}, User, {"res0", "res1"}))
  BY DEF GoesOut, TryPut, Step, At
<1>1. /\ Len(u) = 7
      /\ u[1] = Alloc({"res0"}, {})
      /\ u[2] = Alloc({"res1"}, {"res0"})
      /\ u[3] = Sensor({"res0", "res1"})
      /\ u[4] = TryPut("res0", "res0")
      /\ u[5] = TryPut("res1", "res1")
      /\ u[6] = Free({"res0"})
      /\ u[7] = Free({"res1"})
  BY DEF GetResolution
<1> HIDE DEF u, s0, s1, s2, s3, s4, s5
<1>2. Leads(c, Alloc({"res0"}, {}), s0, s1)
  BY <1>0, AllocOne DEF s0, s1
<1>3. Leads(c, Alloc({"res1"}, {"res0"}), s1, s2)
  BY <1>0, AllocOne DEF s1, s2
<1>4. Leads(c, Sensor({"res0", "res1"}), s2, s3)
  BY <1>0, SensorLeads, AtStates DEF s2, s3
<1>5. Leads(c, TryPut("res0", "res0"), s3, s3)
  BY <1>0, <1>g, TryLeads DEF s3
<1>6. Leads(c, TryPut("res1", "res1"), s3, s3)
  BY <1>0, <1>g, TryLeads DEF s3
<1>7. Leads(c, Free({"res0"}), s3, s4)
  BY <1>0, FreeLeads DEF s3, s4
<1>8. Leads(c, Free({"res1"}), s4, s5)
  BY <1>0, FreeLeads DEF s4, s5
<1>9. RunsTo(c, u, 1, s0, s1)
  BY <1>1, <1>2, RunsStart, RunsMore, 0 + 1 = 1
<1>10. RunsTo(c, u, 2, s0, s2)
  BY <1>1, <1>3, <1>9, RunsMore, 1 + 1 = 2
<1>11. RunsTo(c, u, 3, s0, s3)
  BY <1>1, <1>4, <1>10, RunsMore, 2 + 1 = 3
<1>12. RunsTo(c, u, 4, s0, s3)
  BY <1>1, <1>5, <1>11, RunsMore, 3 + 1 = 4
<1>13. RunsTo(c, u, 5, s0, s3)
  BY <1>1, <1>6, <1>12, RunsMore, 4 + 1 = 5
<1>14. RunsTo(c, u, 6, s0, s4)
  BY <1>1, <1>7, <1>13, RunsMore, 5 + 1 = 6
<1>15. RunsTo(c, u, 7, s0, s5)
  BY <1>1, <1>8, <1>14, RunsMore, 6 + 1 = 7
<1>16. QED
  BY <1>1, <1>15 DEF Runs, u, s0, s5

LEMMA InfoRuns ==
  ASSUME NEW c, NEW k, k => c.compat /\ c.cmd = "GETINFO"
  PROVE  Runs(c, GetInfo(k),
              At({"buff"}, User, {}),
              At({"buff"}, User, {"info0", "info1", "config0", "config1"}))
<1> DEFINE u == GetInfo(k)
           to0 == ConfigTo("config0", "info0", k)
           to1 == ConfigTo("config1", "info1", k)
           s0 == At({"buff"}, User, {})
           s1 == At({"buff"}, User, {"info0", "info1", "config0", "config1"})
<1>0. /\ {"buff"} \ {} = {"buff"} /\ {} \in SUBSET Heap
      /\ "info0" \in Kernel /\ "info1" \in Kernel /\ "config0" \in Kernel
      /\ "config1" \in Kernel /\ "len" \in Kernel
      /\ {"info0", "info1", "config0", "config1"} \in SUBSET Kernel
      /\ {} \cup {"info0", "info1", "config0", "config1"} =
           {"info0", "info1", "config0", "config1"}
      /\ Null = Take("len", {})
      /\ "info0" \notin Heap /\ "info1" \notin Heap /\ "config0" \notin Heap
      /\ "config1" \notin Heap
      /\ \A x : Leaves(x, {"buff"})
  BY BufferNames, Remains
<1>t. /\ to0 \in Kernel /\ to1 \in Kernel
      /\ to0 = "config0" \/ (c.compat /\ c.cmd = "GETINFO")
      /\ to1 = "config1" \/ (c.compat /\ c.cmd = "GETINFO")
  BY BufferNames DEF ConfigTo
<1>1. /\ Len(u) = 6
      /\ u[1] = Null
      /\ u[2] = Sensor({"info0", "info1", "config0", "config1"})
      /\ u[3] = Put("info0", "info0", {})
      /\ u[4] = Put("config0", to0, {})
      /\ u[5] = Put("info1", "info1", {})
      /\ u[6] = Put("config1", to1, {})
  BY DEF GetInfo
<1> HIDE DEF u, to0, to1, s0, s1
<1>2. Leads(c, Null, s0, s0)
  BY <1>0, TakeLeads DEF s0
<1>3. Leads(c, Sensor({"info0", "info1", "config0", "config1"}), s0, s1)
  BY <1>0, SensorLeads, AtStates DEF s0, s1
<1>4. Leads(c, Put("info0", "info0", {}), s1, s1)
  BY <1>0, PutsLead DEF s1
<1>5. Leads(c, Put("config0", to0, {}), s1, s1)
  BY <1>0, <1>t, PutsLead DEF s1
<1>6. Leads(c, Put("info1", "info1", {}), s1, s1)
  BY <1>0, PutsLead DEF s1
<1>7. Leads(c, Put("config1", to1, {}), s1, s1)
  BY <1>0, <1>t, PutsLead DEF s1
<1>8. RunsTo(c, u, 1, s0, s0)
  BY <1>1, <1>2, RunsStart, RunsMore, 0 + 1 = 1
<1>9. RunsTo(c, u, 2, s0, s1)
  BY <1>1, <1>3, <1>8, RunsMore, 1 + 1 = 2
<1>10. RunsTo(c, u, 3, s0, s1)
  BY <1>1, <1>4, <1>9, RunsMore, 2 + 1 = 3
<1>11. RunsTo(c, u, 4, s0, s1)
  BY <1>1, <1>5, <1>10, RunsMore, 3 + 1 = 4
<1>12. RunsTo(c, u, 5, s0, s1)
  BY <1>1, <1>6, <1>11, RunsMore, 4 + 1 = 5
<1>13. RunsTo(c, u, 6, s0, s1)
  BY <1>1, <1>7, <1>12, RunsMore, 5 + 1 = 6
<1>14. QED
  BY <1>1, <1>13 DEF Runs, u, s0, s1

LEMMA Info2Runs ==
  ASSUME NEW c
  PROVE  Runs(c, GetInfo2,
              At({"buff"}, User, {}),
              At({"buff"}, User, {"info2", "resolution"}))
<1> DEFINE u == GetInfo2
           s0 == At({"buff"}, User, {})
           s1 == At({"buff"}, User, {"info2"})
           s2 == At({"buff"}, User, {"info2", "resolution"})
<1>0. /\ {"buff"} \ {} = {"buff"} /\ {} \in SUBSET Heap
      /\ "info2" \in Kernel /\ "resolution" \in Kernel
      /\ {"info2"} \in SUBSET Kernel /\ {"resolution"} \in SUBSET Kernel
      /\ {} \cup {"info2"} = {"info2"}
      /\ {"info2"} \cup {"resolution"} = {"info2", "resolution"}
      /\ "info2" \notin Heap /\ "resolution" \notin Heap
      /\ \A x : Leaves(x, {"buff"})
  BY BufferNames, Remains
<1>1. /\ Len(u) = 4
      /\ u[1] = Sensor({"info2"})
      /\ u[2] = Put("info2", "info2", {})
      /\ u[3] = Sensor({"resolution"})
      /\ u[4] = Put("resolution", "resolution", {})
  BY DEF GetInfo2
<1> HIDE DEF u, s0, s1, s2
<1>2. Leads(c, Sensor({"info2"}), s0, s1)
  BY <1>0, SensorLeads, AtStates DEF s0, s1
<1>3. Leads(c, Put("info2", "info2", {}), s1, s1)
  BY <1>0, PutsLead DEF s1
<1>4. Leads(c, Sensor({"resolution"}), s1, s2)
  BY <1>0, SensorLeads, AtStates DEF s1, s2
<1>5. Leads(c, Put("resolution", "resolution", {}), s2, s2)
  BY <1>0, PutsLead DEF s2
<1>6. RunsTo(c, u, 1, s0, s1)
  BY <1>1, <1>2, RunsStart, RunsMore, 0 + 1 = 1
<1>7. RunsTo(c, u, 2, s0, s1)
  BY <1>1, <1>3, <1>6, RunsMore, 1 + 1 = 2
<1>8. RunsTo(c, u, 3, s0, s2)
  BY <1>1, <1>4, <1>7, RunsMore, 2 + 1 = 3
<1>9. RunsTo(c, u, 4, s0, s2)
  BY <1>1, <1>5, <1>8, RunsMore, 3 + 1 = 4
<1>10. QED
  BY <1>1, <1>9 DEF Runs, u, s0, s2

LEMMA ControlRuns ==
  ASSUME NEW c
  PROVE  Runs(c, Control,
              At({"buff"}, User, {}),
              At({"buff"}, User, {"window", "config"}))
<1> DEFINE u == Control
           s0 == At({"buff"}, User, {})
           s1 == At({"buff"}, User, {"window", "config"})
<1>0. /\ {"buff"} \ {} = {"buff"} /\ {} \in SUBSET Heap
      /\ "window" \in Kernel /\ "config" \in Kernel /\ "len" \in Kernel
      /\ {"window", "config"} \in SUBSET Kernel /\ Null = Take("len", {})
      /\ {} \cup {"window", "config"} = {"window", "config"}
      /\ "window" \notin Heap /\ "config" \notin Heap
      /\ \A x : Leaves(x, {"buff"})
  BY BufferNames, Remains
<1>1. /\ Len(u) = 6
      /\ u[1] = Null
      /\ u[2] = Take("window", {})
      /\ u[3] = Take("config", {})
      /\ u[4] = Sensor({"window", "config"})
      /\ u[5] = Put("window", "window", {})
      /\ u[6] = Put("config", "config", {})
  BY DEF Control
<1> HIDE DEF u, s0, s1
<1>2. Leads(c, Null, s0, s0)
  BY <1>0, TakeLeads DEF s0
<1>3. Leads(c, Take("window", {}), s0, s0)
  BY <1>0, TakeLeads DEF s0
<1>4. Leads(c, Take("config", {}), s0, s0)
  BY <1>0, TakeLeads DEF s0
<1>5. Leads(c, Sensor({"window", "config"}), s0, s1)
  BY <1>0, SensorLeads, AtStates DEF s0, s1
<1>6. Leads(c, Put("window", "window", {}), s1, s1)
  BY <1>0, PutsLead DEF s1
<1>7. Leads(c, Put("config", "config", {}), s1, s1)
  BY <1>0, PutsLead DEF s1
<1>8. RunsTo(c, u, 1, s0, s0)
  BY <1>1, <1>2, RunsStart, RunsMore, 0 + 1 = 1
<1>9. RunsTo(c, u, 2, s0, s0)
  BY <1>1, <1>3, <1>8, RunsMore, 1 + 1 = 2
<1>10. RunsTo(c, u, 3, s0, s0)
  BY <1>1, <1>4, <1>9, RunsMore, 2 + 1 = 3
<1>11. RunsTo(c, u, 4, s0, s1)
  BY <1>1, <1>5, <1>10, RunsMore, 3 + 1 = 4
<1>12. RunsTo(c, u, 5, s0, s1)
  BY <1>1, <1>6, <1>11, RunsMore, 4 + 1 = 5
<1>13. RunsTo(c, u, 6, s0, s1)
  BY <1>1, <1>7, <1>12, RunsMore, 5 + 1 = 6
<1>14. QED
  BY <1>1, <1>13 DEF Runs, u, s0, s1

LEMMA BodyRuns ==
  ASSUME NEW c
  PROVE  \E g : Runs(c, Body(c), At({"buff"}, User, {}), At({"buff"}, User, g))
<1> DEFINE good(u) == \E g : Runs(c, u, At({"buff"}, User, {}),
                                  At({"buff"}, User, g))
<1>1. /\ good(GetInfo2) /\ good(GetResolution) /\ good(Control)
      /\ good(FeatureControl(c.cmd))
  BY Info2Runs, ResolutionRuns, ControlRuns, FeatureRuns, Zenon
<1>2. c.cmd = "GETINFO" => good(GetInfo(c.compat))
  BY InfoRuns
<1> HIDE DEF good
<1>3. \/ Body(c) \in {GetInfo2, GetResolution, Control, FeatureControl(c.cmd)}
      \/ c.cmd = "GETINFO" /\ Body(c) = GetInfo(c.compat)
  BY DEF Body
<1>4. good(Body(c))
  BY <1>1, <1>2, <1>3, Zenon
<1>5. QED
  BY <1>4 DEF good

\* A call starts and ends with nothing of its own.
LEMMA CallRuns ==
  ASSUME NEW c
  PROVE  \E g : Runs(c, Before \o Body(c) \o After, At({}, User, {}),
                     At({}, User, g))
<1>1. /\ Before \in Seq(StepTypes) /\ Body(c) \in Seq(StepTypes)
      /\ After \in Seq(StepTypes) /\ Before \o Body(c) \in Seq(StepTypes)
  BY Around, BodySteps, ConcatProperties
<1>2. PICK g : Runs(c, Body(c), At({"buff"}, User, {}), At({"buff"}, User, g))
  BY BodyRuns
<1>3. Runs(c, Before \o Body(c), At({}, User, {}), At({"buff"}, User, g))
  BY <1>1, <1>2, BeforeRuns, RunsThen
<1>4. Runs(c, Before \o Body(c) \o After, At({}, User, {}), At({}, User, g))
  BY <1>1, <1>3, AfterRuns, RunsThen
<1>5. QED
  BY <1>4

-----------------------------------------------------------------------------
(* Every call.                                                             *)

\* State s of a triple is the present one; what the sensors should have filled
\* they have, unless one of them failed.
Tracks(s) == /\ s.live = kf_live /\ s.word = kf_word
             /\ kf_blind \/ s.set \subseteq kf_set

\* While nothing has ended the call, its remaining steps lead to its end with
\* nothing allocated.
OnCourse == kf_broke = NoStep =>
  \E s, t : /\ Tracks(s) /\ t.live = {}
            /\ Runs(kf_call, kf_todo, s, t)

\* Once something has, only the end of CAMERA_HW_Ioctl is left, and beside its
\* argument only what the failure is known to forget.
OffCourse == kf_broke # NoStep =>
  /\ kf_todo \in {After, Tail(After), <<>>}
  /\ kf_todo # <<>> <=> "buff" \in kf_live
  /\ kf_live \ {"buff"} # {} =>
       /\ Forgets(kf_broke)
       /\ kf_live \ {"buff"} \subseteq {"para", "value0", "value1"}

Delivered == \A p \in kf_got : \/ p[1] = p[2]
                               \/ kf_call.compat /\ kf_call.cmd = "GETINFO"

CleanInv == FeatureInv /\ OnCourse /\ OffCourse /\ Delivered

\* The end of CAMERA_HW_Ioctl.
LEMMA TheEnd ==
  /\ After # <<>> /\ Tail(After) # <<>> /\ Tail(Tail(After)) = <<>>
  /\ Head(After) \in StepTypes /\ Head(Tail(After)) = Free({"buff"})
  /\ Head(After).op = "out" /\ Head(After).bufs = {"buff"}
  /\ Head(After).to = "buff" /\ Head(After).frees = {"buff"}
  /\ Head(After).fail = "exit"
  /\ Free({"buff"}).op = "free" /\ Free({"buff"}).bufs = {"buff"}
<1> DEFINE x == [Put("buff", "buff", {"buff"}) EXCEPT !.fail = "exit"]
<1>1. /\ x.op = "out" /\ x.bufs = {"buff"} /\ x.to = "buff"
      /\ x.frees = {"buff"} /\ x.fail = "exit"
  BY DEF Put, Step
<1>2. Head(After) \in StepTypes
  BY Around, HeadTailProperties DEF After
<1>3. After = <<x, Free({"buff"})>>
  BY DEF After
<1> HIDE DEF x
<1>4. /\ After # <<>> /\ Head(After) = x /\ Tail(After) = <<Free({"buff"})>>
  BY <1>3
<1> DEFINE y == Free({"buff"})
<1>5. /\ Tail(After) # <<>> /\ Head(Tail(After)) = y
      /\ Tail(Tail(After)) = <<>>
  <2> HIDE DEF y
  <2>1. /\ <<y>> # <<>> /\ Head(<<y>>) = y /\ Tail(<<y>>) = <<>>
    OBVIOUS
  <2>2. Tail(After) = <<y>>
    BY <1>4 DEF y
  <2>3. QED
    BY <2>1, <2>2
<1>6. Free({"buff"}).op = "free" /\ Free({"buff"}).bufs = {"buff"}
  BY DEF Free, Step
<1>7. QED
  BY <1>1, <1>2, <1>4, <1>5, <1>6

LEMMA CleanInitially == FeatureInit => CleanInv
<1> SUFFICES ASSUME FeatureInit PROVE CleanInv
  OBVIOUS
<1> DEFINE s == At({}, User, {})
<1>1. kf_todo = <<>> /\ kf_live = {} /\ kf_word = User /\ kf_set = {}
      /\ kf_broke = NoStep /\ kf_got = {}
  BY DEF FeatureInit, User
<1>2. Tracks(s) /\ s.live = {}
  BY <1>1, AtStates DEF Tracks
<1> HIDE DEF s
<1>3. OnCourse
  BY <1>1, <1>2, RunsNothing DEF OnCourse
<1>4. OffCourse /\ Delivered
  BY <1>1 DEF OffCourse, Delivered
<1>5. QED
  BY <1>3, <1>4, FeatureInitially DEF CleanInv

\* A new call.
LEMMA CallClean ==
  ASSUME NEW c, CAMERA_HW_Ioctl(c) PROVE OnCourse' /\ OffCourse' /\ Delivered'
<1> DEFINE s == At({}, User, {})
<1>1. /\ kf_call' = c /\ kf_todo' = Before \o Body(c) \o After
      /\ kf_live' = {} /\ kf_word' = User /\ kf_set' = {} /\ kf_got' = {}
      /\ kf_broke' = NoStep
  BY DEF CAMERA_HW_Ioctl, User
<1>2. Tracks(s)'
  BY <1>1, AtStates DEF Tracks, s
<1>3. PICK g : Runs(c, Before \o Body(c) \o After, At({}, User, {}),
                    At({}, User, g))
  BY CallRuns
<1>4. At({}, User, g).live = {}
  BY AtStates
<1>5. OnCourse'
  BY <1>1, <1>2, <1>3, <1>4 DEF OnCourse
<1>6. QED
  BY <1>1, <1>5 DEF OffCourse, Delivered

\* A step of a call on its course, and what it leads to.
LEMMA NextTriple ==
  ASSUME CleanInv, kf_todo # <<>>, kf_broke = NoStep
  PROVE  /\ This \in StepTypes
         /\ \E s, r, t : /\ Tracks(s) /\ t.live = {}
                         /\ Leads(kf_call, This, s, r)
                         /\ Runs(kf_call, Tail(kf_todo), r, t)
<1>1. kf_todo \in Seq(StepTypes)
  BY DEF CleanInv, FeatureInv
<1>2. PICK s, t : Tracks(s) /\ t.live = {} /\ Runs(kf_call, kf_todo, s, t)
  BY DEF CleanInv, OnCourse
<1>3. \E r : Leads(kf_call, This, s, r) /\ Runs(kf_call, Tail(kf_todo), r, t)
  BY <1>1, <1>2, RunsOn DEF This
<1>4. This \in StepTypes
  BY <1>1, HeadTailProperties DEF This
<1>5. QED
  BY <1>2, <1>3, <1>4

\* A step off course is the copying of the argument or the freeing of it.
LEMMA Ending ==
  ASSUME CleanInv, kf_todo # <<>>, kf_broke # NoStep
  PROVE  \/ kf_todo = After /\ This = Head(After)
         \/ /\ kf_todo = Tail(After) /\ This = Free({"buff"})
            /\ Tail(kf_todo) = <<>>
BY TheEnd DEF CleanInv, OffCourse, This

\* A step that succeeds.
LEMMA OnCourseStep ==
  ASSUME CleanInv, kf_todo # <<>>, kf_broke = NoStep, Goes,
         UNCHANGED <<kf_call, kf_broke>>,
         NEW s, NEW r, NEW t, t.live = {}, Runs(kf_call, Tail(kf_todo), r, t),
         Tracks(r)'
  PROVE  OnCourse' /\ OffCourse'
BY DEF OnCourse, OffCourse, Goes

LEMMA CleanStep == CleanInv /\ [FeatureNext]_kfVars => CleanInv'
<1> SUFFICES ASSUME CleanInv, [FeatureNext]_kfVars PROVE CleanInv'
  OBVIOUS
<1>1. FeatureInv'
  BY FeatureStep DEF CleanInv
<1>2. SUFFICES OnCourse' /\ OffCourse' /\ Delivered'
  BY <1>1 DEF CleanInv
<1>3. ASSUME NEW c \in Calls, CAMERA_HW_Ioctl(c)
      PROVE  OnCourse' /\ OffCourse' /\ Delivered'
  BY <1>3, CallClean
<1>4. CASE Allocate
  <2>1. /\ kf_todo # <<>> /\ This.op = "alloc" /\ Goes
        /\ kf_live' = kf_live \cup This.bufs
        /\ UNCHANGED <<kf_call, kf_word, kf_set, kf_got, kf_broke, kf_blind>>
    BY <1>4 DEF Allocate, Doing, This
  <2>2. kf_broke = NoStep
    BY <2>1, Ending, TheEnd
  <2>3. PICK s, r, t : /\ Tracks(s) /\ t.live = {}
                       /\ Leads(kf_call, This, s, r)
                       /\ Runs(kf_call, Tail(kf_todo), r, t)
    BY <2>1, <2>2, NextTriple
  <2>4. Tracks(r)'
    BY <2>1, <2>3 DEF Leads, Tracks
  <2>5. Delivered'
    BY <2>1 DEF CleanInv, Delivered
  <2>6. QED
    BY <2>1, <2>2, <2>3, <2>4, <2>5, OnCourseStep
<1>5. CASE Copy
  <2>1. /\ kf_todo # <<>> /\ This.op \in {"in", "out"} /\ Goes
        /\ UNCHANGED <<kf_call, kf_live, kf_word, kf_set, kf_broke, kf_blind>>
        /\ kf_got' = IF This.op = "in" THEN kf_got
                     ELSE kf_got \cup (This.bufs \X {This.to})
    BY <1>5 DEF Copy, Doing, This
  <2>2. CASE kf_broke = NoStep
    <3>1. PICK s, r, t : /\ Tracks(s) /\ t.live = {}
                         /\ Leads(kf_call, This, s, r)
                         /\ Runs(kf_call, Tail(kf_todo), r, t)
      BY <2>1, <2>2, NextTriple
    <3>2. Tracks(r)'
      BY <2>1, <3>1 DEF Leads, Tracks
    <3>3. Delivered'
      <4>1. CASE This.op = "in"
        BY <2>1, <4>1 DEF CleanInv, Delivered
      <4>2. CASE This.op = "out"
        <5>1. \A b \in This.bufs :
                b = This.to \/ (kf_call.compat /\ kf_call.cmd = "GETINFO")
          BY <3>1, <4>2 DEF Leads, GoesOut
        <5>2. \A p \in This.bufs \X {This.to} :
                p[1] \in This.bufs /\ p[2] = This.to
          OBVIOUS
        <5>3. /\ kf_got' = kf_got \cup (This.bufs \X {This.to})
              /\ kf_call' = kf_call
          BY <2>1, <4>2
        <5>4. QED
          BY <5>1, <5>2, <5>3, Zenon DEF CleanInv, Delivered
      <4>3. QED
        BY <2>1, <4>1, <4>2
    <3>4. QED
      BY <2>1, <2>2, <3>1, <3>2, <3>3, OnCourseStep
  <2>3. CASE kf_broke # NoStep
    <3>1. kf_todo = After /\ This = Head(After)
      BY <2>1, <2>3, Ending, TheEnd
    <3>2. kf_todo' = Tail(After)
      BY <2>1, <3>1 DEF Goes
    <3>3. OnCourse' /\ OffCourse'
      BY <2>1, <2>3, <3>1, <3>2, TheEnd DEF CleanInv, OnCourse, OffCourse
    <3>4. Delivered'
      <4>1. \A p \in {"buff"} \X {"buff"} : p[1] = p[2]
        OBVIOUS
      <4>2. kf_got' = kf_got \cup ({"buff"} \X {"buff"}) /\ kf_call' = kf_call
        BY <2>1, <3>1, TheEnd
      <4>3. QED
        BY <4>1, <4>2, Zenon DEF CleanInv, Delivered
    <3>5. QED
      BY <3>3, <3>4
  <2>4. QED
    BY <2>2, <2>3
<1>6. CASE Fails
  <2>1. /\ kf_todo # <<>> /\ This.op \in {"alloc", "in", "out"}
        /\ UNCHANGED <<kf_call, kf_word, kf_set, kf_got>>
    BY <1>6 DEF Fails, Doing, This
  <2>2. PICK some \in SUBSET This.bufs :
          /\ some = {} \/ (This.op = "alloc" /\ some # This.bufs)
          /\ kf_live' = (kf_live \ This.frees) \cup some
    BY <1>6 DEF Fails
  <2>3. /\ This.fail = "next" => kf_todo' = Tail(kf_todo)
        /\ This.fail = "tail" => kf_todo' = After
        /\ This.fail = "exit" => kf_todo' = <<>>
        /\ This.fail = "next" => kf_blind' = TRUE
        /\ kf_broke = NoStep /\ This.fail # "next" => kf_broke' = This
        /\ kf_broke # NoStep \/ This.fail = "next" => kf_broke' = kf_broke
    BY <1>6 DEF Fails
  <2>4. Delivered'
    BY <2>1 DEF CleanInv, Delivered
  <2>5. CASE kf_broke = NoStep
    <3>1. PICK s, r, t : /\ Tracks(s) /\ t.live = {}
                         /\ Leads(kf_call, This, s, r)
                         /\ Runs(kf_call, Tail(kf_todo), r, t)
      BY <2>1, <2>5, NextTriple
    <3>2. /\ This.fail = "next" => kf_live' = kf_live
          /\ This.fail = "tail" => Leaves(This, kf_live')
          /\ This.fail = "exit" => kf_live' = {}
      BY <2>1, <2>2, <3>1 DEF Leads, FailsWell, Tracks
    <3>3. This # NoStep
      <4>1. NoStep.op = "none"
        BY Zenon DEF NoStep, Step
      <4>2. QED
        BY <2>1, <4>1
    <3>4. CASE This.fail = "next"
      <4>1. kf_todo' = Tail(kf_todo) /\ kf_broke' = NoStep /\ kf_blind' = TRUE
        BY <2>3, <2>5, <3>4
      <4>2. This.op # "alloc"
        BY <2>1, <2>2, <3>1, <3>4 DEF Leads, FailsWell
      <4>3. Tracks(r)'
        BY <2>1, <3>1, <3>2, <3>4, <4>1, <4>2 DEF Leads, Tracks
      <4>4. QED
        BY <2>1, <2>4, <3>1, <4>1, <4>3 DEF OnCourse, OffCourse
    <3>5. CASE This.fail = "tail"
      <4>1. kf_todo' = After /\ kf_broke' = This /\ Leaves(This, kf_live')
        BY <2>3, <2>5, <3>2, <3>5
      <4>2. QED
        BY <2>4, <3>3, <4>1, TheEnd DEF OnCourse, OffCourse, Leaves
    <3>6. CASE This.fail = "exit"
      <4>1. kf_todo' = <<>> /\ kf_broke' = This /\ kf_live' = {}
        BY <2>3, <2>5, <3>2, <3>6
      <4>2. QED
        BY <2>4, <3>3, <4>1 DEF OnCourse, OffCourse
    <3>7. This.fail \in {"next", "tail", "exit"}
      BY <2>1, <2>5, NextTriple DEF StepTypes
    <3>8. QED
      BY <3>4, <3>5, <3>6, <3>7
  <2>6. CASE kf_broke # NoStep
    <3>1. kf_todo = After /\ This = Head(After)
      BY <2>1, <2>6, Ending, TheEnd
    <3>2. kf_live' = kf_live \ {"buff"} /\ kf_todo' = <<>>
          /\ kf_broke' = kf_broke
      BY <2>2, <2>3, <2>6, <3>1, TheEnd
    <3>3. QED
      BY <2>4, <2>6, <3>2 DEF CleanInv, OnCourse, OffCourse
  <2>7. QED
    BY <2>5, <2>6
<1>7. CASE CallSensor
  <2>1. /\ kf_todo # <<>> /\ This.op = "sensor" /\ Goes
        /\ \/ kf_set' = kf_set \cup This.bufs /\ UNCHANGED kf_blind
           \/ kf_blind' = TRUE /\ UNCHANGED kf_set
        /\ UNCHANGED <<kf_call, kf_live, kf_word, kf_got, kf_broke>>
    BY <1>7 DEF CallSensor, Doing, This
  <2>2. kf_broke = NoStep
    BY <2>1, Ending, TheEnd
  <2>3. PICK s, r, t : /\ Tracks(s) /\ t.live = {}
                       /\ Leads(kf_call, This, s, r)
                       /\ Runs(kf_call, Tail(kf_todo), r, t)
    BY <2>1, <2>2, NextTriple
  <2>4. Tracks(r)'
    BY <2>1, <2>3 DEF Leads, Tracks
  <2>5. Delivered'
    BY <2>1 DEF CleanInv, Delivered
  <2>6. QED
    BY <2>1, <2>2, <2>3, <2>4, <2>5, OnCourseStep
<1>8. CASE Redirect
  <2>1. /\ kf_todo # <<>> /\ This.op = "point" /\ Goes
        /\ \E b \in This.bufs : kf_word' = [kf_word EXCEPT ![This.to] = b]
        /\ UNCHANGED <<kf_call, kf_live, kf_set, kf_got, kf_broke, kf_blind>>
    BY <1>8 DEF Redirect, Doing, This
  <2>2. kf_broke = NoStep
    BY <2>1, Ending, TheEnd
  <2>3. PICK s, r, t : /\ Tracks(s) /\ t.live = {}
                       /\ Leads(kf_call, This, s, r)
                       /\ Runs(kf_call, Tail(kf_todo), r, t)
    BY <2>1, <2>2, NextTriple
  <2>4. Tracks(r)'
    BY <2>1, <2>3 DEF Leads, Tracks
  <2>5. Delivered'
    BY <2>1 DEF CleanInv, Delivered
  <2>6. QED
    BY <2>1, <2>2, <2>3, <2>4, <2>5, OnCourseStep
<1>9. CASE FreeBuffers
  <2>1. /\ kf_todo # <<>> /\ This.op = "free" /\ Goes
        /\ kf_live' = kf_live \ This.bufs
        /\ UNCHANGED <<kf_call, kf_word, kf_set, kf_got, kf_broke, kf_blind>>
    BY <1>9 DEF FreeBuffers, Doing, This
  <2>2. Delivered'
    BY <2>1 DEF CleanInv, Delivered
  <2>3. CASE kf_broke = NoStep
    <3>1. PICK s, r, t : /\ Tracks(s) /\ t.live = {}
                         /\ Leads(kf_call, This, s, r)
                         /\ Runs(kf_call, Tail(kf_todo), r, t)
      BY <2>1, <2>3, NextTriple
    <3>2. Tracks(r)'
      BY <2>1, <3>1 DEF Leads, Tracks
    <3>3. QED
      BY <2>1, <2>2, <2>3, <3>1, <3>2, OnCourseStep
  <2>4. CASE kf_broke # NoStep
    <3>1. This = Free({"buff"}) /\ Tail(kf_todo) = <<>>
      BY <2>1, <2>4, Ending, TheEnd
    <3>2. kf_todo' = <<>> /\ kf_live' = kf_live \ {"buff"}
      BY <2>1, <3>1, TheEnd DEF Goes
    <3>3. QED
      BY <2>1, <2>2, <2>4, <3>2 DEF CleanInv, OnCourse, OffCourse
  <2>5. QED
    BY <2>3, <2>4
<1>10. CASE UNCHANGED kfVars
  BY <1>10 DEF kfVars, CleanInv, OnCourse, OffCourse, Delivered, Tracks
<1>11. QED
  BY <1>3, <1>4, <1>5, <1>6, <1>7, <1>8, <1>9, <1>10 DEF FeatureNext

LEMMA CleanHolds == CleanInv => CallsAreClean
<1> SUFFICES ASSUME CleanInv PROVE CallsAreClean
  OBVIOUS
<1>1. ASSUME kf_todo = <<>>, kf_live # {}
      PROVE  /\ Forgets(kf_broke)
             /\ kf_live \subseteq {"para", "value0", "value1"}
  <2>1. kf_broke # NoStep
    BY <1>1, NothingRuns DEF CleanInv, OnCourse, Tracks
  <2>2. "buff" \notin kf_live
    BY <1>1, <2>1 DEF CleanInv, OffCourse
  <2>3. kf_live \ {"buff"} = kf_live
    BY <2>2
  <2>4. QED
    BY <1>1, <2>1, <2>3 DEF CleanInv, OffCourse
<1>2. ASSUME Doing("sensor")
      PROVE  \A w \in {"0", "1"} : kf_word[w] \in kf_live \cup {"user"}
  <2>1. kf_todo # <<>> /\ This.op = "sensor"
    BY <1>2 DEF Doing, This
  <2>2. kf_broke = NoStep
    BY <2>1, Ending, TheEnd
  <2>3. PICK s, r, t : Tracks(s) /\ Leads(kf_call, This, s, r)
    BY <2>1, <2>2, NextTriple
  <2>4. QED
    BY <2>1, <2>3 DEF Leads, Tracks
<1>3. ASSUME Doing("out")
      PROVE  /\ This.bufs \cap Heap \subseteq kf_live
             /\ This.bufs \ {"buff", "len", "para"} \subseteq kf_set
                  \/ kf_blind
             /\ This.bufs = {"para"} =>
                  \A w \in {"0", "1"} : kf_word[w] = "user"
  <2>1. kf_todo # <<>> /\ This.op = "out"
    BY <1>3 DEF Doing, This
  <2>2. CASE kf_broke = NoStep
    <3>1. PICK s, r, t : Tracks(s) /\ Leads(kf_call, This, s, r)
      BY <2>1, <2>2, NextTriple
    <3>2. GoesOut(kf_call, This, s)
      BY <2>1, <3>1 DEF Leads
    <3>3. QED
      BY <3>1, <3>2 DEF GoesOut, Tracks
  <2>3. CASE kf_broke # NoStep
    <3>1. This.bufs = {"buff"}
      BY <2>1, <2>3, Ending, TheEnd
    <3>2. "buff" \in kf_live
      BY <2>1, <2>3 DEF CleanInv, OffCourse
    <3>3. QED
      BY <3>1, <3>2
  <2>4. QED
    BY <2>2, <2>3
<1>4. Delivered
  BY DEF CleanInv
<1>5. QED
  BY <1>1, <1>2, <1>3, <1>4 DEF CallsAreClean, Delivered

\* For every feature and every command, of 32 and of 64 bits, and wherever a
\* step of the call fails: what it allocated is freed when it returns, but for
\* the parameter and the values that the listed failures forget; a sensor is
\* given no pointer to freed memory; what goes out is alive, filled, and goes
\* where it belongs.
THEOREM CleanTheorem == FeatureSpec => []CallsAreClean
<1>1. QED
  BY CleanInitially, CleanStep, CleanHolds, PTL DEF FeatureSpec

-----------------------------------------------------------------------------
(* The calls together: one of the three parts runs and the others rest.    *)

CallsInv == ExposureTypeOK /\ FeatureInv /\ I2cInv

LEMMA CallsInitially == Init => CallsInv
BY Initially, FeatureInitially, I2cInitially DEF Init, CallsInv, OnTimeInv

LEMMA CallsStep == CallsInv /\ [Next]_vars => CallsInv'
<1> SUFFICES ASSUME CallsInv, [Next]_vars PROVE CallsInv'
  OBVIOUS
<1>1. [ExposureNext]_kdVars /\ [FeatureNext]_kfVars /\ [I2cNext]_kbVars
  BY DEF Next, vars
<1>2. ExposureTypeOK'
  BY <1>1, TypeStep DEF CallsInv
<1>3. FeatureInv'
  BY <1>1, FeatureStep DEF CallsInv
<1>4. I2cInv'
  BY <1>1, I2cStep DEF CallsInv
<1>5. QED
  BY <1>2, <1>3, <1>4 DEF CallsInv

\* The exposure, the buffers and steps of every call, and the transfers keep
\* their types, whatever fails: no call leaves the steps it is made of.
THEOREM CallsTypeTheorem == Spec => []TypeOK
<1>1. CallsInv => TypeOK
  BY DEF CallsInv, FeatureInv, I2cInv, TypeOK
<1>2. QED
  BY <1>1, CallsInitially, CallsStep, PTL DEF Spec

LEMMA CallsParts == Spec => ExposureSpec /\ FeatureSpec /\ I2cSpec
<1>1. Init => ExposureInit /\ FeatureInit /\ I2cInit
  BY DEF Init
<1>2. [Next]_vars =>
        [ExposureNext]_kdVars /\ [FeatureNext]_kfVars /\ [I2cNext]_kbVars
  BY DEF Next, vars
<1>3. QED
  BY <1>1, <1>2, PTL DEF Spec, ExposureSpec, FeatureSpec, I2cSpec

\* What is said of the exposure, the buffers and the transfers alone holds of
\* the three together, as the run has them.
THEOREM CallsTheorem ==
  Spec => [](ExposureOnTime /\ GainsWhole /\ CallsAreClean /\ TransferFits)
BY CallsParts, OnTimeTheorem, GainsTheorem, CleanTheorem, TransferTheorem, PTL

==============================================================================
