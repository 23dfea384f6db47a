----------------------- MODULE PartitionStreamProofs -----------------------
(***************************************************************************)
(* Streams, for every sector size, disk size, set of partitions that do    *)
(* not overlap and set of transfer lengths: the two positions of a stream  *)
(* agree until the end of the disk, a transfer touches bytes of its own    *)
(* partition only, and partitions behave as the arrays of bytes of Volume. *)
(***************************************************************************)
EXTENDS PartitionStream, TLAPS

-----------------------------------------------------------------------------
(* Sectors and bytes.                                                      *)

LEMMA DivMod ==
    ASSUME NEW a \in Nat, NEW s \in Nat \ {0}
    PROVE  /\ a \div s \in Nat /\ a % s \in 0 .. (s - 1)
           /\ a = ((a \div s) * s) + (a % s)
OBVIOUS

LEMMA TimesPositive ==
    ASSUME NEW x \in Nat \ {0}, NEW s \in Nat \ {0}
    PROVE  x * s \in Nat /\ x * s >= s
OBVIOUS

LEMMA TimesMonotone ==
    ASSUME NEW x \in Nat, NEW y \in Nat, x <= y, NEW s \in Nat
    PROVE  x * s \in Nat /\ y * s \in Nat /\ x * s <= y * s
OBVIOUS

LEMMA ModUnique ==
    ASSUME NEW m \in Nat, NEW s \in Nat \ {0}, NEW k \in 0 .. (s - 1)
    PROVE  (m * s + k) % s = k
OBVIOUS

(* A transfer begins in its first sector and ends in its last.             *)
LEMMA Extent ==
    ASSUME NEW st \in Streams, position[st] \in Nat, NEW length \in Nat \ {0}
    PROVE  LET L == currLba(st)
               o == currLbaPos(st)
               T == totalLba(st, length)
           IN  /\ L \in Nat /\ o \in 0 .. (SECTOR - 1) /\ T \in Nat \ {0}
               /\ L * SECTOR \in Nat /\ T * SECTOR \in Nat /\ (T - 1) * SECTOR \in Nat
               /\ position[st] = (L * SECTOR) + o
               /\ (L + T) * SECTOR = (L * SECTOR) + (T * SECTOR)
               /\ (L + T - 1) * SECTOR = (L * SECTOR) + ((T - 1) * SECTOR)
               /\ T * SECTOR = ((T - 1) * SECTOR) + SECTOR
               /\ o + length <= T * SECTOR
               /\ (T - 1) * SECTOR < o + length
               /\ (o + length) % SECTOR = 0 => T * SECTOR = o + length
               /\ (o + length) % SECTOR # 0 =>
                     (o + length) % SECTOR = (o + length) - ((T - 1) * SECTOR)
<1> DEFINE L == currLba(st)
           o == currLbaPos(st)
           T == totalLba(st, length)
           q == (o + length) \div SECTOR
           r == (o + length) % SECTOR
<1>1. SECTOR \in Nat \ {0}
  BY DiskAssumption
<1>2. L \in Nat /\ o \in 0 .. (SECTOR - 1) /\ position[st] = (L * SECTOR) + o
  BY <1>1, DivMod DEF currLba, currLbaPos
<1>3. o + length \in Nat \ {0}
  BY <1>1, <1>2
<1>4. q \in Nat /\ r \in 0 .. (SECTOR - 1) /\ o + length = (q * SECTOR) + r
  BY <1>1, <1>3, DivMod
<1>5. T = q + (IF r > 0 THEN 1 ELSE 0)
  BY DEF totalLba
<1> HIDE DEF L, o, T, q, r
<1>6. L * SECTOR \in Nat /\ q * SECTOR \in Nat
  BY <1>1, <1>2, <1>4
<1>7. CASE r = 0
  <2>1. T = q
    BY <1>4, <1>5, <1>7
  <2>2. q # 0
    BY <1>1, <1>3, <1>4, <1>7
  <2>3. q - 1 \in Nat /\ q * SECTOR = ((q - 1) * SECTOR) + SECTOR /\ (q - 1) * SECTOR \in Nat
    BY <1>1, <1>4, <2>2
  <2>4. (L + q) * SECTOR = (L * SECTOR) + (q * SECTOR)
    BY <1>1, <1>2, <1>4
  <2>5. (L + q - 1) * SECTOR = (L * SECTOR) + ((q - 1) * SECTOR)
    BY <1>1, <1>2, <1>4, <2>2
  <2>6. o + length = q * SECTOR
    BY <1>4, <1>6, <1>7
  <2>7. /\ o + length <= q * SECTOR /\ (q - 1) * SECTOR < o + length
    BY <1>1, <1>6, <2>3, <2>6
  <2> QED  BY <1>2, <1>4, <1>6, <1>7, <2>1, <2>2, <2>3, <2>4, <2>5, <2>6, <2>7 DEF L, o, T, r
<1>8. CASE r # 0
  <2>1. T = q + 1 /\ T - 1 = q /\ T \in Nat \ {0}
    BY <1>4, <1>5, <1>8
  <2>2. (q + 1) * SECTOR = (q * SECTOR) + SECTOR
    BY <1>1, <1>4
  <2>3. (L + (q + 1)) * SECTOR = (L * SECTOR) + ((q + 1) * SECTOR)
    BY <1>1, <1>2, <1>4
  <2>4. (L + (q + 1) - 1) * SECTOR = (L * SECTOR) + (q * SECTOR)
    BY <1>1, <1>2, <1>4
  <2>5. T * SECTOR = (q * SECTOR) + SECTOR /\ T * SECTOR \in Nat
    BY <1>1, <1>6, <2>1, <2>2
  <2>6. o + length <= T * SECTOR /\ q * SECTOR < o + length /\ r = (o + length) - (q * SECTOR)
    BY <1>1, <1>2, <1>4, <1>6, <1>8, <2>5
  <2> QED  BY <1>2, <1>4, <1>6, <1>8, <2>1, <2>2, <2>3, <2>4, <2>5, <2>6 DEF L, o, T, r
<1> QED  BY <1>4, <1>7, <1>8

(* What diskStreamWrite hands to the driver: the caller's bytes where the  *)
(* caller wants them, and everywhere else what is on the disk already.     *)
LEMMA WriteBufferExact ==
    ASSUME NEW st \in Streams, position[st] \in Nat, NEW length \in Nat \ {0}, NEW in,
           NEW a \in SectorBytes(currLba(st), totalLba(st, length))
    PROVE  WriteBuffer(st, in, length)[a] =
              IF a \in position[st] .. (position[st] + length - 1)
              THEN in[a - position[st] + 1] ELSE disk[a]
<1> DEFINE L == currLba(st)
           o == currLbaPos(st)
           T == totalLba(st, length)
           end == o + length
           last == L + T - 1
           start == L * SECTOR
           tail == start + ((T - 1) * SECTOR)
           stop == start + (T * SECTOR)
           e == end % SECTOR
           H == o > 0 /\ a \in SectorBytes(L, 1)
           D == a - start \in o .. (end - 1)
           E == e # 0 /\ a \in SectorBytes(last, 1) /\ a % SECTOR >= e
<1>1. WriteBuffer(st, in, length)[a] =
         IF E THEN disk[a] ELSE IF D THEN in[a - start - o + 1] ELSE IF H THEN disk[a] ELSE 0
  BY DEF WriteBuffer
<1>2. /\ L \in Nat /\ o \in 0 .. (SECTOR - 1) /\ T \in Nat \ {0} /\ SECTOR \in Nat \ {0}
      /\ start \in Nat /\ T * SECTOR \in Nat /\ (T - 1) * SECTOR \in Nat
      /\ position[st] = start + o
      /\ (L + T) * SECTOR = stop
      /\ last * SECTOR = tail
      /\ T * SECTOR = ((T - 1) * SECTOR) + SECTOR
      /\ end <= T * SECTOR /\ (T - 1) * SECTOR < end
      /\ e = 0 => T * SECTOR = end
      /\ e # 0 => e = end - ((T - 1) * SECTOR)
  BY Extent, DiskAssumption
<1>3. /\ tail \in Nat /\ stop \in Nat /\ end \in Nat \ {0}
      /\ stop = tail + SECTOR
      /\ start + end <= stop /\ tail < start + end
      /\ e = 0 => stop = start + end
      /\ e # 0 => e = (start + end) - tail
      /\ last \in Nat /\ last + 1 = L + T
      /\ end = o + length
  <2> HIDE DEF start, L, o, T, e
  <2> QED  BY <1>2
<1>4. /\ SectorBytes(L, T) = start .. (stop - 1)
      /\ SectorBytes(last, 1) = tail .. (stop - 1)
      /\ SectorBytes(L, 1) = start .. (start + SECTOR - 1)
  <2>1. (last + 1) * SECTOR = stop
    BY <1>2, <1>3
  <2>2. (L + 1) * SECTOR = start + SECTOR
    <3> HIDE DEF L
    <3> QED  BY <1>2
  <2> HIDE DEF L, T, last, stop, tail, start
  <2>3. SectorBytes(L, T) = start .. (stop - 1)
    BY <1>2 DEF SectorBytes, start
  <2>4. SectorBytes(last, 1) = tail .. (stop - 1)
    BY <1>2, <2>1 DEF SectorBytes
  <2>5. SectorBytes(L, 1) = start .. (start + SECTOR - 1)
    BY <1>2, <2>2 DEF SectorBytes, start
  <2> QED  BY <2>3, <2>4, <2>5
<1>5. a \in start .. (stop - 1)
  BY <1>4
<1>6. a \in SectorBytes(last, 1) <=> a \in tail .. (stop - 1)
  BY <1>4
<1>7. a \in SectorBytes(L, 1) <=> a \in start .. (start + SECTOR - 1)
  BY <1>4
<1> HIDE DEF L, o, T, end, last, start, tail, stop, e
<1>8. a \in SectorBytes(last, 1) => a % SECTOR = a - tail
  <2> SUFFICES ASSUME a \in SectorBytes(last, 1)
               PROVE  a % SECTOR = a - tail
    OBVIOUS
  <2> DEFINE k == a - tail
  <2>1. k \in 0 .. (SECTOR - 1) /\ a = (last * SECTOR) + k
    BY <1>2, <1>3, <1>5, <1>6
  <2> HIDE DEF k
  <2>2. ((last * SECTOR) + k) % SECTOR = k
    BY <1>2, <1>3, <2>1, ModUnique
  <2> QED  BY <2>1, <2>2 DEF k
<1>9. E <=> a >= start + end
  <2>1. CASE e = 0
    BY <1>2, <1>3, <1>5, <2>1
  <2>2. CASE e # 0
    <3>1. ASSUME a >= start + end  PROVE  E
      <4>1. a \in SectorBytes(last, 1)
        BY <1>2, <1>3, <1>5, <1>6, <3>1
      <4> QED  BY <1>2, <1>3, <1>5, <1>8, <2>2, <3>1, <4>1
    <3>2. ASSUME E  PROVE  a >= start + end
      BY <1>2, <1>3, <1>5, <1>8, <3>2
    <3> QED  BY <3>1, <3>2
  <2> QED  BY <2>1, <2>2
<1>10. D <=> a \in position[st] .. (position[st] + length - 1)
  BY <1>2, <1>3, <1>5
<1>11. a < position[st] => H
  BY <1>2, <1>3, <1>5, <1>7
<1>12. position[st] + length = start + end /\ a - start - o + 1 = a - position[st] + 1
  BY <1>2, <1>3, <1>5
<1> HIDE DEF D, H, E
<1>13. CASE a \in position[st] .. (position[st] + length - 1)
  <2>1. ~ E /\ D
    BY <1>2, <1>3, <1>5, <1>9, <1>10, <1>12, <1>13
  <2> QED  BY <1>1, <1>12, <1>13, <2>1
<1>14. CASE a \notin position[st] .. (position[st] + length - 1)
  <2>1. ~ D /\ (E \/ H)
    BY <1>2, <1>3, <1>5, <1>9, <1>10, <1>11, <1>12, <1>14
  <2> QED  BY <1>1, <1>14, <2>1
<1> QED  BY <1>13, <1>14

(* The disk after n bytes of in are written at the stream's position, and  *)
(* after the driver wrote that many sectors of diskStreamWrite's buffer.   *)
Written(st, in, n) ==
    [a \in Address |-> IF a \in position[st] .. (position[st] + n - 1)
                      THEN in[a - position[st] + 1] ELSE disk[a]]

SectorsPut(st, in, length, done) ==
    [a \in Address |-> IF a \in SectorBytes(currLba(st), done)
                      THEN WriteBuffer(st, in, length)[a] ELSE disk[a]]

(* A driver that wrote the first sectors of the buffer wrote the first     *)
(* bytes of the transfer, all of them if it wrote all sectors.             *)
LEMMA SectorsWritten ==
    ASSUME NEW st \in Streams, position[st] \in Nat, NEW length \in Nat \ {0}, NEW in,
           NEW done \in 0 .. totalLba(st, length)
    PROVE  \E n \in 0 .. length :
              /\ done = totalLba(st, length) => n = length
              /\ SectorsPut(st, in, length, done) = Written(st, in, n)
<1> DEFINE L == currLba(st)
           o == currLbaPos(st)
           T == totalLba(st, length)
           start == L * SECTOR
           stop == (L + T) * SECTOR
           X == (L + done) * SECTOR
           pos == position[st]
           WB == WriteBuffer(st, in, length)
           n == IF X <= pos THEN 0 ELSE IF X >= pos + length THEN length ELSE X - pos
<1>1. /\ L \in Nat /\ T \in Nat \ {0} /\ SECTOR \in Nat \ {0} /\ done \in Nat /\ done <= T
      /\ start \in Nat /\ pos \in Nat /\ o \in Nat /\ pos = start + o
      /\ stop = start + (T * SECTOR) /\ T * SECTOR \in Nat
      /\ o + length <= T * SECTOR
  BY Extent, DiskAssumption
<1> HIDE DEF L, T, o, pos
<1>2. start <= X /\ X <= stop /\ X \in Nat /\ stop \in Nat
  BY <1>1, TimesMonotone
<1>3. SectorBytes(L, done) = start .. (X - 1) /\ SectorBytes(L, T) = start .. (stop - 1)
  BY DEF SectorBytes
<1>4. pos + length <= stop
  <2> HIDE DEF stop, start, X
  <2> QED  BY <1>1
<1> HIDE DEF start, stop, X
<1>5. n \in 0 .. length /\ (done = T => n = length)
  <2>1. done = T => X = stop
    BY DEF X, stop
  <2> QED  BY <1>1, <1>2, <1>4, <2>1
<1>6. ASSUME NEW a \in Nat
      PROVE  (IF a \in SectorBytes(L, done) THEN WB[a] ELSE disk[a])
             = IF a \in pos .. (pos + n - 1) THEN in[a - pos + 1] ELSE disk[a]
  <2>1. a \in pos .. (pos + n - 1) <=> a \in pos .. (pos + length - 1) /\ a < X
    BY <1>1, <1>2
  <2> HIDE DEF n
  <2>2. CASE a \in SectorBytes(L, done)
    <3>1. a \in SectorBytes(L, T) /\ a < X
      BY <1>1, <1>2, <1>3, <2>2
    <3>2. WB[a] = IF a \in pos .. (pos + length - 1) THEN in[a - pos + 1] ELSE disk[a]
      BY <3>1, WriteBufferExact DEF L, T, pos, WB
    <3> HIDE DEF WB
    <3> QED  BY <2>1, <2>2, <3>1, <3>2
  <2>3. CASE a \notin SectorBytes(L, done)
    <3>1. ~ (a \in pos .. (pos + length - 1) /\ a < X)
      BY <1>1, <1>2, <1>3, <2>3
    <3> HIDE DEF WB
    <3> QED  BY <2>1, <2>3, <3>1
  <2> QED  BY <2>2, <2>3
<1> HIDE DEF n
<1>7. Address \subseteq Nat
  BY DiskAssumption DEF Address, sizeBytes
<1>8. SectorsPut(st, in, length, done) = Written(st, in, n)
  BY <1>6, <1>7, Zenon DEF L, pos, WB, SectorsPut, Written
<1> QED  BY <1>5, <1>8 DEF T
-----------------------------------------------------------------------------
(* The partitions lie on the disk.                                         *)
LEMMA OnDisk ==
    /\ sizeBytes \in Nat \ {0}
    /\ \A l \in Labels : /\ Partition[l].offsetBytes \in Nat
                         /\ Partition[l].sizeBytes \in Nat \ {0}
                         /\ Partition[l].offsetBytes + Partition[l].sizeBytes <= sizeBytes
<1>1. sizeBytes \in Nat \ {0}
  BY DiskAssumption DEF sizeBytes
<1> SUFFICES ASSUME NEW l \in Labels
             PROVE  /\ Partition[l].offsetBytes \in Nat
                    /\ Partition[l].sizeBytes \in Nat \ {0}
                    /\ Partition[l].offsetBytes + Partition[l].sizeBytes <= sizeBytes
  BY <1>1
<1> DEFINE o == Partition[l].offsetBytes
           s == Partition[l].sizeBytes
<1>2. o \in Nat /\ s \in Nat \ {0} /\ o .. (o + s - 1) \subseteq Address
  BY PartitionAssumption DEF PartitionBytes
<1> HIDE DEF o, s
<1>3. o + s - 1 \in o .. (o + s - 1)
  BY <1>2
<1>4. o + s - 1 \in 0 .. (sizeBytes - 1)
  BY <1>2, <1>3 DEF Address
<1> QED  BY <1>1, <1>2, <1>4 DEF o, s

(* What diskStreamWrite does, whatever it returns: the first n bytes of    *)
(* the transfer are replaced, all of them if it reports success, none if   *)
(* the transfer does not fit on the disk.                                  *)
LEMMA WriteEffect ==
    ASSUME NEW st \in Streams, position[st] \in Nat, NEW length \in Nat \ {0}, NEW in,
           disk \in [Address -> Byte],
           NEW ret, diskStreamWrite(st, in, length, ret)
    PROVE  /\ ret \in Results
           /\ ret = 0 => Fits(st, length)
           /\ position' = IF ret = 0 THEN [position EXCEPT ![st] = @ + length] ELSE position
           /\ \E n \in 0 .. length :
                 /\ ret = 0 => n = length
                 /\ n > 0 => Fits(st, length)
                 /\ disk' = Written(st, in, n)
<1>1. CASE UNCHANGED <<disk, position>> /\ ret \in Results /\ ret # 0
  <2>1. disk' = Written(st, in, 0)
    BY <1>1 DEF Written
  <2>2. 0 \in 0 .. length
    OBVIOUS
  <2> QED  BY <1>1, <2>1, <2>2
<1>2. CASE /\ Fits(st, length)
           /\ driverWrite(currLba(st), totalLba(st, length), WriteBuffer(st, in, length), ret)
           /\ position' = IF ret = 0 THEN [position EXCEPT ![st] = @ + length]
                                     ELSE position
  <2>1. PICK done \in 0 .. totalLba(st, length) :
           /\ ret = IF done = totalLba(st, length) THEN 0 ELSE -EIO
           /\ disk' = SectorsPut(st, in, length, done)
    BY <1>2 DEF driverWrite, SectorsPut
  <2>2. PICK n \in 0 .. length :
              /\ done = totalLba(st, length) => n = length
              /\ SectorsPut(st, in, length, done) = Written(st, in, n)
    BY SectorsWritten
  <2>3. ret \in Results /\ (ret = 0 => done = totalLba(st, length))
    BY <2>1 DEF Results, EIO
  <2> QED  BY <1>2, <2>1, <2>2, <2>3
<1>3. -ENMEM \in Results /\ -ENMEM # 0 /\ \A r : driverRead(r) => r \in Results
  BY DEF Results, ENMEM, driverRead
<1> QED  BY <1>1, <1>2, <1>3 DEF diskStreamWrite, NoMemory
-----------------------------------------------------------------------------
(* An open stream is on the disk and in its partition.                     *)
LEMMA OpenStream ==
    ASSUME StreamInv, NEW st \in Streams, partPosition[st] # Closed
    PROVE  /\ volume[st] \in Labels
           /\ volumeOffset(st) \in Nat /\ volumeSize(st) \in Nat \ {0}
           /\ sizeBytes \in Nat /\ volumeOffset(st) + volumeSize(st) <= sizeBytes
           /\ partPosition[st] \in 0 .. volumeSize(st)
           /\ position[st] \in 0 .. sizeBytes
           /\ \/ position[st] = volumeOffset(st) + partPosition[st]
              \/ position[st] = sizeBytes
<1>1. /\ volume[st] \in Labels
      /\ volumeOffset(st) \in Nat /\ volumeSize(st) \in Nat \ {0}
      /\ sizeBytes \in Nat /\ volumeOffset(st) + volumeSize(st) <= sizeBytes
  BY OnDisk DEF StreamInv, TypeOK, volumeOffset, volumeSize
<1>2. partPosition[st] \in 0 .. volumeSize(st)
  BY <1>1 DEF StreamInv, TypeOK
<1>3. \/ position[st] = volumeOffset(st) + partPosition[st]
      \/ position[st] = sizeBytes
  BY DEF StreamInv, InSyncOrAtEnd
<1>4. position[st] \in 0 .. sizeBytes
  BY <1>1, <1>2, <1>3
<1> QED  BY <1>1, <1>2, <1>3, <1>4

(* A transfer that fits is made where the partition position says.         *)
LEMMA FitsInSync ==
    ASSUME StreamInv, NEW st \in Streams, partPosition[st] # Closed,
           NEW length \in Nat, Fits(st, length)
    PROVE  position[st] = volumeOffset(st) + partPosition[st]
BY OpenStream DEF Fits, checkDiskStream, ENMEM

(* The positions a call leaves behind are right if those of its own stream *)
(* are.                                                                    *)
LEMMA PositionsMove ==
    ASSUME StreamInv, NEW st \in Streams, NEW p, NEW q, NEW l \in Labels,
           position' = [position EXCEPT ![st] = p],
           partPosition' = [partPosition EXCEPT ![st] = q],
           volume' = [volume EXCEPT ![st] = l],
           p \in {Closed} \cup 0 .. sizeBytes,
           q \in {Closed} \cup 0 .. Partition[l].sizeBytes,
           IF q = Closed THEN p = Closed
           ELSE p = Partition[l].offsetBytes + q \/ p = sizeBytes
    PROVE  /\ position' \in [Streams -> {Closed} \cup 0 .. sizeBytes]
           /\ volume' \in [Streams -> Labels]
           /\ partPosition' \in [Streams -> {Closed} \cup Nat]
           /\ \A t \in Streams : partPosition'[t] <= volumeSize(t)'
           /\ InSyncOrAtEnd'
<1>1. /\ position \in [Streams -> {Closed} \cup 0 .. sizeBytes]
      /\ volume \in [Streams -> Labels]
      /\ partPosition \in [Streams -> {Closed} \cup Nat]
      /\ \A t \in Streams : partPosition[t] <= volumeSize(t)
      /\ InSyncOrAtEnd
  BY DEF StreamInv, TypeOK
<1>2. Partition[l].sizeBytes \in Nat
  BY OnDisk
<1>3. q <= Partition[l].sizeBytes /\ q \in {Closed} \cup Nat
  BY <1>2 DEF Closed
<1>4. /\ position' \in [Streams -> {Closed} \cup 0 .. sizeBytes]
      /\ volume' \in [Streams -> Labels]
      /\ partPosition' \in [Streams -> {Closed} \cup Nat]
  BY <1>1, <1>3
<1>5. \A t \in Streams : partPosition'[t] <= volumeSize(t)'
  BY <1>1, <1>3 DEF volumeSize
<1>6. InSyncOrAtEnd'
  BY <1>1 DEF InSyncOrAtEnd, volumeOffset
<1> QED  BY <1>4, <1>5, <1>6

(* Nothing of the invariant is about anything but the positions, the       *)
(* volumes, the types of the disk and of the reply.                        *)
LEMMA PositionsStay ==
    ASSUME StreamInv, UNCHANGED <<position, volume, partPosition>>
    PROVE  /\ position' \in [Streams -> {Closed} \cup 0 .. sizeBytes]
           /\ volume' \in [Streams -> Labels]
           /\ partPosition' \in [Streams -> {Closed} \cup Nat]
           /\ \A t \in Streams : partPosition'[t] <= volumeSize(t)'
           /\ InSyncOrAtEnd'
BY DEF StreamInv, TypeOK, InSyncOrAtEnd, volumeOffset, volumeSize

LEMMA ReplyTyped ==
    ASSUME NEW op, NEW ret \in Results, NEW data, Said(op, ret, data),
           data = <<>> \/ \E n \in Lengths : DOMAIN data = 1 .. n
    PROVE  reply'.ret \in Results /\ DOMAIN reply'.data \in {1 .. n : n \in Lengths \cup {0}}
<1>1. reply'.ret = ret /\ reply'.data = data
  BY DEF Said
<1>2. DOMAIN <<>> = 1 .. 0
  OBVIOUS
<1>3. DOMAIN data \in {1 .. n : n \in Lengths \cup {0}}
  BY <1>2
<1> QED  BY <1>1, <1>3

LEMMA WrittenTyped ==
    ASSUME disk \in [Address -> Byte], NEW st \in Streams, position[st] \in Nat,
           NEW length \in Nat, NEW in \in [1 .. length -> Byte], NEW n \in 0 .. length
    PROVE  Written(st, in, n) \in [Address -> Byte]
<1>1. Address \subseteq Nat
  BY OnDisk DEF Address
<1>2. ASSUME NEW a \in Address, a \in position[st] .. (position[st] + n - 1)
      PROVE  a - position[st] + 1 \in 1 .. length
  BY <1>1, <1>2
<1> QED  BY <1>2 DEF Written

(* One step per call; the conjuncts are about the disk, the positions and  *)
(* the reply.                                                              *)
LEMMA StreamStep == StreamInv /\ [Next]_vars => StreamInv'
<1> SUFFICES ASSUME StreamInv, [Next]_vars  PROVE StreamInv'
  OBVIOUS
<1>d. disk \in [Address -> Byte] /\ disk' = disk => disk' \in [Address -> Byte]
  BY DEF StreamInv, TypeOK
<1>r. 0 \in Results /\ -EDISKSPACE \in Results /\ -ENMEM \in Results
  BY DEF Results
<1>c. ASSUME disk' \in [Address -> Byte], volume' \in [Streams -> Labels],
             position' \in [Streams -> {Closed} \cup 0 .. sizeBytes],
             partPosition' \in [Streams -> {Closed} \cup Nat],
             \A t \in Streams : partPosition'[t] <= volumeSize(t)', InSyncOrAtEnd',
             reply'.ret \in Results, DOMAIN reply'.data \in {1 .. n : n \in Lengths \cup {0}}
      PROVE  StreamInv'
  BY <1>c DEF StreamInv, TypeOK
<1>1. ASSUME NEW st \in Streams, NEW l \in Labels, partitionStreamCreate(st, l)
      PROVE  StreamInv'
  <2>1. CASE /\ position' = [position EXCEPT ![st] = Partition[l].offsetBytes + 0]
             /\ volume' = [volume EXCEPT ![st] = l]
             /\ partPosition' = [partPosition EXCEPT ![st] = 0]
             /\ Said("create", 0, <<>>)
    <3>1. /\ Partition[l].offsetBytes + 0 \in 0 .. sizeBytes
          /\ 0 \in 0 .. Partition[l].sizeBytes /\ 0 # Closed
      BY OnDisk DEF Closed
    <3> QED  BY <1>1, <1>c, <1>d, <1>r, <2>1, <3>1, PositionsMove, ReplyTyped
             DEF partitionStreamCreate, StreamInv, TypeOK
  <2>2. CASE Said("create", -ENMEM, <<>>) /\ UNCHANGED <<position, volume, partPosition>>
    BY <1>1, <1>c, <1>d, <1>r, <2>2, PositionsStay, ReplyTyped
    DEF partitionStreamCreate, StreamInv, TypeOK
  <2> QED  BY <1>1, <2>1, <2>2 DEF partitionStreamCreate
<1>2. ASSUME NEW st \in Streams, NEW pos \in 0 .. volumeSize(st), partitionStreamSeek(st, pos)
      PROVE  StreamInv'
  <2>1. partPosition[st] # Closed /\ disk' \in [Address -> Byte] /\ volume' = volume
    BY <1>2, <1>d DEF partitionStreamSeek, StreamInv, TypeOK
  <2>2. volume' = [volume EXCEPT ![st] = volume[st]]
    BY <2>1 DEF StreamInv, TypeOK
  <2>3. CASE pos < volumeSize(st)
    <3>1. PICK ret \in Results : diskStreamSeek(st, volumeOffset(st) + pos, ret)
      BY <1>2, <2>3 DEF partitionStreamSeek
    <3>2. partPosition' = [partPosition EXCEPT ![st] = pos] /\ Said("seek", 0, <<>>)
      BY <1>2, <2>3 DEF partitionStreamSeek
    <3>3. PICK p \in {volumeOffset(st) + pos, sizeBytes} : position' = [position EXCEPT ![st] = p]
      <4>1. CASE checkDiskStream(st) # 0
        <5>1. position[st] = sizeBytes
          BY <2>1, <4>1, OpenStream DEF checkDiskStream
        <5>2. position' = position
          BY <3>1, <4>1 DEF diskStreamSeek
        <5>3. position' = [position EXCEPT ![st] = sizeBytes]
          BY <5>1, <5>2 DEF StreamInv, TypeOK
        <5> QED  BY <5>3
      <4>2. CASE checkDiskStream(st) = 0
        <5>1. ~ (volumeOffset(st) + pos > sizeBytes * 512)
          BY <2>1, <2>3, OpenStream
        <5>2. position' = [position EXCEPT ![st] = volumeOffset(st) + pos]
          BY <3>1, <4>2, <5>1 DEF diskStreamSeek
        <5> QED  BY <5>2
      <4> QED  BY <4>1, <4>2
    <3>4. /\ p \in 0 .. sizeBytes /\ pos \in 0 .. volumeSize(st) /\ pos # Closed
          /\ volume[st] \in Labels
      BY <2>1, <2>3, OpenStream DEF Closed
    <3> QED  BY <1>c, <1>r, <2>1, <2>2, <3>2, <3>3, <3>4, PositionsMove, ReplyTyped
             DEF volumeOffset, volumeSize
  <2>4. CASE ~ (pos < volumeSize(st))
    BY <1>2, <1>c, <1>r, <2>1, <2>4, PositionsStay, ReplyTyped DEF partitionStreamSeek
  <2> QED  BY <2>3, <2>4
<1>3. ASSUME NEW st \in Streams, partPosition[st] # Closed, NEW length \in Lengths,
             volume' = volume, NEW ret, ~ TooLong(st, length), Advance(st, length, ret),
             ret = 0 => Fits(st, length),
             position' = IF ret = 0 THEN [position EXCEPT ![st] = @ + length] ELSE position
      PROVE  /\ position' \in [Streams -> {Closed} \cup 0 .. sizeBytes]
             /\ volume' \in [Streams -> Labels]
             /\ partPosition' \in [Streams -> {Closed} \cup Nat]
             /\ \A t \in Streams : partPosition'[t] <= volumeSize(t)'
             /\ InSyncOrAtEnd'
  <2>1. CASE ret = 0
    <3> DEFINE p == position[st] + length
               q == partPosition[st] + length
    <3>1. length \in Nat \ {0}
      BY PartitionAssumption
    <3>2. position[st] = volumeOffset(st) + partPosition[st]
      BY <1>3, <2>1, <3>1, FitsInSync
    <3>3. /\ p \in 0 .. sizeBytes /\ q \in 0 .. volumeSize(st) /\ q # Closed
          /\ p = volumeOffset(st) + q /\ volume[st] \in Labels
      BY <1>3, <2>1, <3>1, <3>2, OpenStream DEF Fits, TooLong, Closed
    <3>4. /\ position' = [position EXCEPT ![st] = p]
          /\ partPosition' = [partPosition EXCEPT ![st] = q]
          /\ volume' = [volume EXCEPT ![st] = volume[st]]
      BY <1>3, <2>1 DEF Advance, StreamInv, TypeOK
    <3> HIDE DEF p, q
    <3> QED  BY <3>3, <3>4, PositionsMove DEF volumeOffset, volumeSize
  <2>2. CASE ret # 0
    BY <1>3, <2>2, PositionsStay DEF Advance
  <2> QED  BY <2>1, <2>2
<1>4. ASSUME NEW st \in Streams, NEW length \in Lengths, partitionStreamRead(st, length)
      PROVE  StreamInv'
  <2>1. CASE TooLong(st, length)
    BY <1>4, <1>c, <1>d, <1>r, <2>1, PositionsStay, ReplyTyped
    DEF partitionStreamRead, StreamInv, TypeOK
  <2>2. CASE ~ TooLong(st, length)
    <3>1. PICK ret \in Results :
             /\ diskStreamRead(st, length, ret)
             /\ Advance(st, length, ret)
             /\ Said("read", ret, IF ret = 0 THEN ReadBytes(st, length) ELSE <<>>)
      BY <1>4, <2>2 DEF partitionStreamRead
    <3>2. /\ ret = 0 => Fits(st, length)
          /\ position' = IF ret = 0 THEN [position EXCEPT ![st] = @ + length] ELSE position
          /\ disk' = disk
      BY <3>1 DEF diskStreamRead, NoMemory, ENMEM
    <3>3. DOMAIN ReadBytes(st, length) = 1 .. length
      BY DEF ReadBytes
    <3>4. reply'.ret \in Results /\ DOMAIN reply'.data \in {1 .. n : n \in Lengths \cup {0}}
      BY <3>1, <3>3, ReplyTyped
    <3>5. partPosition[st] # Closed /\ volume' = volume
      BY <1>4 DEF partitionStreamRead
    <3> QED  BY <1>3, <1>c, <1>d, <2>2, <3>1, <3>2, <3>4, <3>5 DEF StreamInv, TypeOK
  <2> QED  BY <2>1, <2>2
<1>5. ASSUME NEW st \in Streams, NEW length \in Lengths, NEW in \in [1 .. length -> Byte],
             partitionStreamWrite(st, in, length)
      PROVE  StreamInv'
  <2>1. CASE TooLong(st, length)
    BY <1>5, <1>c, <1>d, <1>r, <2>1, PositionsStay, ReplyTyped
    DEF partitionStreamWrite, StreamInv, TypeOK
  <2>2. CASE ~ TooLong(st, length)
    <3>1. PICK ret \in Results : /\ diskStreamWrite(st, in, length, ret)
                                 /\ Advance(st, length, ret)
                                 /\ Said("write", ret, <<>>)
      BY <1>5, <2>2 DEF partitionStreamWrite
    <3>2. /\ partPosition[st] # Closed /\ volume' = volume /\ length \in Nat \ {0}
          /\ position[st] \in Nat /\ disk \in [Address -> Byte]
      BY <1>5, OpenStream, PartitionAssumption DEF partitionStreamWrite, StreamInv, TypeOK
    <3>3. /\ ret = 0 => Fits(st, length)
          /\ position' = IF ret = 0 THEN [position EXCEPT ![st] = @ + length] ELSE position
          /\ \E n \in 0 .. length : disk' = Written(st, in, n)
      BY <3>1, <3>2, WriteEffect
    <3>4. disk' \in [Address -> Byte]
      BY <3>2, <3>3, WrittenTyped
    <3>5. reply'.ret \in Results /\ DOMAIN reply'.data \in {1 .. n : n \in Lengths \cup {0}}
      BY <3>1, ReplyTyped
    <3> QED  BY <1>3, <1>c, <2>2, <3>1, <3>2, <3>3, <3>4, <3>5
  <2> QED  BY <2>1, <2>2
<1>6. ASSUME NEW st \in Streams, partitionStreamDestroy(st)
      PROVE  StreamInv'
  <2>1. volume' = [volume EXCEPT ![st] = volume[st]] /\ volume[st] \in Labels
    BY <1>6 DEF partitionStreamDestroy, StreamInv, TypeOK
  <2> QED  BY <1>6, <1>c, <1>d, <1>r, <2>1, PositionsMove, ReplyTyped
           DEF partitionStreamDestroy, StreamInv, TypeOK
<1>7. CASE UNCHANGED vars
  BY <1>7, <1>c, <1>d, PositionsStay DEF vars, StreamInv, TypeOK
<1> QED  BY <1>1, <1>2, <1>4, <1>5, <1>6, <1>7 DEF Next

LEMMA StreamStart == Init => StreamInv
<1> SUFFICES ASSUME Init  PROVE StreamInv
  OBVIOUS
<1>1. disk \in [Address -> Byte] /\ volume \in [Streams -> Labels]
  BY PartitionAssumption DEF Init
<1>2. \A st \in Streams : Closed <= volumeSize(st)
  BY <1>1, OnDisk DEF volumeSize, Closed
<1>3. reply.ret \in Results /\ DOMAIN reply.data \in {1 .. n : n \in Lengths \cup {0}}
  <2>1. DOMAIN <<>> = 1 .. 0
    OBVIOUS
  <2> QED  BY <2>1 DEF Init, Results
<1> QED  BY <1>1, <1>2, <1>3 DEF Init, StreamInv, TypeOK, InSyncOrAtEnd

(* Whatever is opened, sought, read, written and destroyed, and whatever   *)
(* fails: stream positions stay on the disk and in their partition, and    *)
(* agree until the end of the disk (stream.c, partitionStream.c).          *)
THEOREM StreamsSafe == Spec => []StreamInv
<1> QED  BY StreamStart, StreamStep, PTL DEF Spec
-----------------------------------------------------------------------------
PartWritten(st, in, n) ==
    [a \in Address |->
        IF a - volumeOffset(st) \in partPosition[st] .. (partPosition[st] + n - 1)
        THEN in[a - volumeOffset(st) - partPosition[st] + 1] ELSE disk[a]]

(* What a write that has been tried leaves on the disk is the first n      *)
(* bytes of the transfer, at the partition position and inside of the      *)
(* partition.                                                              *)
LEMMA WriteInPartition ==
    ASSUME StreamInv, NEW st \in Streams, partPosition[st] # Closed,
           NEW length \in Lengths, NEW in, ~ TooLong(st, length),
           NEW ret, diskStreamWrite(st, in, length, ret)
    PROVE  \E n \in 0 .. length :
              /\ ret = 0 => n = length
              /\ disk' = PartWritten(st, in, n)
<1> DEFINE off == volumeOffset(st)
           part == partPosition[st]
<1>1. /\ length \in Nat \ {0} /\ position[st] \in Nat /\ disk \in [Address -> Byte]
      /\ off \in Nat /\ part \in Nat
  BY OpenStream, PartitionAssumption DEF StreamInv, TypeOK
<1>2. PICK n \in 0 .. length : /\ ret = 0 => n = length
                               /\ n > 0 => Fits(st, length)
                               /\ disk' = Written(st, in, n)
  BY <1>1, WriteEffect
<1>3. n > 0 => position[st] = off + part
  <2> SUFFICES ASSUME Fits(st, length)  PROVE position[st] = off + part
    BY <1>2
  <2> QED  BY <1>1, FitsInSync
<1>4. Address \subseteq Nat
  BY OnDisk DEF Address
<1> HIDE DEF off, part
<1>5. ASSUME NEW a \in Address
      PROVE  (IF a \in position[st] .. (position[st] + n - 1)
              THEN in[a - position[st] + 1] ELSE disk[a])
             = IF a - off \in part .. (part + n - 1)
               THEN in[a - off - part + 1] ELSE disk[a]
  <2>2. CASE n = 0
    <3>1. a \notin position[st] .. (position[st] + n - 1) /\ a - off \notin part .. (part + n - 1)
      BY <1>1, <1>4, <2>2
    <3> QED  BY <3>1
  <2>3. CASE n > 0
    <3>1. /\ a \in position[st] .. (position[st] + n - 1) <=> a - off \in part .. (part + n - 1)
          /\ a - position[st] + 1 = a - off - part + 1
      BY <1>1, <1>3, <1>4, <2>3
    <3> QED  BY <3>1
  <2> QED  BY <1>1, <2>2, <2>3
<1>6. Written(st, in, n) = PartWritten(st, in, n)
  BY <1>5, Zenon DEF Written, PartWritten, off, part
<1> QED  BY <1>2, <1>6

(* A byte written belongs to the partition of the stream.                  *)
LEMMA InPartition ==
    ASSUME StreamInv, NEW st \in Streams, partPosition[st] # Closed,
           NEW length \in Lengths, ~ TooLong(st, length),
           NEW n \in 0 .. length, NEW a \in Address,
           a - volumeOffset(st) \in partPosition[st] .. (partPosition[st] + n - 1)
    PROVE  a \in PartitionBytes(volume[st])
<1>1. length \in Nat /\ a \in Nat
  BY PartitionAssumption, OnDisk DEF Address
<1>2. a \in volumeOffset(st) .. (volumeOffset(st) + volumeSize(st) - 1)
  BY <1>1, OpenStream DEF TooLong
<1> QED  BY <1>2 DEF PartitionBytes, volumeOffset, volumeSize

(* A call changes bytes of one partition at most, although diskStreamWrite *)
(* writes back the whole of the sectors it shares with its neighbours.     *)
THEOREM NeighboursSafe == Spec => NeighboursUntouched
<1> DEFINE OnlyOne == \E l \in Labels : \A a \in Address \ PartitionBytes(l) : disk'[a] = disk[a]
<1>1. StreamInv /\ [Next]_vars => [OnlyOne]_vars
  <2> SUFFICES ASSUME StreamInv, Next  PROVE OnlyOne
    OBVIOUS
  <2>1. disk' = disk => OnlyOne
    BY PartitionAssumption
  <2>2. ASSUME NEW st \in Streams, NEW length \in Lengths, NEW in \in [1 .. length -> Byte],
               partitionStreamWrite(st, in, length), ~ TooLong(st, length)
        PROVE  OnlyOne
    <3>1. PICK ret \in Results : diskStreamWrite(st, in, length, ret)
      BY <2>2 DEF partitionStreamWrite
    <3>2. partPosition[st] # Closed
      BY <2>2 DEF partitionStreamWrite
    <3>3. PICK n \in 0 .. length :
             disk' = PartWritten(st, in, n)
      BY <2>2, <3>1, <3>2, WriteInPartition
    <3>4. \A a \in Address \ PartitionBytes(volume[st]) : disk'[a] = disk[a]
      <4> SUFFICES ASSUME NEW a \in Address, a \notin PartitionBytes(volume[st])
                   PROVE  disk'[a] = disk[a]
        OBVIOUS
      <4>1. a - volumeOffset(st) \notin partPosition[st] .. (partPosition[st] + n - 1)
        BY <2>2, <3>2, InPartition
      <4> QED  BY <3>3, <4>1 DEF PartWritten
    <3>5. volume[st] \in Labels
      BY <3>2, OpenStream
    <3> QED  BY <3>4, <3>5
  <2>3. ASSUME NEW st \in Streams, NEW length \in Lengths, partitionStreamRead(st, length)
        PROVE  disk' = disk
    BY <2>3 DEF partitionStreamRead, diskStreamRead, NoMemory
  <2> QED  BY <2>1, <2>2, <2>3 DEF Next, partitionStreamCreate, partitionStreamSeek,
                                   partitionStreamWrite, partitionStreamDestroy
<1> QED  BY <1>1, StreamsSafe, PTL DEF Spec, NeighboursUntouched
-----------------------------------------------------------------------------
(* The partitions as Volume sees them, and the bytes of one of them after  *)
(* n bytes of in have been written to it through st.                       *)
Vol == [l \in Labels |-> [i \in 0 .. (Partition[l].sizeBytes - 1) |->
                            disk[Partition[l].offsetBytes + i]]]

BytesReplaced(st, in, n) ==
    [i \in 0 .. (volumeSize(st) - 1) |->
        IF i \in partPosition[st] .. (partPosition[st] + n - 1)
        THEN in[i - partPosition[st] + 1] ELSE Vol[volume[st]][i]]

(* Bytes written through a stream are bytes of its own array and of no     *)
(* other, since partitions do not overlap.                                 *)
LEMMA VolumeReplaced ==
    ASSUME StreamInv, NEW st \in Streams, partPosition[st] # Closed,
           NEW length \in Lengths, ~ TooLong(st, length), NEW in,
           NEW n \in 0 .. length, disk' = PartWritten(st, in, n)
    PROVE  Vol' = [Vol EXCEPT ![volume[st]] = BytesReplaced(st, in, n)]
<1> DEFINE v == volume[st]
<1>1. v \in Labels
  BY OpenStream
<1>2. ASSUME NEW l \in Labels, NEW i \in 0 .. (Partition[l].sizeBytes - 1)
      PROVE  Partition[l].offsetBytes + i \in PartitionBytes(l) \cap Address
  BY <1>2, OnDisk, PartitionAssumption DEF PartitionBytes
<1>3. ASSUME NEW l \in Labels, l # v, NEW i \in 0 .. (Partition[l].sizeBytes - 1)
      PROVE  disk'[Partition[l].offsetBytes + i] = disk[Partition[l].offsetBytes + i]
  <2> DEFINE a == Partition[l].offsetBytes + i
  <2>1. a \in PartitionBytes(l) /\ a \in Address
    BY <1>2, <1>3
  <2>2. a \notin PartitionBytes(v)
    BY <1>1, <1>3, <2>1, PartitionAssumption
  <2> HIDE DEF a
  <2>3. a - volumeOffset(st) \notin partPosition[st] .. (partPosition[st] + n - 1)
    BY <2>1, <2>2, InPartition
  <2>4. disk'[a] = disk[a]
    BY <2>1, <2>3 DEF PartWritten
  <2> QED  BY <2>4 DEF a
<1>4. ASSUME NEW i \in 0 .. (Partition[v].sizeBytes - 1)
      PROVE  disk'[Partition[v].offsetBytes + i] =
                IF i \in partPosition[st] .. (partPosition[st] + n - 1)
                THEN in[i - partPosition[st] + 1] ELSE disk[Partition[v].offsetBytes + i]
  <2> DEFINE a == Partition[v].offsetBytes + i
  <2>1. a \in Address
    BY <1>1, <1>2
  <2>2. a - volumeOffset(st) = i
    BY <1>1, OnDisk DEF volumeOffset
  <2>3. disk'[a] = IF a - volumeOffset(st) \in partPosition[st] .. (partPosition[st] + n - 1)
                   THEN in[a - volumeOffset(st) - partPosition[st] + 1] ELSE disk[a]
    <3> HIDE DEF a
    <3> QED  BY <2>1 DEF PartWritten
  <2> HIDE DEF a
  <2>4. disk'[a] = IF i \in partPosition[st] .. (partPosition[st] + n - 1)
                   THEN in[i - partPosition[st] + 1] ELSE disk[a]
    BY <2>2, <2>3
  <2> QED  BY <2>4 DEF a
<1>5. ASSUME NEW l \in Labels, l # v  PROVE Vol'[l] = Vol[l]
  BY <1>3, <1>5 DEF Vol
<1>6. Vol'[v] = BytesReplaced(st, in, n)
  <2>1. \A i \in 0 .. (Partition[v].sizeBytes - 1) :
           Vol[v][i] = disk[Partition[v].offsetBytes + i]
    BY <1>1 DEF Vol
  <2>2. Vol'[v] = [i \in 0 .. (Partition[v].sizeBytes - 1) |->
                     disk'[Partition[v].offsetBytes + i]]
    BY <1>1 DEF Vol
  <2>3. \A i \in 0 .. (Partition[v].sizeBytes - 1) :
           disk'[Partition[v].offsetBytes + i] =
              IF i \in partPosition[st] .. (partPosition[st] + n - 1)
              THEN in[i - partPosition[st] + 1] ELSE Vol[v][i]
    <3> HIDE DEF Vol
    <3> QED  BY <1>4, <2>1
  <2> HIDE DEF Vol
  <2> QED  BY <2>2, <2>3, Zenon DEF BytesReplaced, volumeSize
<1> HIDE DEF v
<1>7. DOMAIN Vol = Labels /\ DOMAIN Vol' = Labels
  BY DEF Vol
<1>8. /\ Vol = [l \in Labels |-> Vol[l]]
      /\ Vol' = [l \in Labels |-> Vol'[l]]
  BY DEF Vol
<1> HIDE DEF Vol
<1> QED  BY <1>1, <1>5, <1>6, <1>8 DEF v

(* A successful read yields the bytes under the partition position.        *)
LEMMA ReadExact ==
    ASSUME StreamInv, NEW st \in Streams, partPosition[st] # Closed,
           NEW length \in Lengths, ~ TooLong(st, length), Fits(st, length)
    PROVE  ReadBytes(st, length) =
              [k \in 1 .. length |-> Vol[volume[st]][partPosition[st] + k - 1]]
<1> DEFINE L == currLba(st)
           o == currLbaPos(st)
           T == totalLba(st, length)
           start == L * SECTOR
           stop == (L + T) * SECTOR
           off == volumeOffset(st)
           part == partPosition[st]
<1>1. length \in Nat \ {0} /\ position[st] \in Nat
  BY OpenStream, PartitionAssumption
<1>2. /\ start \in Nat /\ T * SECTOR \in Nat /\ stop = start + (T * SECTOR) /\ o \in Nat
      /\ position[st] = start + o
      /\ o + length <= T * SECTOR
  BY <1>1, Extent
<1>3. /\ position[st] = off + part /\ off \in Nat /\ part \in Nat
      /\ part + length <= volumeSize(st) /\ volumeSize(st) \in Nat /\ volume[st] \in Labels
  BY <1>1, FitsInSync, OpenStream DEF TooLong
<1>4. SectorBytes(L, T) = start .. (stop - 1)
  BY DEF SectorBytes
<1> HIDE DEF L, o, T, start, stop, off, part
<1>5. ASSUME NEW k \in 1 .. length
      PROVE  start + o + k - 1 \in SectorBytes(L, T) /\ part + k - 1 \in 0 .. (volumeSize(st) - 1)
             /\ start + o + k - 1 = off + (part + k - 1)
  BY <1>1, <1>2, <1>3, <1>4, SMTT(40)
<1>6. ReadBytes(st, length) =
         [k \in 1 .. length |-> [a \in SectorBytes(L, T) |-> disk[a]][start + o + k - 1]]
  BY DEF ReadBytes, L, o, T, start
<1>7. ReadBytes(st, length) = [k \in 1 .. length |-> disk[start + o + k - 1]]
  BY <1>5, <1>6
<1>8. \A i \in 0 .. (volumeSize(st) - 1) : Vol[volume[st]][i] = disk[off + i]
  BY <1>3 DEF Vol, volumeSize, volumeOffset, off
<1> QED  BY <1>5, <1>7, <1>8 DEF part

(* The reply of Volume a call maps to.                                     *)
Reply == [op |-> reply.op, ok |-> reply.ret = 0, data |-> reply.data]

LEMMA ReplyMaps ==
    ASSUME NEW op, NEW ret, NEW data, Said(op, ret, data)
    PROVE  /\ ret = 0 => Reply' = [op |-> op, ok |-> TRUE, data |-> data]
           /\ ret # 0 => Reply' = [op |-> op, ok |-> FALSE, data |-> data]
<1>1. reply'.op = op /\ reply'.ret = ret /\ reply'.data = data
  BY DEF Said
<1> QED  BY <1>1, Zenon DEF Reply

(* The substitution of TheVolume, with its expressions named.              *)
LEMMA Mapping ==
    /\ TheVolume!Labels = Labels
    /\ \A st \in Streams : StreamInv => TheVolume!Offsets(volume[st]) = 0 .. (volumeSize(st) - 1)
    /\ \A st \in Streams, length \in Lengths :
          StreamInv /\ ~ TooLong(st, length) => TheVolume!Covers(st, length)
<1>1. TheVolume!Labels = Labels
  BY DEF TheVolume!Labels
<1>2. ASSUME StreamInv, NEW st \in Streams
      PROVE  [l \in Labels |-> Partition[l].sizeBytes][volume[st]] = volumeSize(st)
  BY <1>2 DEF StreamInv, TypeOK, volumeSize
<1>3. ASSUME StreamInv, NEW st \in Streams
      PROVE  TheVolume!Offsets(volume[st]) = 0 .. (volumeSize(st) - 1)
  BY <1>2, <1>3 DEF TheVolume!Offsets
<1>4. ASSUME StreamInv, NEW st \in Streams, NEW length \in Lengths, ~ TooLong(st, length)
      PROVE  TheVolume!Covers(st, length)
  <2>1. volumeSize(st) \in Nat /\ partPosition[st] \in Int /\ length \in Nat
    BY <1>4, OnDisk, PartitionAssumption DEF StreamInv, TypeOK, volumeSize, Closed
  <2>2. partPosition[st] + length <= volumeSize(st)
    BY <1>4, <2>1 DEF TooLong
  <2> QED  BY <1>2, <1>4, <2>2 DEF TheVolume!Covers
<1> QED  BY <1>1, <1>3, <1>4

LEMMA VolumeStart == Init => TheVolume!VolumeInit
<1> SUFFICES ASSUME Init  PROVE TheVolume!VolumeInit
  OBVIOUS
<1>1. disk \in [Address -> Byte]
  BY PartitionAssumption DEF Init
<1>2. ASSUME NEW l \in Labels, NEW i \in 0 .. (Partition[l].sizeBytes - 1)
      PROVE  disk[Partition[l].offsetBytes + i] \in Byte
  <2>1. Partition[l].offsetBytes + i \in PartitionBytes(l)
    BY OnDisk DEF PartitionBytes
  <2> QED  BY <1>1, <2>1, PartitionAssumption
<1>3. \A l \in Labels : Vol[l] \in [TheVolume!Offsets(l) -> Byte]
  BY <1>2 DEF Vol, TheVolume!Offsets
<1>4. Reply = [op |-> "none", ok |-> TRUE, data |-> <<>>]
  <2>1. reply.op = "none" /\ reply.ret = 0 /\ reply.data = <<>>
    BY DEF Init
  <2> QED  BY <2>1, Zenon DEF Reply
<1>5. volume \in [Streams -> Labels] /\ partPosition = [st \in Streams |-> -1]
  BY DEF Init, Closed
<1> QED  BY <1>3, <1>4, <1>5, Mapping DEF TheVolume!VolumeInit, Vol, Reply, TheVolume!Nothing

LEMMA VolumeStep ==
    StreamInv /\ [Next]_vars => [TheVolume!VolumeNext]_(TheVolume!volumeVars)
<1> SUFFICES ASSUME StreamInv, [Next]_vars
             PROVE  TheVolume!VolumeNext \/ UNCHANGED TheVolume!volumeVars
  OBVIOUS
<1>v. disk' = disk => Vol' = Vol
  BY DEF Vol
<1>n. -ENMEM # 0 /\ -EDISKSPACE # 0 /\ Closed = -1
  BY DEF ENMEM, EDISKSPACE, Closed
<1>1. ASSUME NEW st \in Streams, NEW l \in Labels, partitionStreamCreate(st, l)
      PROVE  TheVolume!VolumeNext
  <2>1. partPosition[st] = -1 /\ Vol' = Vol
    BY <1>1, <1>v, <1>n DEF partitionStreamCreate
  <2>2. CASE /\ volume' = [volume EXCEPT ![st] = l]
             /\ partPosition' = [partPosition EXCEPT ![st] = 0]
             /\ Said("create", 0, <<>>)
    <3>1. (partPosition'[st] # -1) = TRUE
      BY <2>2 DEF StreamInv, TypeOK
    <3>2. Reply' = [op |-> "create", ok |-> partPosition'[st] # -1, data |-> <<>>]
      BY <2>2, <3>1, ReplyMaps, Zenon
    <3>3. TheVolume!Open(st, l)
      BY <2>1, <2>2, <3>2 DEF TheVolume!Open, Vol, Reply, TheVolume!Nothing
    <3> QED  BY <3>3, Mapping DEF TheVolume!VolumeNext
  <2>3. CASE Said("create", -ENMEM, <<>>) /\ UNCHANGED <<volume, partPosition>>
    <3>1. (partPosition'[st] # -1) = FALSE
      BY <2>1, <2>3
    <3>2. Reply' = [op |-> "create", ok |-> partPosition'[st] # -1, data |-> <<>>]
      BY <1>n, <2>3, <3>1, ReplyMaps, Zenon
    <3>3. TheVolume!Open(st, l)
      BY <2>1, <2>3, <3>2 DEF TheVolume!Open, Vol, Reply, TheVolume!Nothing
    <3> QED  BY <3>3, Mapping DEF TheVolume!VolumeNext
  <2> QED  BY <1>1, <2>2, <2>3 DEF partitionStreamCreate
<1>2. ASSUME NEW st \in Streams, NEW pos \in 0 .. volumeSize(st), partitionStreamSeek(st, pos)
      PROVE  TheVolume!VolumeNext
  <2>1. partPosition[st] # -1 /\ Vol' = Vol /\ volume' = volume
    BY <1>2, <1>v, <1>n DEF partitionStreamSeek
  <2>2. CASE pos < volumeSize(st)
    <3>1. partPosition' = [partPosition EXCEPT ![st] = pos] /\ Said("seek", 0, <<>>)
      BY <1>2, <2>2 DEF partitionStreamSeek
    <3>2. Reply' = [op |-> "seek", ok |-> TRUE, data |-> <<>>]
      BY <3>1, ReplyMaps
    <3>3. pos \in TheVolume!Offsets(volume[st])
      BY <1>n, <2>1, <2>2, Mapping, OpenStream
    <3>4. TheVolume!SeekTo(st)
      BY <2>1, <3>1, <3>2, <3>3 DEF TheVolume!SeekTo, Vol, Reply, TheVolume!Nothing
    <3> QED  BY <3>4 DEF TheVolume!VolumeNext
  <2>3. CASE ~ (pos < volumeSize(st))
    <3>1. partPosition' = partPosition /\ Said("seek", -EDISKSPACE, <<>>)
      BY <1>2, <2>3 DEF partitionStreamSeek
    <3>2. Reply' = [op |-> "seek", ok |-> FALSE, data |-> <<>>]
      BY <1>n, <3>1, ReplyMaps
    <3>4. TheVolume!SeekTo(st)
      BY <2>1, <3>1, <3>2 DEF TheVolume!SeekTo, Vol, Reply, TheVolume!Nothing
    <3> QED  BY <3>4 DEF TheVolume!VolumeNext
  <2> QED  BY <2>2, <2>3
<1>3. ASSUME NEW st \in Streams, NEW length \in Lengths, partitionStreamRead(st, length)
      PROVE  TheVolume!VolumeNext
  <2>1. partPosition[st] # -1 /\ partPosition[st] # Closed /\ volume' = volume
    BY <1>3, <1>n DEF partitionStreamRead
  <2>2. ASSUME Vol' = Vol, partPosition' = partPosition, NEW ret, ret # 0, Said("read", ret, <<>>)
        PROVE  TheVolume!VolumeNext
    <3>1. Reply' = [op |-> "read", ok |-> FALSE, data |-> <<>>]
      BY <2>2, ReplyMaps
    <3>2. TheVolume!Get(st)
      BY <2>1, <2>2, <3>1 DEF TheVolume!Get, Vol, Reply, TheVolume!Nothing
    <3> QED  BY <3>2 DEF TheVolume!VolumeNext
  <2>3. CASE TooLong(st, length)
    BY <1>3, <1>v, <1>n, <2>2, <2>3 DEF partitionStreamRead
  <2>4. CASE ~ TooLong(st, length)
    <3>1. PICK ret \in Results :
             /\ diskStreamRead(st, length, ret)
             /\ Advance(st, length, ret)
             /\ Said("read", ret, IF ret = 0 THEN ReadBytes(st, length) ELSE <<>>)
      BY <1>3, <2>4 DEF partitionStreamRead
    <3>2. Vol' = Vol /\ (ret = 0 => Fits(st, length))
      BY <1>v, <1>n, <3>1 DEF diskStreamRead, NoMemory
    <3>3. CASE ret # 0
      BY <2>2, <3>1, <3>2, <3>3 DEF Advance
    <3>4. CASE ret = 0
      <4>1. partPosition' = [partPosition EXCEPT ![st] = @ + length]
        BY <3>1, <3>4 DEF Advance
      <4>2. Said("read", 0, ReadBytes(st, length))
        BY <3>1, <3>4
      <4>3. Reply' = [op |-> "read", ok |-> TRUE, data |-> ReadBytes(st, length)]
        BY <4>2, ReplyMaps
      <4>4. ReadBytes(st, length) =
               [k \in 1 .. length |-> Vol[volume[st]][partPosition[st] + k - 1]]
        BY <2>1, <2>4, <3>2, <3>4, ReadExact
      <4>5. TheVolume!Covers(st, length)
        BY <2>4, Mapping
      <4>6. TheVolume!Get(st)
        BY <2>1, <3>2, <4>1, <4>3, <4>4, <4>5 DEF TheVolume!Get, Vol, Reply
      <4> QED  BY <4>6 DEF TheVolume!VolumeNext
    <3> QED  BY <3>3, <3>4
  <2> QED  BY <2>3, <2>4
<1>4. ASSUME NEW st \in Streams, NEW length \in Lengths, NEW in \in [1 .. length -> Byte],
             partitionStreamWrite(st, in, length)
      PROVE  TheVolume!VolumeNext
  <2>1. partPosition[st] # -1 /\ partPosition[st] # Closed /\ volume' = volume
    BY <1>4, <1>n DEF partitionStreamWrite
  <2>2. TheVolume!Offsets(volume[st]) = 0 .. (volumeSize(st) - 1)
    BY Mapping
  <2>3. \A n : BytesReplaced(st, in, n) =
                 [i \in TheVolume!Offsets(volume[st]) |->
                    IF i \in partPosition[st] .. (partPosition[st] + n - 1)
                    THEN in[i - partPosition[st] + 1] ELSE Vol[volume[st]][i]]
    BY <2>2 DEF BytesReplaced
  <2>4. ASSUME NEW ret, ret # 0, Said("write", ret, <<>>), partPosition' = partPosition,
               NEW n \in 0 .. length,
               Vol' = [Vol EXCEPT ![volume[st]] = BytesReplaced(st, in, n)]
        PROVE  TheVolume!VolumeNext
    <3>1. Reply' = [op |-> "write", ok |-> FALSE, data |-> <<>>]
      BY <2>4, ReplyMaps
    <3>2. TheVolume!Put(st, in, length)
      BY <2>1, <2>3, <2>4, <3>1 DEF TheVolume!Put, Vol, Reply, TheVolume!Nothing
    <3> QED  BY <3>2 DEF TheVolume!VolumeNext
  <2>5. CASE TooLong(st, length)
    <3>1. Said("write", -EDISKSPACE, <<>>) /\ disk' = disk /\ partPosition' = partPosition
      BY <1>4, <2>5 DEF partitionStreamWrite
    <3>2. length \in Nat /\ 0 \in 0 .. length /\ partPosition[st] \in Nat /\ volume[st] \in Labels
      BY <2>1, OpenStream, PartitionAssumption
    <3>3. Vol' = [Vol EXCEPT ![volume[st]] = BytesReplaced(st, in, 0)]
      <4>1. BytesReplaced(st, in, 0) = Vol[volume[st]]
        <5>1. \A i \in 0 .. (volumeSize(st) - 1) :
                 i \notin partPosition[st] .. (partPosition[st] + 0 - 1)
          BY <3>2
        <5>2. Vol[volume[st]] = [i \in 0 .. (volumeSize(st) - 1) |-> Vol[volume[st]][i]]
          BY <3>2 DEF Vol, volumeSize
        <5> QED  BY <5>1, <5>2, Zenon DEF BytesReplaced
      <4> QED  BY <1>v, <3>1, <3>2, <4>1 DEF Vol
    <3> QED  BY <1>n, <2>4, <3>1, <3>2, <3>3
  <2>6. CASE ~ TooLong(st, length)
    <3>1. PICK ret \in Results :
             /\ diskStreamWrite(st, in, length, ret)
             /\ Advance(st, length, ret)
             /\ Said("write", ret, <<>>)
      BY <1>4, <2>6 DEF partitionStreamWrite
    <3>2. PICK n \in 0 .. length :
             /\ ret = 0 => n = length
             /\ disk' = PartWritten(st, in, n)
      BY <2>1, <2>6, <3>1, WriteInPartition
    <3>3. Vol' = [Vol EXCEPT ![volume[st]] = BytesReplaced(st, in, n)]
      BY <2>1, <2>6, <3>2, VolumeReplaced
    <3>4. CASE ret # 0
      BY <2>4, <3>1, <3>3, <3>4 DEF Advance
    <3>5. CASE ret = 0
      <4>1. partPosition' = [partPosition EXCEPT ![st] = @ + length]
        BY <3>1, <3>5 DEF Advance
      <4>2. Reply' = [op |-> "write", ok |-> TRUE, data |-> <<>>]
        BY <3>1, <3>5, ReplyMaps
      <4>3. Vol' = [Vol EXCEPT ![volume[st]] = BytesReplaced(st, in, length)]
        BY <3>2, <3>3, <3>5
      <4>4. TheVolume!Covers(st, length)
        BY <2>6, Mapping
      <4>5. Vol' = [Vol EXCEPT ![volume[st]] =
                      [i \in TheVolume!Offsets(volume[st]) |->
                         IF i \in partPosition[st] .. (partPosition[st] + length - 1)
                         THEN in[i - partPosition[st] + 1] ELSE @[i]]]
        BY <2>3, <4>3
      <4>6. TheVolume!Put(st, in, length)
        BY <2>1, <4>1, <4>2, <4>4, <4>5, Zenon DEF TheVolume!Put, Vol, Reply, TheVolume!Nothing
      <4> QED  BY <4>6 DEF TheVolume!VolumeNext
    <3> QED  BY <3>4, <3>5
  <2> QED  BY <2>5, <2>6
<1>5. ASSUME NEW st \in Streams, partitionStreamDestroy(st)
      PROVE  TheVolume!VolumeNext
  <2>1. Reply' = [op |-> "destroy", ok |-> TRUE, data |-> <<>>]
    BY <1>5, ReplyMaps DEF partitionStreamDestroy
  <2>2. TheVolume!Close(st)
    BY <1>5, <1>v, <1>n, <2>1
    DEF partitionStreamDestroy, TheVolume!Close, Vol, Reply, TheVolume!Nothing
  <2> QED  BY <2>2 DEF TheVolume!VolumeNext
<1>6. CASE UNCHANGED vars
  BY <1>6 DEF vars, TheVolume!volumeVars
<1> QED  BY <1>1, <1>2, <1>3, <1>4, <1>5, <1>6 DEF Next

(* Seen through their streams the partitions are the arrays of bytes of    *)
(* Volume: what a call reports as read or written is what is at its        *)
(* position in its own partition, and a failed write has replaced a prefix *)
(* of what it was to replace.                                              *)
THEOREM StreamsImplementVolume == Spec => ImplementsVolume
<1> QED  BY VolumeStart, VolumeStep, StreamsSafe, PTL
         DEF Spec, ImplementsVolume, TheVolume!VolumeSpec
=============================================================================
