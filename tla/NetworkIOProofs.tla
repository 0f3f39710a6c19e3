-------------------------- MODULE NetworkIOProofs --------------------------
(***************************************************************************)
(* Theorems about network_read, network_read_nb and network_write, for     *)
(* streams and buffers of any length an int16_t holds, any cut into bus    *)
(* calls, any number of operations, and bus calls that may fail.           *)
(***************************************************************************)
EXTENDS NetworkIO, TLAPS

USE NetworkIOAssumption DEF NetworkIOAssumption

(* The lengths the theorems are about: those the int16_t results can hold. *)
LensFit == Lens \subseteq 0..IntMax

(* n more bytes behind the first a make the first a + n. *)
LEMMA BytesExtend ==
  ASSUME NEW a \in Nat, NEW n \in Nat
  PROVE  Bytes(a) \cup {<<a + i, a + i>> : i \in 0..n-1} = Bytes(a + n)
<1> DEFINE New == {<<a + i, a + i>> : i \in 0..n-1}
<1>1. ASSUME NEW x \in Bytes(a + n) PROVE x \in Bytes(a) \cup New
  <2>1. PICK k \in 0..a+n-1 : x = <<k, k>>
    BY DEF Bytes
  <2>2. CASE k < a
    BY <2>1, <2>2 DEF Bytes
  <2>3. CASE k >= a
    <3>1. k - a \in 0..n-1 /\ k = a + (k - a)
      BY <2>3
    <3>2. QED
      BY <2>1, <3>1
  <2>4. QED
    BY <2>2, <2>3
<1>2. ASSUME NEW x \in Bytes(a) \cup New PROVE x \in Bytes(a + n)
  <2>1. CASE x \in Bytes(a)
    BY <2>1 DEF Bytes
  <2>2. CASE x \in New
    <3>1. PICK i \in 0..n-1 : x = <<a + i, a + i>>
      BY <2>2
    <3>2. a + i \in 0..a+n-1
      OBVIOUS
    <3>3. QED
      BY <3>1, <3>2 DEF Bytes
  <2>3. QED
    BY <1>2, <2>1, <2>2
<1>3. QED
  BY <1>1, <1>2

(* The first n bytes are pairs of places and bytes, and none for n = 0. *)
LEMMA BytesType ==
  ASSUME NEW n \in Nat
  PROVE  Bytes(n) \subseteq Int \X Nat /\ Bytes(0) = {}
BY DEF Bytes

(* A count that fits an int16_t survives the conversion. *)
LEMMA Int16Fits ==
  ASSUME NEW n \in 0..IntMax
  PROVE  Int16(n) = n
BY DEF Int16

(* The inductive invariant holds before the first operation. *)
LEMMA InitInv == Init => IInv
<1> SUFFICES ASSUME Init PROVE IInv
  OBVIOUS
<1>1. TypeOK
  <2>1. moved \subseteq Int \X Nat
    BY Zenon DEF Init
  <2>2. broken \in BOOLEAN /\ closed \in BOOLEAN
    BY Zenon DEF Init
  <2>3. sent \in 0..MaxSent /\ taken \in 0..sent /\ start \in 0..taken /\ ops \in 0..MaxOps
    BY DEF Init
  <2>4. len \in 0..asked /\ asked \in Lens \cup {0} /\ total \in Int
        /\ avail \in 0..MaxSent /\ errcode \in 0..255 /\ seen \in 0..sent /\ result \in Int
    BY DEF Init
  <2>5. QED
    BY <2>1, <2>2, <2>3, <2>4 DEF Init, TypeOK
<1>2. Bytes(0) = {}
  BY BytesType
<1>3. QED
  BY <1>1, <1>2 DEF Init, IInv, ReadInOrder, WriteInOrder, ShortMeansEnd,
     NegativeOnlyIfNothingRead, Reading, Lesser

(* An operation starts with nothing moved. *)
LEMMA StartStep ==
  ASSUME LensFit, IInv, Application
  PROVE  IInv'
<1>1. PICK o \in {"read", "read_nb", "write"}, n \in Lens :
        /\ Start(o, n)
        /\ \/ o = "read" /\ (IF n = 0 THEN Return(0) ELSE pc' = "status" /\ UNCHANGED result)
           \/ o = "read_nb" /\ pc' = "status" /\ UNCHANGED result
           \/ o = "write" /\ (IF n = 0 THEN Return(FN_ERR_OK) ELSE pc' = "store" /\ UNCHANGED result)
  BY DEF Application, Read, ReadNb, Write
<1> n \in 0..IntMax
  BY DEF LensFit
<1>2. TypeOK'
  <2>1. moved' \subseteq Int \X Nat
    <3>1. moved' = {}
      BY <1>1 DEF Start
    <3>2. QED
      BY <3>1, Zenon
  <2>2. broken' \in BOOLEAN /\ closed' \in BOOLEAN
    BY <1>1, Zenon DEF IInv, TypeOK, Start, far
  <2>3. /\ op' \in {"read", "read_nb", "write"}
        /\ len' \in 0..asked' /\ asked' \in Lens \cup {0} /\ total' \in Int
        /\ avail' \in 0..MaxSent /\ errcode' \in 0..255 /\ seen' \in 0..sent'
        /\ error' \in {NETWORK_SUCCESS, NETWORK_ERROR_GENERAL}
        /\ sent' \in 0..MaxSent /\ taken' \in 0..sent' /\ start' \in 0..taken'
    BY <1>1 DEF IInv, TypeOK, Start, far, status
  <2>4. ops' \in 0..MaxOps
    BY <1>1 DEF IInv, TypeOK, Start
  <2>5. result' \in Int /\ pc' \in {"idle", "status", "fetch", "store"}
    BY <1>1 DEF IInv, TypeOK, Return, FN_ERR_OK
  <2>6. QED
    BY <2>1, <2>2, <2>3, <2>4, <2>5 DEF TypeOK
<1>3. moved' = Bytes(0) /\ Bytes(0) = {}
  BY <1>1, BytesType DEF Start
<1>4. RunningInv' \/ pc' = "idle"
  BY <1>1, <1>3 DEF IInv, TypeOK, Start, Return, RunningInv, Reading
<1>5. (ReadInOrder /\ WriteInOrder /\ ShortMeansEnd /\ NegativeOnlyIfNothingRead)'
  BY <1>1, <1>3 DEF IInv, TypeOK, Start, Return, ReadInOrder, WriteInOrder, ShortMeansEnd,
     NegativeOnlyIfNothingRead, Reading, FN_ERR_OK, Lesser
<1>6. QED
  BY <1>2, <1>4, <1>5 DEF IInv

(* network_read_nb returns 0 or less: the operation ends with what it has. *)
LEMMA EndStep ==
  ASSUME LensFit, IInv, pc \in {"status", "fetch"},
         NEW r \in {0, -FN_ERR_IO_ERROR}, ReadNbReturns(r),
         UNCHANGED <<moved, call, far>>,
         avail' \in 0..MaxSent, errcode' \in 0..255, seen' \in 0..sent,
         taken' \in taken..sent, broken' \in BOOLEAN,
         r < 0 => broken',
         ~broken' => /\ taken' = taken /\ errcode' > NETWORK_SUCCESS /\ taken = seen'
                     /\ errcode' = NETWORK_ERROR_END_OF_FILE => closed /\ taken = sent
  PROVE  IInv'
<1> USE DEF call, far, FN_ERR_IO_ERROR
<1>1. /\ pc' = "idle" /\ UNCHANGED <<len, total>>
      /\ result' = IF op = "read" /\ ~(total = 0 /\ r < 0) THEN total ELSE r
  BY DEF ReadNbReturns, Return, IInv, RunningInv, Reading
<1>2. TypeOK'
  BY <1>1 DEF IInv, TypeOK
<1>3. ReadInOrder'
  BY <1>1 DEF IInv, TypeOK, RunningInv, ReadInOrder, Reading
<1>4. WriteInOrder'
  BY <1>1 DEF IInv, RunningInv, WriteInOrder, Reading
<1>5. ShortMeansEnd'
  BY <1>1 DEF IInv, TypeOK, ShortMeansEnd, Reading, Lesser
<1>6. NegativeOnlyIfNothingRead'
  BY <1>1, BytesType DEF IInv, TypeOK, RunningInv, NegativeOnlyIfNothingRead
<1>7. QED
  BY <1>1, <1>2, <1>3, <1>4, <1>5, <1>6 DEF IInv

(* The status is polled: again, until there is something to fetch. *)
LEMMA StatusStep ==
  ASSUME LensFit, IInv, Status
  PROVE  IInv'
<1>1. /\ avail' = sent - taken /\ avail' \in 0..MaxSent
      /\ errcode' = ErrCode /\ errcode' \in 0..255
      /\ seen' = sent /\ seen' \in 0..sent
  BY DEF Status, IInv, TypeOK, ErrCode, NETWORK_SUCCESS, NETWORK_ERROR_GENERAL,
     NETWORK_ERROR_END_OF_FILE
<1>2. CASE AtEnd(errcode', avail')
  <2>1. /\ errcode' > NETWORK_SUCCESS /\ taken = sent
        /\ errcode' = NETWORK_ERROR_END_OF_FILE => closed
    BY <1>1, <1>2 DEF AtEnd, ErrCode, NETWORK_SUCCESS, NETWORK_ERROR_GENERAL,
       NETWORK_ERROR_END_OF_FILE, IInv, TypeOK
  <2>2. QED
    BY <1>1, <1>2, <2>1, EndStep DEF Status, IInv, TypeOK, call, far
<1>3. CASE ~AtEnd(errcode', avail')
  <2>1. TypeOK'
    BY <1>1, <1>3 DEF Status, IInv, TypeOK, call, far
  <2>2. RunningInv'
    BY <1>1, <1>3 DEF Status, IInv, TypeOK, RunningInv, Reading, call, far
  <2>3. pc' # "idle"
    BY <1>3 DEF Status
  <2>4. QED
    BY <2>1, <2>2, <2>3 DEF IInv, ReadInOrder, WriteInOrder, ShortMeansEnd,
       NegativeOnlyIfNothingRead
<1>4. QED
  BY <1>2, <1>3

(* A chunk arrives: it lands behind what has landed. *)
LEMMA FetchStep ==
  ASSUME LensFit, IInv, Fetch
  PROVE  IInv'
<1> USE DEF call, far, status
<1> DEFINE n == Chunk
<1>1. /\ Reading /\ op # "write"
      /\ asked \in 0..IntMax /\ total \in 0..asked /\ len = asked - total
      /\ taken = start + total /\ moved = Bytes(total) /\ ~broken
      /\ avail > 0 /\ avail <= sent - taken
      /\ op = "read_nb" => total = 0
      /\ op = "read" => len > 0
  BY DEF Fetch, IInv, TypeOK, RunningInv, LensFit, Reading
<1>2. /\ n \in 0..len /\ n <= avail /\ n \in 0..IntMax
      /\ len > 0 => n > 0
  BY <1>1 DEF Chunk, Lesser, IInv, TypeOK
<1>3. /\ Int16(n) = n /\ Int16(total + n) = total + n
      /\ total + n \in 0..asked
  BY <1>1, <1>2, Int16Fits
<1>4. moved' = Bytes(total + n)
  <2>1. moved' = moved \cup {<<total + i, total + i>> : i \in 0..n-1}
    <3>1. taken - start = total
      BY <1>1 DEF IInv, TypeOK
    <3>2. QED
      BY <3>1 DEF Fetch, Land
  <2>2. total \in Nat /\ n \in Nat
    BY <1>1, <1>2
  <2>3. Bytes(total) \cup {<<total + i, total + i>> : i \in 0..n-1} = Bytes(total + n)
    <3> HIDE DEF n
    <3>1. QED
      BY <2>2, BytesExtend, Zenon
  <2>4. QED
    BY <1>1, <2>1, <2>3
<1>5. /\ taken' = start + total + n /\ taken' \in start..sent
      /\ UNCHANGED <<avail, errcode, seen, broken, op, asked, start, ops, sent, closed, error>>
  BY <1>1, <1>2 DEF Fetch, IInv, TypeOK
<1>6. Bytes(total + n) \subseteq Int \X Nat
  BY <1>3, BytesType
<1>7. CASE op = "read_nb"
  <2>1. pc' = "idle" /\ result' = n /\ UNCHANGED <<len, total>>
    BY <1>3, <1>7 DEF Fetch, ReadNbReturns, Return
  <2>2. TypeOK'
    BY <1>1, <1>2, <1>4, <1>5, <1>6, <2>1 DEF IInv, TypeOK
  <2>3. total = 0 /\ moved' = Bytes(n) /\ taken' = start + n /\ len = asked
    BY <1>1, <1>2, <1>4, <1>5, <1>7 DEF IInv, TypeOK
  <2>4. n >= Lesser(asked, 1)
    BY <1>1, <1>2, <2>3 DEF Lesser
  <2>5. ReadInOrder' /\ WriteInOrder' /\ ShortMeansEnd' /\ NegativeOnlyIfNothingRead'
    <3> HIDE DEF n
    <3> QED
      BY <1>1, <1>2, <1>5, <1>7, <2>1, <2>3, <2>4 DEF ReadInOrder, WriteInOrder,
         ShortMeansEnd, NegativeOnlyIfNothingRead, Reading, Lesser
  <2>6. QED
    BY <2>1, <2>2, <2>5 DEF IInv
<1>8. CASE op = "read"
  <2>1. /\ total' = total + n /\ len' = len - n
        /\ IF len' = 0 THEN Return(total') ELSE pc' = "status" /\ UNCHANGED result
    BY <1>1, <1>2, <1>3, <1>8 DEF Fetch, ReadNbReturns
  <2>2. TypeOK'
    BY <1>1, <1>2, <1>4, <1>5, <1>6, <2>1 DEF IInv, TypeOK, Return
  <2>3. moved' = Bytes(total') /\ taken' = start' + total' /\ total' \in 0..asked'
        /\ asked' \in Nat /\ len' = asked' - total' /\ len' \in Nat /\ op' = "read" /\ ~broken'
    BY <1>1, <1>2, <1>3, <1>4, <1>5, <1>8, <2>1 DEF IInv, TypeOK
  <2>4. CASE len' = 0
    <3>1. pc' = "idle" /\ result' = total' /\ total' = asked'
      BY <2>1, <2>3, <2>4 DEF Return
    <3>2. ReadInOrder' /\ WriteInOrder' /\ ShortMeansEnd' /\ NegativeOnlyIfNothingRead'
      BY <2>3, <3>1 DEF ReadInOrder, WriteInOrder, ShortMeansEnd,
         NegativeOnlyIfNothingRead, Reading
    <3>3. QED
      BY <2>2, <3>1, <3>2 DEF IInv
  <2>5. CASE len' # 0
    <3>1. pc' = "status"
      BY <2>1, <2>5
    <3>2. pc' # "idle" /\ pc' # "fetch" /\ pc' # "store"
      BY <3>1
    <3>3. len' > 0
      <4>1. len' \in Nat
        BY <2>3, Zenon
      <4>2. QED
        BY <4>1, <2>5
    <3>4. op' # "read_nb"
      BY <2>3
    <3>5. Reading'
      BY <2>3 DEF Reading
    <3>6. RunningInv'
      BY <2>3, <3>2, <3>5, <3>3, <3>4, Zenon DEF RunningInv
    <3>7. QED
      BY <2>2, <3>2, <3>6 DEF IInv, ReadInOrder, WriteInOrder, ShortMeansEnd,
         NegativeOnlyIfNothingRead
  <2>6. QED
    BY <2>4, <2>5
<1>9. QED
  BY <1>1, <1>7, <1>8 DEF Reading

(* A write goes out, or may have gone out and failed. *)
LEMMA StoreStep ==
  ASSUME LensFit, IInv, Store \/ StoreFails
  PROVE  IInv'
<1> USE DEF call, far, status
<1> DEFINE n == Lesser(len, WriteMax)
<1>1. /\ pc = "store" /\ op = "write" /\ asked \in 0..IntMax /\ len \in 1..asked
      /\ total = asked - len /\ moved = Bytes(total) /\ ~broken
  BY DEF Store, StoreFails, IInv, TypeOK, RunningInv, LensFit
<1>2. n \in 1..len /\ total \in Nat /\ total + n \in 0..asked
  BY <1>1 DEF Lesser
<1>3. moved \cup {<<asked - len + i, total + i>> : i \in 0..n-1} = Bytes(total + n)
  <2> HIDE DEF n
  <2>0. total \in Nat /\ n \in Nat
    BY <1>1, <1>2
  <2>1. Bytes(total) \cup {<<total + i, total + i>> : i \in 0..n-1} = Bytes(total + n)
    BY <2>0, BytesExtend, Zenon
  <2>2. QED
    BY <1>1, <2>1
<1>4. /\ Bytes(total) \subseteq Int \X Nat
      /\ Bytes(total + n) \subseteq Int \X Nat
  BY <1>2, BytesType
<1>5. CASE Store
  <2>1. /\ moved' = Bytes(total + n) /\ len' = len - n /\ total' = total + n
        /\ IF len' = 0 THEN Return(FN_ERR_OK) ELSE UNCHANGED <<pc, result>>
        /\ UNCHANGED <<avail, errcode, seen, broken, taken, op, asked, start, ops, sent, closed, error>>
    BY <1>3, <1>5 DEF Store, Advance
  <2>2. TypeOK'
    BY <1>1, <1>2, <1>4, <2>1 DEF IInv, TypeOK, Return, FN_ERR_OK
  <2>3. RunningInv' \/ pc' = "idle"
    BY <1>1, <1>2, <2>1 DEF RunningInv, Return
  <2>4. ReadInOrder' /\ WriteInOrder' /\ ShortMeansEnd' /\ NegativeOnlyIfNothingRead'
    BY <1>1, <1>2, <2>1 DEF ReadInOrder, WriteInOrder, ShortMeansEnd,
       NegativeOnlyIfNothingRead, Reading, Return
  <2>5. QED
    BY <2>2, <2>3, <2>4 DEF IInv
<1>6. CASE StoreFails
  <2>1. /\ moved' \in {Bytes(total), Bytes(total + n)}
        /\ pc' = "idle" /\ result' = FN_ERR_IO_ERROR /\ broken' = TRUE
        /\ UNCHANGED <<len, total, avail, errcode, seen, taken, op, asked, start, ops, sent, closed, error>>
    BY <1>1, <1>3, <1>6 DEF StoreFails, Return
  <2>2. TypeOK'
    BY <1>1, <1>2, <1>4, <2>1 DEF IInv, TypeOK, FN_ERR_IO_ERROR
  <2>3. ReadInOrder' /\ WriteInOrder' /\ ShortMeansEnd' /\ NegativeOnlyIfNothingRead'
    BY <1>1, <1>2, <2>1 DEF ReadInOrder, WriteInOrder, ShortMeansEnd,
       NegativeOnlyIfNothingRead, Reading, FN_ERR_OK, FN_ERR_IO_ERROR
  <2>4. QED
    BY <2>1, <2>2, <2>3 DEF IInv
<1>7. QED
  BY <1>5, <1>6

(* The peer's sending and closing, and the device's errors, change nothing *)
(* that was established.                                                   *)
LEMMA PeerStep ==
  ASSUME LensFit, IInv, Peer \/ DeviceErrs
  PROVE  IInv'
<1> USE DEF call, far, status, Peer, PeerSends, PeerCloses, DeviceErrs
<1>1. TypeOK'
  <2>1. CASE PeerSends
    BY <2>1 DEF IInv, TypeOK
  <2>2. CASE PeerCloses
    BY <2>2 DEF IInv, TypeOK
  <2>3. CASE DeviceErrs
    BY <2>3 DEF IInv, TypeOK
  <2>4. QED
    BY <2>1, <2>2, <2>3
<1>2. pc' # "idle" => RunningInv'
  BY DEF IInv, TypeOK, RunningInv, Reading
<1>3. ReadInOrder' /\ WriteInOrder' /\ NegativeOnlyIfNothingRead'
  BY DEF IInv, ReadInOrder, WriteInOrder, NegativeOnlyIfNothingRead, Reading
<1>4. ShortMeansEnd'
  BY DEF IInv, ShortMeansEnd, Reading
<1>5. QED
  BY <1>1, <1>2, <1>3, <1>4 DEF IInv

(* Every step preserves the inductive invariant. *)
LEMMA NextInv ==
  ASSUME LensFit, IInv, [Next]_vars
  PROVE  IInv'
<1>1. CASE Application
  BY <1>1, StartStep
<1>2. CASE Status
  BY <1>2, StatusStep
<1>3. CASE StatusFails
  <2>1. /\ broken' = TRUE /\ avail' = avail /\ taken' = taken /\ avail \in 0..MaxSent
        /\ errcode' \in 0..255 /\ seen' \in 0..sent /\ taken \in 0..sent /\ sent \in Nat
    BY <1>3 DEF StatusFails, IInv, TypeOK, status
  <2>2. taken' \in taken..sent
    BY <2>1
  <2>3. QED
    BY <1>3, <2>1, <2>2, EndStep DEF StatusFails, call, far
<1>4. CASE Fetch
  BY <1>4, FetchStep
<1>5. CASE FetchFails
  <2>1. pc = "fetch" /\ ReadNbReturns(0) /\ UNCHANGED <<status, moved, call, far>> /\ broken' = TRUE
    BY <1>5 DEF FetchFails
  <2>2. Chunk \in Nat /\ Chunk <= sent - taken
    BY <2>1 DEF Chunk, Lesser, IInv, TypeOK, RunningInv
  <2>3. /\ taken' \in taken..sent /\ avail' \in 0..MaxSent
        /\ errcode' \in 0..255 /\ seen' \in 0..sent
    BY <1>5, <2>1, <2>2 DEF FetchFails, IInv, TypeOK, status
  <2>4. QED
    BY <2>1, <2>3, EndStep
<1>6. CASE Store \/ StoreFails
  BY <1>6, StoreStep
<1>7. CASE Peer \/ DeviceErrs
  BY <1>7, PeerStep
<1>8. CASE UNCHANGED vars
  BY <1>8 DEF vars, call, far, status, IInv, TypeOK, RunningInv, ReadInOrder, WriteInOrder,
     ShortMeansEnd, NegativeOnlyIfNothingRead, Reading
<1>9. QED
  BY <1>1, <1>2, <1>3, <1>4, <1>5, <1>6, <1>7, <1>8 DEF Next, Library

(* The inductive invariant holds throughout: what has landed is always the *)
(* beginning of what was asked for.                                        *)
THEOREM Invariant ==
  ASSUME LensFit
  PROVE  Spec => []IInv
<1>1. Init => IInv
  BY InitInv
<1>2. IInv /\ [Next]_vars => IInv'
  BY NextInv
<1>3. QED
  BY <1>1, <1>2, PTL DEF Spec

(* The types, and that no READ asks for more than the device holds. *)
THEOREM TypeCorrect ==
  ASSUME LensFit
  PROVE  Spec => []TypeOK
<1>1. IInv => TypeOK
  BY DEF IInv
<1>2. QED
  BY <1>1, Invariant, PTL

(* A read returns the next bytes of the stream, in order, and none is lost *)
(* to the next read unless a bus call failed.                              *)
THEOREM ReadInOrderCorrect ==
  ASSUME LensFit
  PROVE  Spec => []ReadInOrder
<1>1. IInv => ReadInOrder
  BY DEF IInv
<1>2. QED
  BY <1>1, Invariant, PTL

(* A write sends the buffer's beginning in order, all of it on success. *)
THEOREM WriteInOrderCorrect ==
  ASSUME LensFit
  PROVE  Spec => []WriteInOrder
<1>1. IInv => WriteInOrder
  BY DEF IInv
<1>2. QED
  BY <1>1, Invariant, PTL

(* A short read ended on an error code with all that was waiting read, and *)
(* on END_OF_FILE with all the peer ever sent read, unless a bus call      *)
(* failed.                                                                 *)
THEOREM ShortMeansEndCorrect ==
  ASSUME LensFit
  PROVE  Spec => []ShortMeansEnd
<1>1. IInv => ShortMeansEnd
  BY DEF IInv
<1>2. QED
  BY <1>1, Invariant, PTL

(* The header's promise about network_read's negative results holds for    *)
(* lengths an int16_t holds, and not for longer ones.                      *)
THEOREM NegativeOnlyIfNothingReadCorrect ==
  ASSUME LensFit
  PROVE  Spec => []NegativeOnlyIfNothingRead
<1>1. IInv => NegativeOnlyIfNothingRead
  BY DEF IInv
<1>2. QED
  BY <1>1, Invariant, PTL
=============================================================================
