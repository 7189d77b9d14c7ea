-------------------------- MODULE Nf10DriverProofs --------------------------
(***************************************************************************)
(* Theorems about the driver, for rings and packet memories of any size,   *)
(* any number of interfaces and any amount of traffic.                     *)
(***************************************************************************)
EXTENDS Nf10Driver, SerialNumbers, FiniteSetTheorems, FunctionTheorems

-----------------------------------------------------------------------------
(* The entries of a ring.                                                  *)

(* Places closer to each other than the ring is long have entries of their *)
(* own, of descriptors and of lines alike.                                 *)
LEMMA NearDiffer ==
  ASSUME NEW r \in Nat, r > 0, NEW a \in Int, NEW b \in Int, a < b, b < a + r
  PROVE  a % r # b % r
<1>1. PICK qa, qb, ra, rb : qa = a \div r /\ qb = b \div r /\ ra = a % r /\ rb = b % r
  OBVIOUS
<1>2. /\ qa \in Int /\ qb \in Int /\ ra \in 0..(r - 1) /\ rb \in 0..(r - 1)
      /\ a = (r * qa) + ra /\ b = (r * qb) + rb
  BY <1>1, Division
<1>3. SUFFICES ASSUME ra = rb
               PROVE  FALSE
  BY <1>1
<1>4. PICK d \in Int : d = qb - qa
  BY <1>2
<1>5. r * (qb - qa) = r * qb - r * qa /\ r * qa \in Int /\ r * qb \in Int
  BY <1>2, Multiples
<1>6. PICK x, y : x = r * qa /\ y = r * qb
  OBVIOUS
<1>7. r * d = y - x /\ x \in Int /\ y \in Int
  BY <1>4, <1>5, <1>6
<1>8. r * d = b - a
  BY <1>2, <1>3, <1>6, <1>7
<1>9. d = 0 \/ d >= 1 \/ d <= -1
  BY <1>4
<1>10. d = 0 => r * d = 0
  OBVIOUS
<1>11. PICK z : z = r * d
  OBVIOUS
<1>12. (d >= 1 => z >= r) /\ (d <= -1 => z <= -r)
  <2>1. (d >= 1 => r * d >= r) /\ (d <= -1 => r * d <= -r)
    BY <1>4, Multiples
  <2>. QED
    BY <1>11, <2>1
<1>. QED
  BY <1>8, <1>9, <1>10, <1>11, <1>12

LEMMA EntryType == ASSUME NEW k \in Int PROVE Entry(k) \in Entries
  BY Division, RoomAssumption DEF Entry, Entries

LEMMA EntriesDiffer ==
  ASSUME NEW i \in Int, NEW j \in Int, i < j, j < i + RingSize
  PROVE  Entry(i) # Entry(j)
  BY NearDiffer, RoomAssumption DEF Entry

(* The entries of the places from a up to b.                               *)
RingOf(a, b) == {Entry(k) : k \in a..(b - 1)}

LEMMA RingSplits ==
  ASSUME NEW a \in Int, NEW m \in Int, NEW b \in Int, a <= m, m <= b
  PROVE  RingOf(a, b) = RingOf(a, m) \cup RingOf(m, b)
<1>1. a..(b - 1) = a..(m - 1) \cup m..(b - 1)
  OBVIOUS
<1>. QED
  BY <1>1 DEF RingOf

LEMMA RingGrows ==
  ASSUME NEW a \in Int, NEW b \in Int, a <= b
  PROVE  RingOf(a, b + 1) = RingOf(a, b) \cup {Entry(b)}
<1>1. a..((b + 1) - 1) = a..(b - 1) \cup {b}
  OBVIOUS
<1>. QED
  BY <1>1 DEF RingOf

(* The entry of an old place leaves with it.                               *)
LEMMA RingShrinks ==
  ASSUME NEW a \in Int, NEW b \in Int, a < b, b <= a + RingSize
  PROVE  RingOf(a + 1, b) = RingOf(a, b) \ {Entry(a)}
<1>1. a..(b - 1) = (a + 1)..(b - 1) \cup {a}
  OBVIOUS
<1>2. \A k \in (a + 1)..(b - 1) : Entry(k) # Entry(a)
  BY EntriesDiffer, RoomAssumption
<1>. QED
  BY <1>1, <1>2 DEF RingOf

LEMMA RingCount ==
  ASSUME NEW a \in Int, NEW b \in Int, a <= b, b <= a + RingSize
  PROVE  IsFiniteSet(RingOf(a, b)) /\ Cardinality(RingOf(a, b)) = b - a
<1>. DEFINE f == [k \in a..(b - 1) |-> Entry(k)]
<1>1. IsFiniteSet(a..(b - 1)) /\ Cardinality(a..(b - 1)) = b - a
  <2>1. b - 1 \in Int
    OBVIOUS
  <2>2. /\ IsFiniteSet(a..(b - 1))
        /\ Cardinality(a..(b - 1)) = IF a > b - 1 THEN 0 ELSE ((b - 1) - a) + 1
    BY <2>1, FS_Interval
  <2>. QED
    BY <2>2
<1>2. ASSUME NEW i \in a..(b - 1), NEW j \in a..(b - 1), Entry(i) = Entry(j)
      PROVE  i = j
  BY <1>2, EntriesDiffer, RoomAssumption
<1>3. f \in Bijection(a..(b - 1), RingOf(a, b))
  <2>1. f \in [a..(b - 1) -> RingOf(a, b)]
    BY DEF RingOf
  <2>2. \A i, j \in a..(b - 1) : f[i] = f[j] => i = j
    BY <1>2
  <2>3. \A e \in RingOf(a, b) : \E k \in a..(b - 1) : f[k] = e
    BY DEF RingOf
  <2>. QED
    BY <2>1, <2>2, <2>3, Fun_IsBij, Zenon
<1>4. ExistsBijection(a..(b - 1), RingOf(a, b))
  BY <1>3, Fun_ExistsBij, Zenon
<1>. QED
  BY <1>1, <1>4, FS_Bijection

-----------------------------------------------------------------------------
(* Receiving.                                                              *)

(* The completion that a pass has seen stands until it is handled.         *)
RxSeen ==
  /\ step \in {"idle", "top", "read", "clean", "invalidate", "restart", "receive", "turn"}
  /\ step = "receive" => "rx" \in seen
  /\ step \in {"clean", "invalidate", "restart", "receive"} /\ "rx" \in seen => Entry(rx_rd) \in rx_done

(* The descriptors of the card are the last rx_cnt of the ring: first      *)
(* those that it has filled, then those that it has yet to fill.           *)
RxPlaces ==
  /\ rx_rd \in Nat /\ rx_wr \in Nat /\ rx_rd <= rx_wr
  /\ \E m \in rx_rd..rx_wr : rx_done = RingOf(rx_rd, m) /\ rx_posted = RingOf(m, rx_wr)

RxCounts ==
  /\ rx_cnt = rx_wr - rx_rd /\ rx_failed \in Nat /\ rx_cnt + rx_failed = RxGiven
  /\ rx_lines \in Int /\ rx_lines <= Lines

RxInv == RxSeen /\ RxPlaces /\ RxCounts

(* What the card is given at first fits the ring and the packet memory.    *)
LEMMA RxGivenFits ==
  /\ RxGiven \in Nat /\ RxGiven <= RingSize - 2
  /\ RxGiven * RxLines \in Nat /\ RxGiven * RxLines <= Lines
<1>1. PICK q, t : q = Lines \div RxLines /\ t = Lines % RxLines
  OBVIOUS
<1>2. q \in Int /\ t \in 0..(RxLines - 1) /\ Lines = (RxLines * q) + t
  BY <1>1, Division, RoomAssumption
<1>3. q \in Nat
  <2>1. q <= -1 => RxLines * q <= -RxLines
    BY <1>2, Multiples, RoomAssumption
  <2>2. PICK x : x = RxLines * q
    OBVIOUS
  <2>3. x \in Int
    BY <1>2, <2>2, Multiples, RoomAssumption
  <2>. QED
    BY <1>2, <2>1, <2>2, <2>3, RoomAssumption
<1>4. RxGiven \in Nat /\ RxGiven <= RingSize - 2 /\ RxGiven <= q
  BY <1>1, <1>3, RoomAssumption DEF RxGiven
<1>5. RxGiven * RxLines <= RxLines * q /\ RxGiven * RxLines \in Nat /\ RxLines * q \in Nat
  BY <1>3, <1>4, RoomAssumption
<1>. QED
  BY <1>2, <1>4, <1>5, RoomAssumption

LEMMA RxInitInv == Init => RxInv
<1>. SUFFICES ASSUME Init
              PROVE  RxInv
  OBVIOUS
<1>1. /\ step = "idle" /\ rx_wr = RxGiven /\ rx_rd = 0 /\ rx_cnt = RxGiven
      /\ rx_lines = RxGiven * RxLines /\ rx_posted = 0..(RxGiven - 1) /\ rx_done = {} /\ rx_failed = 0
  BY DEF Init
<1>2. RxGiven \in Nat /\ RxGiven <= RingSize - 2 /\ rx_lines \in Nat /\ rx_lines <= Lines
  BY <1>1, RxGivenFits
<1>3. RingOf(0, 0) = {} /\ RingOf(0, RxGiven) = 0..(RxGiven - 1)
  <2>1. \A k \in 0..(RxGiven - 1) : Entry(k) = k
    BY <1>2, SmallRemainder, RoomAssumption DEF Entry
  <2>2. 0..(0 - 1) = {}
    OBVIOUS
  <2>. QED
    BY <2>1, <2>2 DEF RingOf
<1>4. RxPlaces
  <2>1. 0 \in rx_rd..rx_wr
    BY <1>1, <1>2
  <2>. QED
    BY <1>1, <1>2, <1>3, <2>1 DEF RxPlaces
<1>. QED
  BY <1>1, <1>2, <1>4 DEF RxInv, RxSeen, RxCounts

(* A frame comes.                                                          *)
LEMMA RxReceives == RxInv /\ CardReceives => RxInv'
<1>. SUFFICES ASSUME RxInv, CardReceives
              PROVE  RxInv'
  OBVIOUS
<1>1. PICK m \in rx_rd..rx_wr : rx_done = RingOf(rx_rd, m) /\ rx_posted = RingOf(m, rx_wr)
  BY DEF RxInv, RxPlaces
<1>2. /\ rx_rd \in Nat /\ rx_wr \in Nat /\ rx_rd <= rx_wr /\ rx_wr - rx_rd <= RingSize - 2 /\ m \in Int
  BY <1>1, RxGivenFits, RoomAssumption DEF RxInv, RxPlaces, RxCounts
<1>3. Cardinality(rx_done) = m - rx_rd
  BY <1>1, <1>2, RingCount, RoomAssumption
<1>4. Entry(m) \in rx_posted /\ rx_posted' = rx_posted \ {Entry(m)} /\ rx_done' = rx_done \cup {Entry(m)}
  <2>1. rx_rd + Cardinality(rx_done) = m
    BY <1>2, <1>3
  <2>. QED
    BY <2>1 DEF CardReceives
<1>5. m < rx_wr
  <2>1. m = rx_wr => rx_posted = {}
    BY <1>1, <1>2 DEF RingOf
  <2>. QED
    BY <1>1, <1>2, <1>4, <2>1
<1>6. rx_done' = RingOf(rx_rd, m + 1) /\ rx_posted' = RingOf(m + 1, rx_wr)
  BY <1>1, <1>2, <1>4, <1>5, RingGrows, RingShrinks, RoomAssumption
<1>7. UNCHANGED <<rx_wr, rx_rd, rx_cnt, rx_lines, rx_failed, step, seen>>
  BY DEF CardReceives, loop_vars
<1>8. RxPlaces'
  <2>1. m + 1 \in rx_rd..rx_wr
    BY <1>1, <1>2, <1>5
  <2>. QED
    BY <1>2, <1>6, <1>7, <2>1 DEF RxPlaces
<1>. QED
  BY <1>4, <1>7, <1>8 DEF RxInv, RxSeen, RxCounts

(* A frame leaves the driver and the card is given a descriptor, unless    *)
(* there is no memory for it.                                              *)
LEMMA RxRefills == RxInv /\ ReceiveFrame => RxInv'
<1>. SUFFICES ASSUME RxInv, ReceiveFrame
              PROVE  RxInv'
  OBVIOUS
<1>1. PICK m \in rx_rd..rx_wr : rx_done = RingOf(rx_rd, m) /\ rx_posted = RingOf(m, rx_wr)
  BY DEF RxInv, RxPlaces
<1>2. /\ rx_rd \in Nat /\ rx_wr \in Nat /\ rx_rd <= rx_wr /\ rx_wr - rx_rd <= RingSize - 2 /\ m \in Int
      /\ rx_cnt = rx_wr - rx_rd /\ rx_failed \in Nat /\ rx_cnt + rx_failed = RxGiven
      /\ rx_lines \in Int /\ rx_lines <= Lines
  BY <1>1, RxGivenFits, RoomAssumption DEF RxInv, RxPlaces, RxCounts
<1>3. Entry(rx_rd) \in rx_done /\ step' = "turn" /\ rx_rd' = rx_rd + 1 /\ rx_done' = rx_done \ {Entry(rx_rd)}
  BY DEF RxInv, RxSeen, ReceiveFrame, Goes
<1>4. rx_rd < m
  <2>1. m = rx_rd => rx_done = {}
    BY <1>1, <1>2 DEF RingOf
  <2>. QED
    BY <1>1, <1>2, <1>3, <2>1
<1>5. rx_done' = RingOf(rx_rd + 1, m)
  BY <1>1, <1>2, <1>3, <1>4, RingShrinks, RoomAssumption
<1>6. PICK allocated \in BOOLEAN :
        /\ rx_cnt' = IF allocated THEN rx_cnt ELSE rx_cnt - 1
        /\ rx_lines' = IF allocated THEN rx_lines ELSE rx_lines - RxLines
        /\ rx_posted' = IF allocated THEN rx_posted \cup {Entry(rx_wr)} ELSE rx_posted
        /\ rx_wr' = IF allocated THEN rx_wr + 1 ELSE rx_wr
        /\ rx_failed' = IF allocated THEN rx_failed ELSE rx_failed + 1
  <2>1. (rx_cnt - 1) + 1 <= RingSize /\ (rx_lines - RxLines) + RxLines <= Lines
    BY <1>2, RoomAssumption
  <2>2. SendRxDsc(rx_cnt - 1, rx_lines - RxLines)
    BY DEF ReceiveFrame
  <2>3. (rx_cnt - 1) + 1 = rx_cnt /\ (rx_lines - RxLines) + RxLines = rx_lines
    BY <1>2, RoomAssumption
  <2>. QED
    BY <2>1, <2>2, <2>3 DEF SendRxDsc
<1>7. rx_posted' = RingOf(m, rx_wr')
  <2>1. RingOf(m, rx_wr + 1) = RingOf(m, rx_wr) \cup {Entry(rx_wr)}
    BY <1>1, <1>2, RingGrows
  <2>. QED
    BY <1>1, <1>6, <2>1
<1>8. RxPlaces'
  <2>1. m \in rx_rd'..rx_wr' /\ rx_rd' \in Nat /\ rx_wr' \in Nat /\ rx_rd' <= rx_wr'
    BY <1>1, <1>2, <1>3, <1>4, <1>6
  <2>. QED
    BY <1>3, <1>5, <1>7, <2>1 DEF RxPlaces
<1>9. RxCounts'
  BY <1>2, <1>3, <1>6, RoomAssumption DEF RxCounts
<1>. QED
  BY <1>3, <1>8, <1>9 DEF RxInv, RxSeen

LEMMA RxNextInv == RxInv /\ [Next]_vars => RxInv'
<1>. SUFFICES ASSUME RxInv, [Next]_vars
              PROVE  RxInv'
  OBVIOUS
<1>1. CASE CardReceives
  BY <1>1, RxReceives
<1>2. CASE ReceiveFrame
  BY <1>2, RxRefills
<1>3. CASE UNCHANGED <<rx_vars, step, seen>>
  BY <1>3 DEF rx_vars, RxInv, RxSeen, RxPlaces, RxCounts
<1>4. ASSUME UNCHANGED rx_vars, RxSeen'
      PROVE  RxInv'
  BY <1>4 DEF rx_vars, RxInv, RxPlaces, RxCounts
<1>5. CASE Begin \/ MaskInterrupts \/ Invalidate \/ Clean \/ Restart \/ Turn
  <2>1. UNCHANGED rx_vars
    BY <1>5 DEF Begin, MaskInterrupts, Invalidate, Clean, Restart, Turn
  <2>2. RxSeen'
    BY <1>5, <2>1 DEF Begin, MaskInterrupts, Invalidate, Clean, Restart, Turn, Goes, AfterTx, RxInv, RxSeen,
                      rx_vars
  <2>. QED
    BY <1>4, <2>1, <2>2
<1>6. CASE ReadBuffers
  <2>1. UNCHANGED rx_vars
    BY <1>6 DEF ReadBuffers
  <2>2. RxSeen'
    BY <1>6, <2>1 DEF ReadBuffers, Goes, RxInv, RxSeen, rx_vars
  <2>. QED
    BY <1>4, <2>1, <2>2
<1>7. ASSUME NEW p \in Ports, nf10priv_xmit(p)
      PROVE  UNCHANGED <<rx_vars, step, seen>>
  BY <1>7 DEF nf10priv_xmit, Reserve, ReserveFull, CheckRoom, StopQueue, Post, loop_vars, vars
<1>8. ASSUME NEW e \in Entries, CardSends(e)
      PROVE  UNCHANGED <<rx_vars, step, seen>>
  BY <1>8 DEF CardSends, loop_vars
<1>9. int_handler \/ UNCHANGED vars => UNCHANGED <<rx_vars, step, seen>>
  BY DEF int_handler, vars, loop_vars
<1>. QED
  BY <1>1, <1>2, <1>3, <1>5, <1>6, <1>7, <1>8, <1>9 DEF Next, work_handler

(* Whatever the card and the interfaces do meanwhile, the handler gives    *)
(* the card a descriptor for each frame that it takes from it, so that the *)
(* receive ring only shrinks when an allocation fails.                     *)
THEOREM RxRingCorrect == Spec => []RxRingRefilled
<1>1. RxInv => RxRingRefilled
  <2>. SUFFICES ASSUME RxInv
                PROVE  RxRingRefilled
    OBVIOUS
  <2>1. PICK m \in rx_rd..rx_wr : rx_done = RingOf(rx_rd, m) /\ rx_posted = RingOf(m, rx_wr)
    BY DEF RxInv, RxPlaces
  <2>2. /\ rx_rd \in Nat /\ rx_wr \in Nat /\ rx_rd <= rx_wr /\ rx_wr - rx_rd <= RingSize - 2
        /\ rx_cnt = rx_wr - rx_rd /\ rx_cnt + rx_failed = RxGiven
    BY RxGivenFits, RoomAssumption DEF RxInv, RxPlaces, RxCounts
  <2>3. rx_posted \cup rx_done = RingOf(rx_rd, rx_wr)
    BY <2>1, <2>2, RingSplits
  <2>4. Cardinality(RingOf(rx_rd, rx_wr)) = rx_wr - rx_rd
    BY <2>2, RingCount, RoomAssumption
  <2>. QED
    BY <2>2, <2>3, <2>4 DEF RxRingRefilled
<1>. QED
  BY <1>1, RxInitInv, RxNextInv, PTL DEF Spec

-----------------------------------------------------------------------------
(* Transmitting.                                                           *)

Place == [pos : Int, size : Nat, line : Nat]

Outstanding == tx_rd..(tx_wr - 1)

Calling == {p \in Ports : pc[p] # "idle"}

(* Completions that the handler has yet to handle.                         *)
Finished == tx_done \ {Entry(tx_rd - 1) : s \in {step} \cap {"invalidate"}}

TxType ==
  /\ tx_rd \in Nat /\ tx_wr \in Nat /\ tx_rd <= tx_wr
  /\ tx_cnt = tx_wr - tx_rd /\ tx_cnt <= RingSize
  /\ tx_lines \in Int
  /\ tx_posted \subseteq Entries /\ tx_done \subseteq Entries
  /\ pc \in [Ports -> {"idle", "check", "stop", "post"}]
  /\ mine \in [Ports -> Place] /\ tx_bk \in [Entries -> Place]

(* The completion that a pass has seen stands until it is handled.         *)
TxSeen ==
  /\ step \in {"idle", "top", "read", "clean", "invalidate", "restart", "receive", "turn"}
  /\ step = "clean" => Entry(tx_rd) \in tx_done

(* A place that was reserved is held by one call, by its descriptor or by  *)
(* its completion, and by one of them only.                                *)
TxPlaces ==
  /\ tx_posted \cap Finished = {}
  /\ \A p \in Calling : /\ mine[p].pos \in Outstanding
                        /\ Entry(mine[p].pos) \notin tx_posted \cup Finished
  /\ \A p, q \in Calling : mine[p].pos = mine[q].pos => p = q
  /\ \A e \in tx_posted \cup Finished : tx_bk[e].pos \in Outstanding /\ Entry(tx_bk[e].pos) = e

TxShape == TxType /\ TxSeen /\ TxPlaces

(* The lines of the packet memory counted without wrap-around, too: f says *)
(* where each place starts; the places follow each other, none takes less  *)
(* than least lines, and together they fit.                                *)
Lies(f, a) == a.line = f[a.pos] % Lines /\ f[a.pos + 1] = f[a.pos] + a.size

LinesLaid(f, least) ==
  /\ f[tx_wr] = f[tx_rd] + tx_lines /\ tx_lines <= Lines
  /\ pkt_wr = f[tx_wr] % Lines
  /\ \A i, j \in tx_rd..tx_wr : i <= j => f[i] + (least * (j - i)) <= f[j]
  /\ \A p \in Calling : Lies(f, mine[p])
  /\ \A e \in tx_posted \cup Finished : Lies(f, tx_bk[e])

TxLines(least) == \E f \in [Nat -> Nat] : LinesLaid(f, least)

TxInv(least) == TxShape /\ TxLines(least)

LEMMA TxInitInv == ASSUME NEW least \in Nat PROVE Init => TxInv(least)
<1>. SUFFICES ASSUME Init
              PROVE  TxInv(least)
  OBVIOUS
<1>1. /\ tx_wr = 0 /\ tx_rd = 0 /\ tx_cnt = 0 /\ tx_lines = 0 /\ pkt_wr = 0
      /\ tx_bk = [e \in Entries |-> NoPlace] /\ tx_posted = {} /\ tx_done = {}
      /\ pc = [p \in Ports |-> "idle"] /\ mine = [p \in Ports |-> NoPlace] /\ step = "idle"
  BY DEF Init
<1>2. Calling = {} /\ Finished = {} /\ NoPlace \in Place
  BY <1>1 DEF Calling, Finished, NoPlace, Place
<1>3. TxShape
  BY <1>1, <1>2, RoomAssumption DEF TxShape, TxType, TxSeen, TxPlaces
<1>4. LinesLaid([k \in Nat |-> 0], least)
  <2>1. 0 % Lines = 0
    BY SmallRemainder, RoomAssumption
  <2>2. least * 0 = 0
    OBVIOUS
  <2>3. \A i, j \in 0..0 : i = 0 /\ j = 0
    OBVIOUS
  <2>4. \A i, j \in tx_rd..tx_wr : i <= j => [k \in Nat |-> 0][i] + (least * (j - i)) <= [k \in Nat |-> 0][j]
    BY <1>1, <2>2, <2>3
  <2>. QED
    BY <1>1, <1>2, <2>1, <2>4, RoomAssumption DEF LinesLaid
<1>. QED
  BY <1>3, <1>4 DEF TxInv, TxLines

(* A step that leaves the places where they are.                           *)
LEMMA TxStays ==
  ASSUME NEW least \in Nat, TxInv(least),
         UNCHANGED <<tx_wr, pkt_wr, mine, tx_bk, tx_rd, tx_cnt, tx_lines, tx_posted>>,
         tx_done' \subseteq Entries, pc' \in [Ports -> {"idle", "check", "stop", "post"}],
         Calling' = Calling, Finished' = Finished, TxSeen'
  PROVE  TxInv(least)'
<1>1. TxType' /\ TxPlaces'
  BY DEF TxInv, TxShape, TxType, TxPlaces, Outstanding
<1>2. PICK f \in [Nat -> Nat] : LinesLaid(f, least)
  BY DEF TxInv, TxLines
<1>3. LinesLaid(f, least)'
  BY <1>2 DEF LinesLaid, Lies
<1>. QED
  BY <1>1, <1>2, <1>3 DEF TxInv, TxShape, TxLines

(* nf10priv_xmit takes the next descriptor and the next lines.             *)
LEMMA TxReserves ==
  ASSUME NEW least \in Nat, \A s \in Sizes : least <= s, TxInv(least),
         NEW p \in Ports, NEW size \in Sizes, Reserve(p, size)
  PROVE  TxInv(least)'
<1>1. PICK a : a = [pos |-> tx_wr, size |-> size, line |-> pkt_wr]
  OBVIOUS
<1>2. /\ pc[p] = "idle" /\ tx_cnt + 1 <= RingSize /\ tx_lines + size <= Lines
      /\ tx_wr' = tx_wr + 1 /\ pkt_wr' = (pkt_wr + size) % Lines
      /\ mine' = [mine EXCEPT ![p] = a] /\ pc' = [pc EXCEPT ![p] = "check"]
      /\ tx_cnt' = tx_cnt + 1 /\ tx_lines' = tx_lines + size
      /\ UNCHANGED <<tx_bk, tx_rd, tx_posted, tx_done, step>>
  BY <1>1 DEF Reserve, Calls, Fits, AdvancePointers, loop_vars
<1>3. TxType
  BY DEF TxInv, TxShape
<1>4. PICK f \in [Nat -> Nat] : LinesLaid(f, least)
  BY DEF TxInv, TxLines
<1>5. /\ tx_rd \in Nat /\ tx_wr \in Nat /\ tx_rd <= tx_wr /\ tx_wr - tx_rd < RingSize
      /\ size \in Nat /\ least <= size /\ pkt_wr \in Nat /\ tx_lines \in Int
  <2>1. pkt_wr = f[tx_wr] % Lines /\ f[tx_wr] \in Nat /\ f[tx_wr] = f[tx_rd] + tx_lines /\ f[tx_rd] \in Nat
    BY <1>3, <1>4 DEF LinesLaid, TxType
  <2>2. pkt_wr \in Nat
    BY <2>1, Division, RoomAssumption
  <2>3. size \in Nat /\ least <= size
    BY RoomAssumption
  <2>4. tx_rd \in Nat /\ tx_wr \in Nat /\ tx_rd <= tx_wr /\ tx_wr - tx_rd < RingSize
    BY <1>2, <1>3, RoomAssumption DEF TxType
  <2>5. tx_lines \in Int
    BY <1>3 DEF TxType
  <2>. QED
    BY <2>2, <2>3, <2>4, <2>5
<1>6. a \in Place /\ a.pos = tx_wr /\ a.size = size /\ a.line = pkt_wr
  BY <1>1, <1>5 DEF Place
<1>7. /\ Finished' = Finished /\ Calling' = Calling \cup {p} /\ p \notin Calling
      /\ mine'[p] = a /\ \A q \in Calling : mine'[q] = mine[q]
  BY <1>2, <1>3 DEF Finished, Calling, TxType
<1>8. Outstanding' = Outstanding \cup {tx_wr} /\ tx_wr \notin Outstanding
  BY <1>2, <1>5 DEF Outstanding
<1>9. \A k \in Outstanding : Entry(k) # Entry(tx_wr)
  BY <1>5, EntriesDiffer, RoomAssumption DEF Outstanding
<1>10. TxType'
  BY <1>2, <1>3, <1>5, <1>6 DEF TxType
<1>11. TxPlaces'
  <2>1. TxPlaces
    BY DEF TxInv, TxShape
  <2>2. Entry(tx_wr) \notin tx_posted \cup Finished
    BY <1>9, <2>1 DEF TxPlaces
  <2>. QED
    BY <1>2, <1>6, <1>7, <1>8, <2>1, <2>2 DEF TxPlaces
<1>12. PICK g : g = [f EXCEPT ![tx_wr + 1] = f[tx_wr] + size]
  OBVIOUS
<1>13. /\ g \in [Nat -> Nat] /\ g[tx_wr + 1] = f[tx_wr] + size /\ g[tx_wr] = f[tx_wr]
       /\ \A k \in tx_rd..tx_wr : g[k] = f[k]
  <2>1. f[tx_wr] + size \in Nat /\ tx_wr + 1 \in Nat
    BY <1>5
  <2>2. g \in [Nat -> Nat] /\ g[tx_wr + 1] = f[tx_wr] + size
    BY <1>12, <2>1
  <2>3. \A k \in tx_rd..tx_wr : g[k] = f[k]
    BY <1>5, <1>12
  <2>. QED
    BY <1>5, <2>2, <2>3
<1>14. LinesLaid(g, least)'
  <2>1. g[tx_wr'] = g[tx_rd'] + tx_lines' /\ tx_lines' <= Lines
    <3>1. f[tx_wr] = f[tx_rd] + tx_lines /\ f[tx_wr] \in Nat /\ f[tx_rd] \in Nat
      BY <1>4, <1>5 DEF LinesLaid
    <3>2. g[tx_rd] = f[tx_rd]
      BY <1>5, <1>13
    <3>. QED
      BY <1>2, <1>5, <1>13, <3>1, <3>2
  <2>2. pkt_wr' = g[tx_wr'] % Lines
    <3>1. pkt_wr = f[tx_wr] % Lines /\ f[tx_wr] \in Nat
      BY <1>4, <1>5 DEF LinesLaid
    <3>2. PICK x \in Nat : x = f[tx_wr]
      BY <3>1
    <3>3. Lines \in Nat /\ Lines > 0 /\ x \in Int /\ size \in Int
      BY <1>5, RoomAssumption
    <3>4. ((x % Lines) + size) % Lines = (x + size) % Lines
      BY <3>3, ReduceTerm
    <3>. QED
      BY <1>2, <1>13, <3>1, <3>2, <3>4
  <2>3. ASSUME NEW i \in tx_rd'..tx_wr', NEW j \in tx_rd'..tx_wr', i <= j
        PROVE  g[i] + (least * (j - i)) <= g[j]
    <3>1. \A x, y \in tx_rd..tx_wr : x <= y => f[x] + (least * (y - x)) <= f[y]
      BY <1>4 DEF LinesLaid
    <3>2. CASE j \in tx_rd..tx_wr
      <4>1. i \in tx_rd..tx_wr
        BY <1>2, <1>5, <2>3, <3>2
      <4>. QED
        BY <1>13, <2>3, <3>1, <3>2, <4>1
    <3>3. CASE j = tx_wr + 1 /\ i \in tx_rd..tx_wr
      <4>1. PICK n : n = tx_wr - i
        OBVIOUS
      <4>2. n \in Nat /\ j - i = n + 1
        BY <1>5, <3>3, <4>1
      <4>3. PICK x, y : x = least * n /\ y = least * (n + 1)
        OBVIOUS
      <4>4. x \in Int /\ y = x + least
        BY <4>2, <4>3, Multiples
      <4>5. f[i] + x <= f[tx_wr]
        BY <1>5, <3>1, <3>3, <4>1, <4>3
      <4>6. f[i] \in Nat /\ f[tx_wr] \in Nat /\ g[i] = f[i] /\ g[j] = f[tx_wr] + size
        BY <1>5, <1>13, <3>3
      <4>7. f[i] + y <= f[tx_wr] + size
        BY <1>5, <4>4, <4>5, <4>6
      <4>. QED
        BY <4>2, <4>3, <4>6, <4>7
    <3>4. CASE j = tx_wr + 1 /\ i = tx_wr + 1
      <4>1. least * 0 = 0 /\ j - i = 0 /\ g[i] \in Nat /\ g[j] = g[i]
        BY <1>5, <1>13, <3>4
      <4>. QED
        BY <4>1
    <3>5. /\ j \in tx_rd..tx_wr \/ j = tx_wr + 1
          /\ i \in tx_rd..tx_wr \/ i = tx_wr + 1
      BY <1>2, <1>5
    <3>. QED
      BY <3>2, <3>3, <3>4, <3>5
  <2>4. ASSUME NEW b, b.pos \in Outstanding, Lies(f, b)
        PROVE  Lies(g, b)
    <3>1. b.pos \in tx_rd..tx_wr /\ b.pos + 1 \in tx_rd..tx_wr
      BY <1>5, <2>4 DEF Outstanding
    <3>. QED
      BY <1>13, <2>4, <3>1 DEF Lies
  <2>5. Lies(g, a)
    BY <1>4, <1>6, <1>13 DEF Lies, LinesLaid
  <2>6. \A q \in Calling' : Lies(g, mine'[q])
    <3>1. \A q \in Calling : Lies(f, mine[q]) /\ mine[q].pos \in Outstanding
      BY <1>4 DEF LinesLaid, TxInv, TxShape, TxPlaces
    <3>. QED
      BY <1>7, <2>4, <2>5, <3>1
  <2>7. \A e \in tx_posted' \cup Finished' : Lies(g, tx_bk'[e])
    <3>1. \A e \in tx_posted \cup Finished : Lies(f, tx_bk[e]) /\ tx_bk[e].pos \in Outstanding
      BY <1>4 DEF LinesLaid, TxInv, TxShape, TxPlaces
    <3>. QED
      BY <1>2, <1>7, <2>4, <3>1
  <2>. QED
    BY <2>1, <2>2, <2>3, <2>6, <2>7 DEF LinesLaid, Lies
<1>15. TxSeen'
  BY <1>2 DEF TxSeen, TxInv, TxShape
<1>. QED
  BY <1>10, <1>11, <1>13, <1>14, <1>15 DEF TxInv, TxShape, TxLines

(* The card is given the descriptor.                                       *)
LEMMA TxPosts ==
  ASSUME NEW least \in Nat, TxInv(least), NEW p \in Ports, Post(p)
  PROVE  TxInv(least)'
<1>1. PICK a, e : a = mine[p] /\ e = Entry(mine[p].pos)
  OBVIOUS
<1>2. /\ pc[p] = "post" /\ pc' = [pc EXCEPT ![p] = "idle"] /\ mine' = [mine EXCEPT ![p] = NoPlace]
      /\ tx_bk' = [tx_bk EXCEPT ![e] = a] /\ tx_posted' = tx_posted \cup {e}
      /\ UNCHANGED <<tx_wr, pkt_wr, tx_rd, tx_cnt, tx_lines, tx_done, step>>
  BY <1>1 DEF Post, loop_vars
<1>3. TxType /\ TxPlaces
  BY DEF TxInv, TxShape
<1>4. p \in Calling /\ a \in Place /\ a.pos \in Outstanding /\ e = Entry(a.pos) /\ e \notin tx_posted \cup Finished
  BY <1>1, <1>2, <1>3 DEF TxType, TxPlaces, Calling
<1>5. e \in Entries
  BY <1>3, <1>4, EntryType DEF Outstanding, TxType
<1>6. /\ Finished' = Finished /\ Outstanding' = Outstanding /\ Calling' = Calling \ {p}
      /\ \A q \in Calling \ {p} : mine'[q] = mine[q]
      /\ tx_bk'[e] = a /\ \A d \in tx_posted \cup Finished : tx_bk'[d] = tx_bk[d]
  <2>1. Finished' = Finished /\ Outstanding' = Outstanding
    BY <1>2 DEF Finished, Outstanding
  <2>2. Calling' = Calling \ {p} /\ \A q \in Calling \ {p} : mine'[q] = mine[q]
    BY <1>2, <1>3 DEF TxType, Calling
  <2>3. tx_bk'[e] = a /\ \A d \in tx_posted \cup Finished : tx_bk'[d] = tx_bk[d]
    BY <1>2, <1>3, <1>4, <1>5 DEF TxType, Finished
  <2>. QED
    BY <2>1, <2>2, <2>3
<1>7. \A q \in Calling \ {p} : Entry(mine[q].pos) # e
  <2>1. ASSUME NEW q \in Calling \ {p} PROVE Entry(mine[q].pos) # e
    <3>1. PICK x, y : x = mine[q].pos /\ y = a.pos
      OBVIOUS
    <3>2. x \in Outstanding /\ y \in Outstanding /\ x # y
      BY <1>1, <1>3, <1>4, <3>1 DEF TxPlaces
    <3>3. x \in Int /\ y \in Int /\ (x < y \/ y < x) /\ x < y + RingSize /\ y < x + RingSize
      BY <1>3, <3>2, RoomAssumption DEF Outstanding, TxType
    <3>4. Entry(x) # Entry(y)
      BY <3>3, EntriesDiffer
    <3>. QED
      BY <1>4, <3>1, <3>4
  <2>. QED
    BY <2>1
<1>8. TxType'
  <2>1. NoPlace \in Place
    BY DEF NoPlace, Place
  <2>. QED
    BY <1>2, <1>3, <1>4, <1>5, <2>1 DEF TxType
<1>9. TxPlaces'
  <2>1. tx_posted' \cap Finished' = {}
    BY <1>2, <1>3, <1>4, <1>6 DEF TxPlaces
  <2>2. \A q \in Calling' : /\ mine'[q].pos \in Outstanding'
                            /\ Entry(mine'[q].pos) \notin tx_posted' \cup Finished'
    BY <1>2, <1>3, <1>6, <1>7 DEF TxPlaces
  <2>3. \A q, r \in Calling' : mine'[q].pos = mine'[r].pos => q = r
    BY <1>3, <1>6 DEF TxPlaces
  <2>4. \A d \in tx_posted' \cup Finished' : tx_bk'[d].pos \in Outstanding' /\ Entry(tx_bk'[d].pos) = d
    BY <1>2, <1>3, <1>4, <1>6 DEF TxPlaces
  <2>. QED
    BY <2>1, <2>2, <2>3, <2>4 DEF TxPlaces, Entry
<1>10. PICK f \in [Nat -> Nat] : LinesLaid(f, least)
  BY DEF TxInv, TxLines
<1>11. LinesLaid(f, least)'
  <2>1. \A q \in Calling' : Lies(f, mine'[q])
    BY <1>6, <1>10 DEF LinesLaid
  <2>2. \A d \in tx_posted' \cup Finished' : Lies(f, tx_bk'[d])
    BY <1>1, <1>2, <1>4, <1>6, <1>10 DEF LinesLaid
  <2>. QED
    BY <1>2, <1>10, <2>1, <2>2 DEF LinesLaid, Lies
<1>12. TxSeen'
  BY <1>2 DEF TxSeen, TxInv, TxShape
<1>. QED
  BY <1>8, <1>9, <1>10, <1>11, <1>12 DEF TxInv, TxShape, TxLines

(* The card finishes a packet.                                             *)
LEMMA TxSends ==
  ASSUME NEW least \in Nat, TxInv(least), NEW e \in Entries, CardSends(e)
  PROVE  TxInv(least)'
<1>1. /\ e \in tx_posted /\ tx_posted' = tx_posted \ {e} /\ tx_done' = tx_done \cup {e}
      /\ UNCHANGED <<tx_wr, pkt_wr, mine, tx_bk, tx_rd, tx_cnt, tx_lines, pc, step>>
  BY DEF CardSends, tx_ring, loop_vars
<1>2. TxType /\ TxPlaces
  BY DEF TxInv, TxShape
<1>3. /\ Calling' = Calling /\ Outstanding' = Outstanding
      /\ Finished' \subseteq Finished \cup {e} /\ Finished \subseteq Finished'
  BY <1>1 DEF Calling, Outstanding, Finished
<1>4. tx_posted' \cup Finished' \subseteq tx_posted \cup Finished /\ tx_posted' \cap Finished' = {}
  BY <1>1, <1>2, <1>3 DEF TxPlaces
<1>5. TxType'
  BY <1>1, <1>2 DEF TxType
<1>6. TxPlaces'
  BY <1>1, <1>2, <1>3, <1>4 DEF TxPlaces
<1>7. PICK f \in [Nat -> Nat] : LinesLaid(f, least)
  BY DEF TxInv, TxLines
<1>8. LinesLaid(f, least)'
  BY <1>1, <1>3, <1>4, <1>7 DEF LinesLaid, Lies
<1>9. TxSeen'
  BY <1>1 DEF TxSeen, TxInv, TxShape
<1>. QED
  BY <1>5, <1>6, <1>7, <1>8, <1>9 DEF TxInv, TxShape, TxLines

(* work_handler gives the oldest place back.                               *)
LEMMA TxCleans ==
  ASSUME NEW least \in Nat, TxInv(least), Clean
  PROVE  TxInv(least)'
<1>1. PICK a, e : e = Entry(tx_rd) /\ a = tx_bk[e]
  OBVIOUS
<1>2. /\ step = "clean" /\ step' = "invalidate"
      /\ tx_bk' = [tx_bk EXCEPT ![e] = NoPlace] /\ tx_rd' = tx_rd + 1
      /\ tx_lines' = tx_lines - a.size /\ tx_cnt' = tx_cnt - 1
      /\ UNCHANGED <<tx_wr, pkt_wr, mine, tx_posted, tx_done, pc>>
  BY <1>1 DEF Clean, Goes
<1>3. TxType /\ TxPlaces /\ TxSeen
  BY DEF TxInv, TxShape
<1>4. Finished = tx_done /\ e \in Finished /\ e \in Entries
  BY <1>1, <1>2, <1>3 DEF Finished, TxSeen, TxType
<1>5. a \in Place /\ a.pos = tx_rd /\ tx_rd \in Outstanding
  <2>1. a \in Place /\ a.pos \in Outstanding /\ Entry(a.pos) = e
    BY <1>1, <1>3, <1>4 DEF TxType, TxPlaces
  <2>2. PICK x : x = a.pos
    OBVIOUS
  <2>3. x \in Int /\ tx_rd \in Int /\ tx_rd <= x /\ x < tx_rd + RingSize
    BY <1>3, <2>1, <2>2, RoomAssumption DEF Outstanding, TxType
  <2>4. ~(tx_rd < x)
    BY <1>1, <2>1, <2>2, <2>3, EntriesDiffer
  <2>. QED
    BY <2>1, <2>2, <2>3, <2>4
<1>6. /\ Calling' = Calling /\ Finished' = Finished \ {e} /\ Outstanding' = Outstanding \ {tx_rd}
      /\ e \notin tx_posted
  <2>1. tx_rd' - 1 = tx_rd
    BY <1>2, <1>3 DEF TxType
  <2>2. Finished' = tx_done \ {e}
    BY <1>1, <1>2, <2>1 DEF Finished, Entry
  <2>3. Outstanding' = Outstanding \ {tx_rd}
    BY <1>2, <1>3 DEF Outstanding, TxType
  <2>4. e \notin tx_posted
    BY <1>3, <1>4 DEF TxPlaces
  <2>. QED
    BY <1>2, <1>4, <2>2, <2>3, <2>4 DEF Calling
<1>7. \A d \in tx_posted' \cup Finished' : tx_bk'[d] = tx_bk[d] /\ tx_bk[d].pos # tx_rd
  <2>1. ASSUME NEW d \in tx_posted' \cup Finished' PROVE tx_bk'[d] = tx_bk[d] /\ tx_bk[d].pos # tx_rd
    <3>1. d \in tx_posted \cup Finished /\ d # e /\ d \in Entries
      BY <1>2, <1>3, <1>4, <1>6 DEF TxType
    <3>2. Entry(tx_bk[d].pos) = d
      BY <1>3, <3>1 DEF TxPlaces
    <3>. QED
      BY <1>1, <1>2, <1>3, <1>4, <3>1, <3>2 DEF TxType
  <2>. QED
    BY <2>1
<1>8. \A p \in Calling : mine[p].pos # tx_rd
  BY <1>1, <1>3, <1>4 DEF TxPlaces
<1>9. PICK f \in [Nat -> Nat] : LinesLaid(f, least)
  BY DEF TxInv, TxLines
<1>10. tx_rd \in Nat /\ tx_wr \in Nat /\ tx_rd + 1 <= tx_wr /\ a.size \in Nat /\ tx_lines \in Int
  BY <1>3, <1>5 DEF TxType, Outstanding, Place
<1>11. TxType'
  <2>1. NoPlace \in Place
    BY DEF NoPlace, Place
  <2>2. tx_bk' \in [Entries -> Place]
    BY <1>2, <1>3, <1>4, <2>1 DEF TxType
  <2>. QED
    <3>1. /\ tx_rd' \in Nat /\ tx_wr' \in Nat /\ tx_rd' <= tx_wr' /\ tx_lines' \in Int
          /\ tx_cnt' = tx_wr' - tx_rd' /\ tx_cnt' <= RingSize
      BY <1>2, <1>3, <1>10, RoomAssumption DEF TxType
    <3>2. tx_posted' \subseteq Entries /\ tx_done' \subseteq Entries
      BY <1>2, <1>3 DEF TxType
    <3>3. pc' \in [Ports -> {"idle", "check", "stop", "post"}] /\ mine' \in [Ports -> Place]
      BY <1>2, <1>3 DEF TxType
    <3>. QED
      BY <2>2, <3>1, <3>2, <3>3 DEF TxType
<1>12. TxPlaces'
  <2>1. tx_posted' \cap Finished' = {}
    BY <1>2, <1>3, <1>6 DEF TxPlaces
  <2>2. \A p \in Calling' : mine'[p].pos \in Outstanding' /\ Entry(mine'[p].pos) \notin tx_posted' \cup Finished'
    BY <1>2, <1>3, <1>6, <1>8 DEF TxPlaces
  <2>3. \A p, q \in Calling' : mine'[p].pos = mine'[q].pos => p = q
    BY <1>2, <1>3, <1>6 DEF TxPlaces
  <2>4. \A d \in tx_posted' \cup Finished' : tx_bk'[d].pos \in Outstanding' /\ Entry(tx_bk'[d].pos) = d
    BY <1>2, <1>3, <1>6, <1>7 DEF TxPlaces
  <2>. QED
    BY <2>1, <2>2, <2>3, <2>4 DEF TxPlaces, Entry
<1>13. LinesLaid(f, least)'
  <2>1. f[tx_wr] = f[tx_rd] + tx_lines /\ tx_lines <= Lines /\ pkt_wr = f[tx_wr] % Lines
    BY <1>9 DEF LinesLaid
  <2>2. f[tx_rd + 1] = f[tx_rd] + a.size
    BY <1>1, <1>4, <1>5, <1>9 DEF LinesLaid, Lies
  <2>3. f[tx_wr'] = f[tx_rd'] + tx_lines' /\ tx_lines' <= Lines
    <3>1. PICK x, y, z : x = f[tx_wr] /\ y = f[tx_rd] /\ z = f[tx_rd + 1]
      OBVIOUS
    <3>2. x \in Nat /\ y \in Nat /\ z \in Nat
      BY <1>10, <3>1
    <3>3. x = y + tx_lines /\ z = y + a.size
      BY <2>1, <2>2, <3>1
    <3>4. x = z + (tx_lines - a.size) /\ tx_lines - a.size <= Lines
      BY <1>10, <2>1, <3>2, <3>3, RoomAssumption
    <3>. QED
      BY <1>2, <3>1, <3>4
  <2>4. \A i, j \in tx_rd'..tx_wr' : i <= j => f[i] + (least * (j - i)) <= f[j]
    <3>1. tx_rd'..tx_wr' \subseteq tx_rd..tx_wr
      BY <1>2, <1>10
    <3>. QED
      BY <1>9, <3>1 DEF LinesLaid
  <2>5. \A p \in Calling' : Lies(f, mine'[p])
    BY <1>2, <1>6, <1>9 DEF LinesLaid
  <2>6. \A d \in tx_posted' \cup Finished' : Lies(f, tx_bk'[d])
    BY <1>2, <1>6, <1>7, <1>9 DEF LinesLaid
  <2>. QED
    BY <1>2, <2>1, <2>3, <2>4, <2>5, <2>6 DEF LinesLaid, Lies
<1>14. TxSeen'
  BY <1>2 DEF TxSeen
<1>. QED
  BY <1>9, <1>11, <1>12, <1>13, <1>14 DEF TxInv, TxShape, TxLines

LEMMA TxNextInv ==
  ASSUME NEW least \in Nat, \A s \in Sizes : least <= s
  PROVE  TxInv(least) /\ [Next]_vars => TxInv(least)'
<1>. SUFFICES ASSUME TxInv(least), [Next]_vars
              PROVE  TxInv(least)'
  OBVIOUS
<1>. DEFINE Same == UNCHANGED <<tx_wr, pkt_wr, mine, tx_bk, tx_rd, tx_cnt, tx_lines, tx_posted>>
            Codes == {"idle", "check", "stop", "post"}
<1>1. TxType /\ TxSeen
  BY DEF TxInv, TxShape
<1>2. ASSUME Same, tx_done' = tx_done, step' = step, pc' \in [Ports -> Codes], Calling' = Calling
      PROVE  TxInv(least)'
  <2>1. Finished' = Finished /\ TxSeen' /\ tx_done' \subseteq Entries
    BY <1>1, <1>2 DEF Finished, TxSeen, TxType
  <2>. QED
    BY <1>2, <2>1, TxStays
<1>3. ASSUME Same, tx_done' = tx_done, pc' = pc, step # "invalidate", step' # "invalidate", TxSeen'
      PROVE  TxInv(least)'
  <2>1. Finished' = Finished /\ tx_done' \subseteq Entries /\ pc' \in [Ports -> Codes] /\ Calling' = Calling
    BY <1>1, <1>3 DEF Finished, Calling, TxType
  <2>. QED
    BY <1>3, <2>1, TxStays
<1>4. ASSUME NEW p \in Ports, CheckRoom(p) \/ StopQueue(p)
      PROVE  TxInv(least)'
  <2>1. PICK s \in {"stop", "post"} : pc[p] # "idle" /\ pc' = [pc EXCEPT ![p] = s]
    BY <1>4 DEF CheckRoom, StopQueue
  <2>2. pc' \in [Ports -> Codes] /\ Calling' = Calling
    BY <1>1, <2>1 DEF TxType, Calling
  <2>3. Same /\ tx_done' = tx_done /\ step' = step
    BY <1>4 DEF CheckRoom, StopQueue, tx_ring, loop_vars
  <2>. QED
    BY <1>2, <2>2, <2>3
<1>5. CASE CardReceives \/ int_handler \/ UNCHANGED vars
  <2>1. UNCHANGED <<tx_vars, step>>
    BY <1>5 DEF CardReceives, int_handler, vars, loop_vars
  <2>2. Same /\ tx_done' = tx_done /\ step' = step /\ pc' = pc
    BY <2>1 DEF tx_vars, tx_ring
  <2>3. pc' \in [Ports -> Codes] /\ Calling' = Calling
    BY <1>1, <2>2 DEF TxType, Calling
  <2>. QED
    BY <1>2, <2>2, <2>3
<1>6. CASE Begin \/ MaskInterrupts \/ Turn \/ ReceiveFrame \/ Restart
  <2>1. Same /\ tx_done' = tx_done /\ pc' = pc
    BY <1>6 DEF Begin, MaskInterrupts, Turn, ReceiveFrame, Restart, tx_vars, tx_ring
  <2>2. step # "invalidate" /\ step' \in {"idle", "top", "read", "receive", "turn"}
    BY <1>6 DEF Begin, MaskInterrupts, Turn, ReceiveFrame, Restart, Goes, AfterTx
  <2>3. TxSeen'
    BY <2>2 DEF TxSeen
  <2>. QED
    BY <1>3, <2>1, <2>2, <2>3
<1>7. CASE ReadBuffers
  <2>1. Same /\ tx_done' = tx_done /\ pc' = pc
    BY <1>7 DEF ReadBuffers, tx_vars, tx_ring
  <2>2. step # "invalidate" /\ step' \in {"clean", "receive", "turn"} /\ (step' = "clean" => Entry(tx_rd) \in tx_done)
    BY <1>7 DEF ReadBuffers, Goes
  <2>3. TxSeen'
    BY <2>1, <2>2 DEF TxSeen, Entry
  <2>. QED
    BY <1>3, <2>1, <2>2, <2>3
<1>8. CASE Invalidate
  <2>1. /\ Same /\ pc' = pc /\ step = "invalidate" /\ step' = "restart"
        /\ tx_done' = tx_done \ {Entry(tx_rd - 1)}
    BY <1>8 DEF Invalidate, Goes, tx_ring
  <2>2. Finished' = Finished /\ tx_done' \subseteq Entries /\ TxSeen' /\ Calling' = Calling
        /\ pc' \in [Ports -> Codes]
    BY <1>1, <2>1 DEF Finished, TxSeen, Calling, TxType
  <2>. QED
    BY <2>1, <2>2, TxStays
<1>9. CASE Clean
  BY <1>9, TxCleans
<1>10. ASSUME NEW p \in Ports, nf10priv_xmit(p)
       PROVE  TxInv(least)'
  <2>1. ASSUME NEW size \in Sizes, ReserveFull(p, size) PROVE TxInv(least)'
    <3>1. UNCHANGED vars
      BY <2>1 DEF ReserveFull
    <3>. QED
      BY <1>5, <3>1
  <2>2. ASSUME NEW size \in Sizes, Reserve(p, size) PROVE TxInv(least)'
    BY <2>2, TxReserves
  <2>3. CASE Post(p)
    BY <2>3, TxPosts
  <2>. QED
    BY <1>4, <1>10, <2>1, <2>2, <2>3 DEF nf10priv_xmit
<1>11. ASSUME NEW e \in Entries, CardSends(e)
       PROVE  TxInv(least)'
  BY <1>11, TxSends
<1>. QED
  BY <1>5, <1>6, <1>7, <1>8, <1>9, <1>10, <1>11 DEF Next, work_handler

(* Two stretches of lines, one behind the other and no more than Lines     *)
(* long together, share none.                                              *)
LinesFrom(u, n) == {((u % Lines) + i) % Lines : i \in 0..(n - 1)}

LEMMA LinesApart ==
  ASSUME NEW u \in Nat, NEW s \in Nat, NEW v \in Nat, NEW t \in Nat, u + s <= v, v + t <= u + Lines
  PROVE  LinesFrom(u, s) \cap LinesFrom(v, t) = {}
<1>. SUFFICES ASSUME NEW i \in 0..(s - 1), NEW j \in 0..(t - 1),
                     ((u % Lines) + i) % Lines = ((v % Lines) + j) % Lines
              PROVE  FALSE
  BY DEF LinesFrom
<1>1. Lines \in Nat /\ Lines > 0 /\ u \in Int /\ v \in Int /\ i \in Int /\ j \in Int
  BY RoomAssumption
<1>2. ((u % Lines) + i) % Lines = (u + i) % Lines
  BY <1>1, ReduceTerm
<1>3. ((v % Lines) + j) % Lines = (v + j) % Lines
  BY <1>1, ReduceTerm
<1>4. PICK x, y : x = u + i /\ y = v + j
  OBVIOUS
<1>5. x \in Int /\ y \in Int /\ x < y /\ y < x + Lines
  BY <1>1, <1>4
<1>6. x % Lines # y % Lines
  BY <1>1, <1>5, NearDiffer
<1>. QED
  BY <1>2, <1>3, <1>4, <1>6

(* Two places outstanding have neither an entry nor a line in common.      *)
LEMMA PlacesApart ==
  ASSUME TxType, NEW f \in [Nat -> Nat], LinesLaid(f, 0),
         NEW a \in Place, NEW b \in Place, a.pos \in Outstanding, b.pos \in Outstanding,
         Lies(f, a), Lies(f, b), a.pos < b.pos
  PROVE  Entry(a.pos) # Entry(b.pos) /\ LinesOf(a) \cap LinesOf(b) = {}
<1>1. PICK x, y : x = a.pos /\ y = b.pos
  OBVIOUS
<1>2. /\ tx_rd \in Nat /\ tx_wr \in Nat /\ tx_rd <= x /\ x < y /\ y < tx_wr /\ x \in Nat /\ y \in Nat
      /\ tx_wr - tx_rd <= RingSize /\ RingSize \in Nat
  BY <1>1, RoomAssumption DEF TxType, Outstanding
<1>3. Entry(x) # Entry(y)
  BY <1>2, EntriesDiffer
<1>4. PICK u, s, v, t : u = f[x] /\ s = a.size /\ v = f[y] /\ t = b.size
  OBVIOUS
<1>5. u \in Nat /\ s \in Nat /\ v \in Nat /\ t \in Nat
  BY <1>2, <1>4 DEF Place
<1>6. /\ a.line = u % Lines /\ f[x + 1] = u + s
      /\ b.line = v % Lines /\ f[y + 1] = v + t
  BY <1>1, <1>4 DEF Lies
<1>7. \A i, j \in tx_rd..tx_wr : i <= j => f[i] <= f[j]
  <2>1. ASSUME NEW i \in tx_rd..tx_wr, NEW j \in tx_rd..tx_wr, i <= j PROVE f[i] <= f[j]
    <3>1. f[i] + (0 * (j - i)) <= f[j]
      BY <2>1 DEF LinesLaid
    <3>2. j - i \in Int /\ f[i] \in Nat /\ f[j] \in Nat
      BY <1>2
    <3>3. 0 * (j - i) = 0
      BY <3>2
    <3>. QED
      BY <3>1, <3>2, <3>3
  <2>. QED
    BY <2>1
<1>8. f[x + 1] <= v
  BY <1>2, <1>4, <1>7
<1>9. f[y + 1] <= f[tx_wr] /\ f[tx_rd] <= u
  BY <1>2, <1>4, <1>7
<1>10. f[tx_wr] <= f[tx_rd] + Lines
  <2>1. f[tx_wr] = f[tx_rd] + tx_lines /\ tx_lines <= Lines /\ tx_lines \in Int /\ f[tx_rd] \in Nat
    BY <1>2 DEF LinesLaid, TxType
  <2>. QED
    BY <2>1, RoomAssumption
<1>11. u + s <= v /\ v + t <= u + Lines
  <2>1. f[tx_wr] \in Nat /\ f[tx_rd] \in Nat
    BY <1>2
  <2>. QED
    BY <1>5, <1>6, <1>8, <1>9, <1>10, <2>1, RoomAssumption
<1>12. LinesOf(a) \cap LinesOf(b) = {}
  <2>1. LinesFrom(u, s) \cap LinesFrom(v, t) = {}
    BY <1>5, <1>11, LinesApart
  <2>2. LinesOf(a) = LinesFrom(u, s) /\ LinesOf(b) = LinesFrom(v, t)
    BY <1>4, <1>6 DEF LinesOf, LinesFrom
  <2>. QED
    BY <2>1, <2>2
<1>. QED
  BY <1>1, <1>3, <1>12

(* "make sure we fit in the descriptor ring and packet buffer": whoever    *)
(* transmits meanwhile, and although the handler frees places under        *)
(* another lock, no packet is given the descriptor or the lines of another *)
(* one that is not finished.                                               *)
THEOREM PlacesCorrect == Spec => []FitsBehindOthers
<1>1. TxInv(0) => FitsBehindOthers
  <2>. SUFFICES ASSUME TxInv(0), NEW a \in Reserved, NEW b \in Reserved \cup Standing, a.pos # b.pos
                PROVE  Entry(a.pos) # Entry(b.pos) /\ LinesOf(a) \cap LinesOf(b) = {}
    BY DEF FitsBehindOthers
  <2>1. TxType /\ TxPlaces
    BY DEF TxInv, TxShape
  <2>2. PICK f \in [Nat -> Nat] : LinesLaid(f, 0)
    BY DEF TxInv, TxLines
  <2>3. \A c \in Reserved \cup Standing : c \in Place /\ c.pos \in Outstanding /\ Lies(f, c)
    <3>1. \A c \in Reserved : c \in Place /\ c.pos \in Outstanding /\ Lies(f, c)
      BY <2>1, <2>2 DEF Reserved, TxType, TxPlaces, LinesLaid, Calling
    <3>2. Standing = {tx_bk[e] : e \in tx_posted \cup Finished}
      BY DEF Standing, Finished
    <3>3. \A e \in tx_posted \cup Finished : tx_bk[e] \in Place /\ tx_bk[e].pos \in Outstanding /\ Lies(f, tx_bk[e])
      BY <2>1, <2>2 DEF TxType, TxPlaces, LinesLaid, Finished
    <3>. QED
      BY <3>1, <3>2, <3>3
  <2>4. a.pos \in Int /\ b.pos \in Int
    BY <2>3 DEF Place
  <2>5. CASE a.pos < b.pos
    BY <2>1, <2>2, <2>3, <2>5, PlacesApart
  <2>6. CASE b.pos < a.pos
    BY <2>1, <2>2, <2>3, <2>6, PlacesApart
  <2>. QED
    BY <2>4, <2>5, <2>6
<1>2. 0 \in Nat /\ \A s \in Sizes : 0 <= s
  BY RoomAssumption
<1>3. Init => TxInv(0)
  BY <1>2, TxInitInv
<1>4. TxInv(0) /\ [Next]_vars => TxInv(0)'
  BY <1>2, TxNextInv
<1>. QED
  BY <1>1, <1>3, <1>4, PTL DEF Spec

-----------------------------------------------------------------------------
(* Stopped queues.  When the packets of a full memory cannot fill the ring *)
(* of descriptors, the completion that Invalidate erases is never that of  *)
(* a packet that has got the descriptor in the meantime.                   *)

NoneLost ==
  \A k \in Outstanding : \/ \E p \in Calling : mine[p].pos = k
                         \/ Entry(k) \in tx_posted \cup Finished

LEMMA RingNotFull ==
  ASSUME NEW least \in Nat, least * RingSize > Lines, TxInv(least)
  PROVE  tx_cnt < RingSize
<1>1. PICK f \in [Nat -> Nat] : LinesLaid(f, least)
  BY DEF TxInv, TxLines
<1>2. /\ tx_rd \in Nat /\ tx_wr \in Nat /\ tx_rd <= tx_wr /\ tx_cnt = tx_wr - tx_rd /\ tx_lines \in Int
      /\ tx_cnt <= RingSize
  BY DEF TxInv, TxShape, TxType
<1>3. f[tx_rd] + (least * (tx_wr - tx_rd)) <= f[tx_wr]
  BY <1>1, <1>2 DEF LinesLaid
<1>4. f[tx_rd] \in Nat /\ f[tx_wr] \in Nat /\ f[tx_wr] = f[tx_rd] + tx_lines /\ tx_lines <= Lines
  BY <1>1, <1>2 DEF LinesLaid
<1>5. SUFFICES ASSUME tx_cnt = RingSize
               PROVE  FALSE
  BY <1>2, RoomAssumption
<1>6. PICK x : x = least * RingSize
  OBVIOUS
<1>7. x \in Nat /\ x > Lines /\ f[tx_rd] + x <= f[tx_wr]
  BY <1>2, <1>3, <1>5, <1>6, RoomAssumption
<1>. QED
  BY <1>2, <1>4, <1>7, RoomAssumption

(* An empty ring holds no lines.                                           *)
LEMMA EmptyRing ==
  ASSUME NEW least \in Nat, TxInv(least), tx_rd = tx_wr
  PROVE  tx_cnt = 0 /\ tx_lines = 0
<1>1. PICK f \in [Nat -> Nat] : LinesLaid(f, least)
  BY DEF TxInv, TxLines
<1>2. tx_rd \in Nat /\ tx_cnt = tx_wr - tx_rd /\ tx_lines \in Int
  BY DEF TxInv, TxShape, TxType
<1>3. f[tx_wr] = f[tx_rd] + tx_lines /\ f[tx_rd] \in Nat
  BY <1>1, <1>2 DEF LinesLaid
<1>. QED
  BY <1>2, <1>3

LEMMA NoneLostKept ==
  ASSUME NEW least \in Nat, \A s \in Sizes : least <= s, least * RingSize > Lines,
         TxInv(least), NoneLost, [Next]_vars
  PROVE  NoneLost'
<1>1. TxType /\ TxSeen /\ TxPlaces /\ tx_cnt < RingSize
  BY RingNotFull DEF TxInv, TxShape
<1>2. /\ tx_rd \in Nat /\ tx_wr \in Nat /\ tx_rd <= tx_wr /\ tx_wr < tx_rd + RingSize
  BY <1>1, RoomAssumption DEF TxType
<1>3. ASSUME UNCHANGED <<tx_rd, tx_wr, Calling, mine, tx_posted, Finished>>
      PROVE  NoneLost'
  BY <1>3 DEF NoneLost, Outstanding, Entry
<1>4. ASSUME UNCHANGED <<tx_rd, tx_wr, mine, tx_posted, tx_done, step>>, Calling' = Calling
      PROVE  NoneLost'
  BY <1>3, <1>4 DEF Finished, Entry
<1>5. ASSUME NEW p \in Ports, NEW size \in Sizes, Reserve(p, size)
      PROVE  NoneLost'
  <2>1. /\ pc[p] = "idle" /\ pc' = [pc EXCEPT ![p] = "check"]
        /\ mine' = [mine EXCEPT ![p] = [pos |-> tx_wr, size |-> size, line |-> pkt_wr]]
        /\ tx_wr' = tx_wr + 1 /\ UNCHANGED <<tx_rd, tx_posted, tx_done, step>>
    BY <1>5 DEF Reserve, Calls, AdvancePointers, loop_vars
  <2>2. /\ Outstanding' = Outstanding \cup {tx_wr} /\ Finished' = Finished
    BY <1>2, <2>1 DEF Outstanding, Finished
  <2>3. Calling' = Calling \cup {p} /\ p \notin Calling /\ mine'[p].pos = tx_wr
        /\ \A q \in Calling : mine'[q] = mine[q]
    BY <1>1, <2>1 DEF Calling, TxType
  <2>. QED
    BY <2>1, <2>2, <2>3 DEF NoneLost, Entry
<1>6. ASSUME NEW p \in Ports, CheckRoom(p) \/ StopQueue(p)
      PROVE  NoneLost'
  <2>1. PICK s \in {"stop", "post"} : pc[p] # "idle" /\ pc' = [pc EXCEPT ![p] = s]
    BY <1>6 DEF CheckRoom, StopQueue
  <2>2. Calling' = Calling
    BY <1>1, <2>1 DEF TxType, Calling
  <2>. QED
    BY <1>4, <1>6, <2>2 DEF CheckRoom, StopQueue, tx_ring, loop_vars
<1>7. ASSUME NEW p \in Ports, Post(p)
      PROVE  NoneLost'
  <2>1. /\ pc' = [pc EXCEPT ![p] = "idle"] /\ mine' = [mine EXCEPT ![p] = NoPlace]
        /\ tx_posted' = tx_posted \cup {Entry(mine[p].pos)} /\ UNCHANGED <<tx_rd, tx_wr, tx_done, step>>
    BY <1>7 DEF Post, loop_vars
  <2>2. Outstanding' = Outstanding /\ Finished' = Finished /\ Calling' = Calling \ {p}
        /\ \A q \in Calling \ {p} : mine'[q] = mine[q]
    BY <1>1, <2>1 DEF Outstanding, Finished, Calling, TxType
  <2>3. ASSUME NEW k \in Outstanding
        PROVE  \/ \E q \in Calling' : mine'[q].pos = k
               \/ Entry(k) \in tx_posted' \cup Finished'
    <3>1. CASE Entry(k) \in tx_posted \cup Finished
      BY <2>1, <2>2, <3>1
    <3>2. ASSUME NEW q \in Calling, mine[q].pos = k
          PROVE  \/ \E r \in Calling' : mine'[r].pos = k
                 \/ Entry(k) \in tx_posted' \cup Finished'
      <4>1. CASE q = p
        BY <2>1, <3>2, <4>1
      <4>2. CASE q # p
        BY <2>2, <3>2, <4>2
      <4>. QED
        BY <4>1, <4>2
    <3>. QED
      BY <3>1, <3>2 DEF NoneLost
  <2>. QED
    BY <2>2, <2>3 DEF NoneLost, Entry
<1>8. ASSUME NEW e \in Entries, CardSends(e)
      PROVE  NoneLost'
  <2>1. /\ tx_posted' = tx_posted \ {e} /\ tx_done' = tx_done \cup {e}
        /\ UNCHANGED <<tx_rd, tx_wr, mine, pc, step>>
    BY <1>8 DEF CardSends, tx_ring, loop_vars
  <2>2. Outstanding' = Outstanding /\ Calling' = Calling
    BY <2>1 DEF Outstanding, Calling
  <2>3. ASSUME NEW k \in Outstanding, Entry(k) \in tx_posted \cup Finished
        PROVE  Entry(k) \in tx_posted' \cup Finished'
    <3>1. k \in Int /\ tx_rd - 1 < k /\ k < (tx_rd - 1) + RingSize /\ tx_rd - 1 \in Int
      BY <1>2, RoomAssumption DEF Outstanding
    <3>2. Entry(k) # Entry(tx_rd - 1)
      BY <3>1, EntriesDiffer
    <3>3. Entry(tx_rd' - 1) = Entry(tx_rd - 1)
      BY <2>1
    <3>. QED
      BY <2>1, <2>3, <3>2, <3>3 DEF Finished
  <2>. QED
    BY <2>1, <2>2, <2>3 DEF NoneLost, Entry
<1>9. CASE Clean
  <2>1. /\ step = "clean" /\ step' = "invalidate" /\ tx_rd' = tx_rd + 1
        /\ UNCHANGED <<tx_wr, mine, tx_posted, tx_done, pc>>
    BY <1>9 DEF Clean, Goes
  <2>2. tx_rd' - 1 = tx_rd /\ Calling' = Calling
    BY <1>2, <2>1 DEF Calling
  <2>3. Finished = tx_done /\ Finished' = tx_done \ {Entry(tx_rd)}
    BY <2>1, <2>2 DEF Finished, Entry
  <2>4. ASSUME NEW k \in Outstanding'
        PROVE  k \in Outstanding /\ Entry(k) # Entry(tx_rd)
    <3>1. k \in Int /\ tx_rd < k /\ k < tx_wr
      BY <1>2, <2>1 DEF Outstanding
    <3>2. k \in Outstanding /\ k < tx_rd + RingSize
      BY <1>2, <3>1, RoomAssumption DEF Outstanding
    <3>. QED
      BY <1>2, <3>1, <3>2, EntriesDiffer
  <2>5. Entry(tx_rd) \notin tx_posted
    BY <1>1, <2>1, <2>3 DEF TxSeen, TxPlaces
  <2>. QED
    BY <2>1, <2>2, <2>3, <2>4, <2>5 DEF NoneLost, Entry
<1>10. CASE Invalidate
  <2>1. /\ step = "invalidate" /\ step' = "restart" /\ tx_done' = tx_done \ {Entry(tx_rd - 1)}
        /\ UNCHANGED <<tx_rd, tx_wr, mine, tx_posted, pc>>
    BY <1>10 DEF Invalidate, Goes, tx_ring
  <2>2. Finished' = Finished /\ Calling' = Calling
    BY <2>1 DEF Finished, Calling
  <2>. QED
    BY <1>3, <2>1, <2>2
<1>11. CASE Begin \/ MaskInterrupts \/ ReadBuffers \/ Turn \/ ReceiveFrame \/ Restart
  <2>1. UNCHANGED <<tx_rd, tx_wr, mine, tx_posted, tx_done, pc>>
    BY <1>11 DEF Begin, MaskInterrupts, ReadBuffers, Turn, ReceiveFrame, Restart, tx_vars, tx_ring
  <2>2. step # "invalidate" /\ step' # "invalidate"
    BY <1>11 DEF Begin, MaskInterrupts, ReadBuffers, Turn, ReceiveFrame, Restart, Goes, AfterTx
  <2>3. Finished' = Finished /\ Calling' = Calling
    BY <2>1, <2>2 DEF Finished, Calling
  <2>. QED
    BY <1>3, <2>1, <2>3
<1>12. ASSUME UNCHANGED <<tx_vars, step>>
       PROVE  NoneLost'
  <2>1. UNCHANGED <<tx_rd, tx_wr, mine, tx_posted, tx_done, step>> /\ Calling' = Calling
    BY <1>12 DEF tx_vars, tx_ring, Calling
  <2>. QED
    BY <1>4, <2>1
<1>13. ASSUME CardReceives \/ int_handler \/ UNCHANGED vars
       PROVE  NoneLost'
  <2>1. UNCHANGED <<tx_vars, step>>
    BY <1>13 DEF CardReceives, int_handler, vars, loop_vars
  <2>. QED
    BY <1>12, <2>1
<1>14. ASSUME NEW p \in Ports, nf10priv_xmit(p)
       PROVE  NoneLost'
  <2>1. ASSUME NEW size \in Sizes, ReserveFull(p, size) PROVE NoneLost'
    BY <1>13, <2>1 DEF ReserveFull
  <2>. QED
    BY <1>5, <1>6, <1>7, <1>14, <2>1 DEF nf10priv_xmit
<1>. QED
  BY <1>8, <1>9, <1>10, <1>11, <1>13, <1>14 DEF Next, work_handler

StopInv(least) == TxInv(least) /\ NoneLost /\ StoppedHasCompletion

(* What will restart the queues stays under way, until it restarts them.   *)
LEMMA StoppedKept ==
  ASSUME NEW least \in Nat, \A s \in Sizes : least <= s, least * RingSize > Lines,
         StopInv(least), [Next]_vars
  PROVE  StoppedHasCompletion'
<1>. DEFINE Busy == Calling # {} \/ tx_posted # {} \/ tx_done # {} \/ step \in {"invalidate", "restart"}
<1>1. TxType /\ StoppedHasCompletion
  BY DEF StopInv, TxInv, TxShape
<1>2. (Reserved # {} <=> Calling # {}) /\ (Reserved' # {} <=> Calling' # {})
  BY DEF Reserved, Calling
<1>3. stopped # {} => Busy
  BY <1>1, <1>2 DEF StoppedHasCompletion
<1>4. Busy' => StoppedHasCompletion'
  BY <1>2 DEF StoppedHasCompletion
<1>5. ASSUME stopped' = {} PROVE StoppedHasCompletion'
  BY <1>5 DEF StoppedHasCompletion
<1>6. ASSUME stopped' = stopped, Calling \subseteq Calling', UNCHANGED <<tx_posted, tx_done>>,
             step \in {"invalidate", "restart"} => step' \in {"invalidate", "restart"}
      PROVE  StoppedHasCompletion'
  BY <1>3, <1>4, <1>5, <1>6
<1>7. ASSUME NEW p \in Ports, nf10priv_xmit(p)
      PROVE  StoppedHasCompletion'
  <2>1. ASSUME NEW size \in Sizes, Reserve(p, size) PROVE Busy'
    <3>1. pc' = [pc EXCEPT ![p] = "check"]
      BY <2>1 DEF Reserve
    <3>2. p \in Calling'
      BY <1>1, <3>1 DEF Calling, TxType
    <3>. QED
      BY <3>2
  <2>2. ASSUME NEW size \in Sizes, ReserveFull(p, size) PROVE StoppedHasCompletion'
    <3>1. UNCHANGED vars
      BY <2>2 DEF ReserveFull
    <3>2. UNCHANGED <<stopped, pc, tx_posted, tx_done, step>>
      BY <3>1 DEF vars, tx_vars, loop_vars
    <3>. QED
      BY <1>6, <3>2 DEF Calling
  <2>3. CASE CheckRoom(p) \/ StopQueue(p)
    <3>1. PICK s \in {"stop", "post"} : pc' = [pc EXCEPT ![p] = s]
      BY <2>3 DEF CheckRoom, StopQueue
    <3>2. p \in Calling'
      BY <1>1, <3>1 DEF Calling, TxType
    <3>. QED
      BY <1>4, <3>2
  <2>4. CASE Post(p)
    <3>1. tx_posted' # {}
      BY <2>4 DEF Post
    <3>. QED
      BY <1>4, <3>1
  <2>. QED
    BY <1>4, <1>7, <2>1, <2>2, <2>3, <2>4 DEF nf10priv_xmit
<1>8. ASSUME NEW e \in Entries, CardSends(e)
      PROVE  StoppedHasCompletion'
  <2>1. tx_done' # {}
    BY <1>8 DEF CardSends
  <2>. QED
    BY <1>4, <2>1
<1>9. CASE CardReceives \/ int_handler \/ UNCHANGED vars
  <2>1. UNCHANGED <<stopped, pc, tx_posted, tx_done, step>>
    BY <1>9 DEF CardReceives, int_handler, vars, tx_vars, loop_vars
  <2>. QED
    BY <1>6, <2>1 DEF Calling
<1>10. CASE Begin \/ MaskInterrupts \/ ReadBuffers \/ Turn \/ ReceiveFrame
  <2>1. UNCHANGED <<stopped, pc, tx_posted, tx_done>>
    BY <1>10 DEF Begin, MaskInterrupts, ReadBuffers, Turn, ReceiveFrame, tx_vars
  <2>2. step \notin {"invalidate", "restart"}
    BY <1>10 DEF Begin, MaskInterrupts, ReadBuffers, Turn, ReceiveFrame, Goes
  <2>. QED
    BY <1>6, <2>1, <2>2 DEF Calling
<1>11. CASE Clean \/ Invalidate
  <2>1. step' \in {"invalidate", "restart"}
    BY <1>11 DEF Clean, Invalidate, Goes
  <2>. QED
    BY <1>4, <2>1
<1>12. CASE Restart
  <2>1. UNCHANGED <<tx_posted, tx_done, pc>>
    BY <1>12 DEF Restart
  <2>2. CASE tx_cnt + WakeSlots <= RingSize /\ tx_lines + WakeLines <= Lines
    BY <1>5, <1>12, <2>2 DEF Restart
  <2>3. CASE ~(tx_cnt + WakeSlots <= RingSize /\ tx_lines + WakeLines <= Lines)
    <3>1. tx_rd # tx_wr
      BY <2>3, EmptyRing, RoomAssumption DEF StopInv
    <3>2. tx_rd \in Outstanding
      BY <1>1, <3>1 DEF TxType, Outstanding
    <3>3. Calling # {} \/ tx_posted # {} \/ tx_done # {}
      BY <3>2 DEF StopInv, NoneLost, Finished
    <3>. QED
      BY <1>4, <2>1, <3>3 DEF Calling
  <2>. QED
    BY <2>2, <2>3
<1>. QED
  BY <1>7, <1>8, <1>9, <1>10, <1>11, <1>12 DEF Next, work_handler

(* An interface is stopped only while a packet is under way whose          *)
(* completion finds room enough to restart it, if packets are so large     *)
(* that the memory is full before the ring of descriptors is: with the     *)
(* sizes of the card, packets of more than 961 bytes.                      *)
THEOREM StoppedCorrect ==
  ASSUME NEW least \in Nat, \A s \in Sizes : least <= s, least * RingSize > Lines
  PROVE  Spec => []StoppedHasCompletion
<1>1. Init => StopInv(least)
  <2>. SUFFICES ASSUME Init
                PROVE  StopInv(least)
    OBVIOUS
  <2>1. tx_rd = 0 /\ tx_wr = 0 /\ stopped = {}
    BY DEF Init
  <2>2. Outstanding = {}
    BY <2>1 DEF Outstanding
  <2>. QED
    BY <2>1, <2>2, TxInitInv DEF StopInv, NoneLost, StoppedHasCompletion
<1>2. StopInv(least) /\ [Next]_vars => StopInv(least)'
  BY TxNextInv, NoneLostKept, StoppedKept DEF StopInv
<1>3. StopInv(least) => StoppedHasCompletion
  BY DEF StopInv
<1>. QED
  BY <1>1, <1>2, <1>3, PTL DEF Spec
=============================================================================
