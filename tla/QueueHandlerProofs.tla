------------------------- MODULE QueueHandlerProofs -------------------------
(***************************************************************************)
(* Theorems about the handlers that put aside one packet at most, for      *)
(* every space of sequence numbers, every set of packets and any number of *)
(* them.  Each handler is proved about within the composition, whose other *)
(* steps leave its variables alone.                                        *)
(***************************************************************************)
EXTENDS QueueHandlers, SerialNumbers, FiniteSetTheorems, SequenceTheorems

-----------------------------------------------------------------------------
(* Sequences of verdicts.                                                  *)

(* One verdict more.                                                       *)
LEMMA OneVerdict ==
  ASSUME NEW V, NEW g \in Seq(V), NEW x \in V
  PROVE  /\ Append(g, x) \in Seq(V)
         /\ Len(Append(g, x)) = Len(g) + 1
         /\ \A i \in 1..Len(g) : Append(g, x)[i] = g[i]
         /\ Append(g, x)[Len(g) + 1] = x
  OBVIOUS

(* Two verdicts more.                                                      *)
LEMMA TwoVerdicts ==
  ASSUME NEW V, NEW g \in Seq(V), NEW x \in V, NEW y \in V
  PROVE  /\ g \o <<x, y>> \in Seq(V)
         /\ Len(g \o <<x, y>>) = Len(g) + 2
         /\ \A i \in 1..Len(g) : (g \o <<x, y>>)[i] = g[i]
         /\ (g \o <<x, y>>)[Len(g) + 1] = x
         /\ (g \o <<x, y>>)[Len(g) + 2] = y
  OBVIOUS

(* No more packets are held than were taken.                               *)
LEMMA HeldOfTaken ==
  ASSUME NEW n \in Nat, NEW S, S \subseteq 1..n
  PROVE  IsFiniteSet(S) /\ Cardinality(S) \in Nat /\ Cardinality(S) <= n
<1>1. IsFiniteSet(1..n) /\ Cardinality(1..n) = n
  BY FS_Interval
<1>2. IsFiniteSet(S) /\ Cardinality(S) <= n
  BY <1>1, FS_Subset
<1>. QED
  BY <1>2, FS_CardinalityType

(* The verdicts grow from g to h, each new one about a packet of base and  *)
(* no two about the same; left is what remains: Settle of PacketBuffer.    *)
Settles(V, g, h, base, left) ==
  LET fresh == (Len(g) + 1)..Len(h)
  IN  /\ h \in Seq(V) /\ Len(g) <= Len(h)
      /\ \A i \in 1..Len(g) : h[i] = g[i]
      /\ \A i \in fresh : h[i].id \in base
      /\ \A i, j \in fresh : h[i].id = h[j].id => i = j
      /\ left = base \ {h[i].id : i \in fresh}

LEMMA SettlesNone ==
  ASSUME NEW V, NEW g \in Seq(V), NEW base
  PROVE  Settles(V, g, g, base, base)
<1>1. (Len(g) + 1)..Len(g) = {}
  OBVIOUS
<1>. QED
  BY <1>1 DEF Settles

LEMMA SettlesOne ==
  ASSUME NEW V, NEW g \in Seq(V), NEW base, NEW x \in V, x.id \in base
  PROVE  Settles(V, g, Append(g, x), base, base \ {x.id})
<1>1. PICK h : h = Append(g, x)
  OBVIOUS
<1>2. /\ h \in Seq(V) /\ Len(h) = Len(g) + 1 /\ h[Len(g) + 1] = x
      /\ \A i \in 1..Len(g) : h[i] = g[i]
  BY <1>1, OneVerdict
<1>3. (Len(g) + 1)..Len(h) = {Len(g) + 1} /\ Len(g) <= Len(h)
  BY <1>2
<1>. QED
  BY <1>1, <1>2, <1>3 DEF Settles

LEMMA SettlesTwo ==
  ASSUME NEW V, NEW g \in Seq(V), NEW base, NEW x \in V, NEW y \in V,
         x.id \in base, y.id \in base, x.id # y.id
  PROVE  Settles(V, g, g \o <<x, y>>, base, base \ {x.id, y.id})
<1>1. PICK h : h = g \o <<x, y>>
  OBVIOUS
<1>2. /\ h \in Seq(V) /\ Len(h) = Len(g) + 2
      /\ h[Len(g) + 1] = x /\ h[Len(g) + 2] = y
      /\ \A i \in 1..Len(g) : h[i] = g[i]
  BY <1>1, TwoVerdicts
<1>3. (Len(g) + 1)..Len(h) = {Len(g) + 1, Len(g) + 2} /\ Len(g) <= Len(h)
  BY <1>2
<1>4. base \ {x.id, y.id} = base \ {h[i].id : i \in (Len(g) + 1)..Len(h)}
  BY <1>2, <1>3
<1>5. /\ \A i \in (Len(g) + 1)..Len(h) : h[i].id \in base
      /\ \A i, j \in (Len(g) + 1)..Len(h) : h[i].id = h[j].id => i = j
  BY <1>2, <1>3
<1>6. Settles(V, g, h, base, base \ {x.id, y.id})
  BY <1>2, <1>3, <1>4, <1>5 DEF Settles
<1>. QED
  BY <1>1, <1>6

-----------------------------------------------------------------------------
(* dupack_drop.                                                            *)

AckVerdicts == [id : Nat, v : {"accept", "drop"}]

DupackHeld == Dupack!Saved \cup ack_abandoned

(* What is put aside was taken, and was not abandoned before; the number   *)
(* a duplicate is compared with was accepted before, and so was any number *)
(* that has not been let through.                                          *)
DupackInv ==
  /\ acks \in Seq(Acks) /\ Len(acks) <= MaxAcks
  /\ ack_given \in Seq(AckVerdicts)
  /\ ack_saved \in 0..Len(acks)
  /\ dupack_count \in 0..2
  /\ ack_abandoned \subseteq 1..Len(acks)
  /\ dupack_count = 1 => ack_saved # 0 /\ ack_saved \notin ack_abandoned
  /\ ack_seq_old # 0 =>
       \E j \in 1..Len(acks) : j \in Dupack!Accepted /\ acks[j].ack = ack_seq_old
  /\ NothingNewWithheld

LEMMA DupackInitInv == Dupack!Init => DupackInv
<1>. SUFFICES ASSUME Dupack!Init
              PROVE  DupackInv
  OBVIOUS
<1>1. /\ acks = <<>> /\ ack_given = <<>> /\ ack_saved = 0 /\ dupack_count = 0
      /\ ack_seq_old = 0 /\ ack_abandoned = {}
  BY DEF Dupack!Init
<1>2. Len(acks) = 0 /\ 0 <= MaxAcks /\ 1..Len(acks) = {}
  BY <1>1, MaxAssumption
<1>3. NothingNewWithheld
  BY <1>2 DEF NothingNewWithheld, Dupack!NothingNewWithheld
<1>. QED
  BY <1>1, <1>2, <1>3 DEF DupackInv

LEMMA DupackBasics ==
  ASSUME DupackInv
  PROVE  /\ Len(acks) \in Nat /\ ack_given \in Seq(AckVerdicts) /\ Len(ack_given) \in Nat
         /\ Dupack!This = Len(acks) + 1 /\ Dupack!This \in Nat
         /\ DupackHeld \subseteq 1..Len(acks) /\ Dupack!This \notin DupackHeld
         /\ \A id \in Nat : /\ Dupack!Accept(id) \in AckVerdicts /\ Dupack!Drop(id) \in AckVerdicts
                            /\ Dupack!Accept(id).id = id /\ Dupack!Accept(id).v = "accept"
                            /\ Dupack!Drop(id).id = id
         /\ dupack_count = 1 => /\ DupackHeld = ack_abandoned \cup {ack_saved}
                                /\ ack_saved \notin ack_abandoned /\ ack_saved \in 1..Len(acks)
                                /\ ack_saved # Dupack!This
         /\ dupack_count # 1 => DupackHeld = ack_abandoned
<1>1. /\ Len(acks) \in Nat /\ Len(ack_given) \in Nat /\ ack_given \in Seq(AckVerdicts)
  BY LenProperties DEF DupackInv
<1>2. Dupack!This = Len(acks) + 1 /\ Dupack!This \in Nat
  BY <1>1 DEF Dupack!This
<1>3. /\ dupack_count = 1 => /\ DupackHeld = ack_abandoned \cup {ack_saved}
                             /\ ack_saved \notin ack_abandoned /\ ack_saved \in 1..Len(acks)
                             /\ ack_saved # Dupack!This
      /\ dupack_count # 1 => DupackHeld = ack_abandoned
  BY <1>1, <1>2 DEF DupackInv, DupackHeld, Dupack!Saved
<1>4. DupackHeld \subseteq 1..Len(acks)
  BY <1>3 DEF DupackInv
<1>. QED
  BY <1>1, <1>2, <1>3, <1>4 DEF Dupack!Accept, Dupack!Drop, AckVerdicts

(* What a call does to the verdicts.  Each acknowledgement is accepted,    *)
(* unless it repeats the number of the newest one before it.               *)
LEMMA DupackSettles ==
  ASSUME DupackInv, NEW p \in Acks, Dupack!dupack_drop_enqueue_packet(p)
  PROVE  /\ Settles(AckVerdicts, ack_given, ack_given',
                    DupackHeld \cup {Dupack!This}, DupackHeld')
         /\ \/ /\ Len(ack_given') # 0
               /\ ack_given'[Len(ack_given')] = Dupack!Accept(Dupack!This)
            \/ ~p.syn /\ p.ack = ack_seq_old /\ UNCHANGED ack_seq_old
         /\ p.ack = ack_seq_old' \/ UNCHANGED ack_seq_old
<1>. DEFINE this == Dupack!This
            base == DupackHeld \cup {this}
<1>1. PICK g, x : g = ack_given /\ x = Dupack!Accept(this)
  OBVIOUS
<1>2. g \in Seq(AckVerdicts) /\ x \in AckVerdicts /\ x.id = this /\ this \in base /\ this \notin DupackHeld
  BY <1>1, DupackBasics
<1>3. /\ Len(Append(g, x)) # 0 /\ Append(g, x)[Len(Append(g, x))] = x
      /\ \A y \in AckVerdicts : /\ Len(g \o <<y, x>>) # 0
                                /\ (g \o <<y, x>>)[Len(g \o <<y, x>>)] = x
  BY <1>2, OneVerdict, TwoVerdicts
<1>4. Settles(AckVerdicts, g, Append(g, x), base, base \ {this})
  BY <1>2, SettlesOne
<1>5. base \ {this} = DupackHeld
  BY <1>2
<1>6. ASSUME dupack_count = 1, NEW y \in AckVerdicts, y.id = ack_saved
      PROVE  Settles(AckVerdicts, g, g \o <<y, x>>, base, ack_abandoned)
  <2>1. ack_saved \in base /\ ack_saved # this /\ ack_abandoned = base \ {ack_saved, this}
    BY <1>2, <1>6, DupackBasics
  <2>2. Settles(AckVerdicts, g, g \o <<y, x>>, base, base \ {y.id, x.id})
    BY <1>2, <1>6, <2>1, SettlesTwo
  <2>. QED
    BY <1>2, <1>6, <2>1, <2>2
<1>. HIDE DEF this, base
<1>7. CASE Dupack!EnqueueSyn(p)
  <2>1. ack_given' = Append(g, x) /\ p.ack = ack_seq_old'
    BY <1>1, <1>7 DEF Dupack!EnqueueSyn, this
  <2>2. DupackHeld' = DupackHeld
    BY <1>7, DupackBasics DEF Dupack!EnqueueSyn, DupackHeld, Dupack!Saved
  <2>. QED
    BY <1>1, <1>3, <1>4, <1>5, <2>1, <2>2 DEF this, base
<1>8. CASE Dupack!EnqueueNewer(p)
  <2>1. DupackHeld' = ack_abandoned /\ p.ack = ack_seq_old'
    BY <1>8 DEF Dupack!EnqueueNewer, DupackHeld, Dupack!Saved
  <2>2. CASE dupack_count = 1
    <3>1. PICK y : y = Dupack!Drop(ack_saved)
      OBVIOUS
    <3>2. y \in AckVerdicts /\ y.id = ack_saved
      BY <2>2, <3>1, DupackBasics
    <3>3. ack_given' = g \o <<y, x>>
      BY <1>1, <1>8, <2>2, <3>1 DEF Dupack!EnqueueNewer, this
    <3>. QED
      BY <1>1, <1>3, <1>6, <2>1, <2>2, <3>2, <3>3 DEF this, base
  <2>3. CASE dupack_count # 1
    <3>1. ack_given' = Append(g, x) /\ DupackHeld = ack_abandoned
      BY <1>1, <1>8, <2>3, DupackBasics DEF Dupack!EnqueueNewer, this
    <3>. QED
      BY <1>1, <1>3, <1>4, <1>5, <2>1, <3>1 DEF this, base
  <2>. QED
    BY <2>2, <2>3
<1>9. CASE Dupack!EnqueueFirstDup(p)
  <2>1. ack_given' = g /\ DupackHeld' = base /\ ~p.syn /\ p.ack = ack_seq_old /\ UNCHANGED ack_seq_old
    BY <1>1, <1>9, DupackBasics
       DEF Dupack!EnqueueFirstDup, Dupack!IsDuplicate, DupackHeld, Dupack!Saved, base, this
  <2>2. Settles(AckVerdicts, g, g, base, base)
    BY <1>2, SettlesNone
  <2>. QED
    BY <1>1, <2>1, <2>2 DEF this, base
<1>10. CASE Dupack!EnqueueSecondDup(p)
  <2>1. /\ DupackHeld' = ack_abandoned /\ dupack_count = 1 /\ UNCHANGED ack_seq_old
        /\ ack_given' = g \o <<Dupack!Accept(ack_saved), x>>
    BY <1>1, <1>10 DEF Dupack!EnqueueSecondDup, DupackHeld, Dupack!Saved, this
  <2>2. PICK y : y = Dupack!Accept(ack_saved)
    OBVIOUS
  <2>3. y \in AckVerdicts /\ y.id = ack_saved
    BY <2>1, <2>2, DupackBasics
  <2>. QED
    BY <1>1, <1>3, <1>6, <2>1, <2>2, <2>3 DEF this, base
<1>11. CASE Dupack!EnqueueMoreDup(p) \/ Dupack!EnqueueOlder(p)
  <2>1. /\ ack_given' = Append(g, x) /\ UNCHANGED ack_seq_old
        /\ DupackHeld' = DupackHeld
    BY <1>1, <1>11 DEF Dupack!EnqueueMoreDup, Dupack!EnqueueOlder, DupackHeld, Dupack!Saved, this
  <2>. QED
    BY <1>1, <1>3, <1>4, <1>5, <2>1 DEF this, base
<1>. QED
  BY <1>7, <1>8, <1>9, <1>10, <1>11 DEF Dupack!dupack_drop_enqueue_packet

(* The rest of the state after a call.                                     *)
LEMMA DupackState ==
  ASSUME DupackInv, NEW p \in Acks, Dupack!dupack_drop_enqueue_packet(p)
  PROVE  /\ acks' = Append(acks, p) /\ acks' \in Seq(Acks)
         /\ Len(acks') = Len(acks) + 1 /\ Len(acks') <= MaxAcks
         /\ ack_saved' \in 0..Len(acks') /\ dupack_count' \in 0..2
         /\ ack_abandoned' \subseteq 1..Len(acks')
         /\ dupack_count' = 1 => ack_saved' # 0 /\ ack_saved' \notin ack_abandoned'
<1>1. Dupack!Arrives(p)
  BY DEF Dupack!dupack_drop_enqueue_packet, Dupack!EnqueueSyn, Dupack!EnqueueNewer,
         Dupack!EnqueueFirstDup, Dupack!EnqueueSecondDup, Dupack!EnqueueMoreDup, Dupack!EnqueueOlder
<1>2. /\ acks' = Append(acks, p) /\ acks' \in Seq(Acks)
      /\ Len(acks') = Len(acks) + 1 /\ Len(acks') <= MaxAcks /\ Len(acks) \in Nat
  BY <1>1, MaxAssumption DEF DupackInv, Dupack!Arrives
<1>3. /\ ack_saved \in 0..Len(acks') /\ ack_abandoned \subseteq 1..Len(acks')
      /\ Dupack!This = Len(acks') /\ Dupack!This \notin ack_abandoned /\ Len(acks') # 0
      /\ dupack_count \in 0..2
      /\ dupack_count = 1 => ack_saved # 0 /\ ack_saved \notin ack_abandoned
  BY <1>2 DEF DupackInv, Dupack!This
<1>4. CASE Dupack!EnqueueFirstDup(p)
  BY <1>2, <1>3, <1>4 DEF Dupack!EnqueueFirstDup
<1>5. CASE Dupack!EnqueueSyn(p)
  BY <1>2, <1>3, <1>5 DEF Dupack!EnqueueSyn
<1>6. CASE Dupack!EnqueueNewer(p) \/ Dupack!EnqueueSecondDup(p)
  <2>1. /\ dupack_count' = 0 \/ dupack_count' = 2
        /\ ack_saved' = ack_saved /\ ack_abandoned' = ack_abandoned
    BY <1>6 DEF Dupack!EnqueueNewer, Dupack!EnqueueSecondDup
  <2>. QED
    BY <1>2, <1>3, <2>1
<1>7. CASE Dupack!EnqueueMoreDup(p) \/ Dupack!EnqueueOlder(p)
  <2>1. /\ dupack_count' = dupack_count
        /\ ack_saved' = ack_saved /\ ack_abandoned' = ack_abandoned
    BY <1>7 DEF Dupack!EnqueueMoreDup, Dupack!EnqueueOlder
  <2>. QED
    BY <1>2, <1>3, <2>1
<1>. QED
  BY <1>4, <1>5, <1>6, <1>7 DEF Dupack!dupack_drop_enqueue_packet

LEMMA DupackAccepted ==
  ASSUME DupackInv, NEW p \in Acks, Dupack!dupack_drop_enqueue_packet(p)
  PROVE  /\ ack_given' \in Seq(AckVerdicts)
         /\ Dupack!Accepted \subseteq Dupack!Accepted'
         /\ \/ Dupack!This \in Dupack!Accepted'
            \/ ~p.syn /\ p.ack = ack_seq_old /\ UNCHANGED ack_seq_old
<1>1. PICK g, h : g = ack_given /\ h = ack_given'
  OBVIOUS
<1>2. /\ h \in Seq(AckVerdicts) /\ Len(g) <= Len(h)
      /\ \A i \in 1..Len(g) : h[i] = g[i]
  BY <1>1, DupackSettles DEF Settles
<1>3. Len(g) \in Nat /\ Len(h) \in Nat
  BY <1>1, <1>2, LenProperties, DupackBasics
<1>4. Dupack!Accepted \subseteq Dupack!Accepted'
  <2>1. \A i \in 1..Len(g) : i \in 1..Len(h)
    BY <1>2, <1>3
  <2>. QED
    BY <1>1, <1>2, <2>1 DEF Dupack!Accepted
<1>5. ASSUME Len(h) # 0, h[Len(h)] = Dupack!Accept(Dupack!This)
      PROVE  Dupack!This \in Dupack!Accepted'
  <2>1. h[Len(h)].v = "accept" /\ h[Len(h)].id = Dupack!This
    BY <1>5, DupackBasics
  <2>2. Len(h) \in 1..Len(h)
    BY <1>3, <1>5
  <2>. QED
    BY <1>1, <2>1, <2>2 DEF Dupack!Accepted
<1>. QED
  BY <1>1, <1>2, <1>4, <1>5, DupackSettles

LEMMA DupackWithholds ==
  ASSUME DupackInv, NEW p \in Acks, Dupack!dupack_drop_enqueue_packet(p)
  PROVE  /\ NothingNewWithheld'
         /\ ack_seq_old' # 0 =>
              \E j \in 1..Len(acks') : j \in Dupack!Accepted' /\ acks'[j].ack = ack_seq_old'
<1>1. PICK n : n = Len(acks)
  OBVIOUS
<1>2. /\ n \in Nat /\ Len(acks') = n + 1 /\ Dupack!This = n + 1
      /\ acks'[n + 1] = p /\ \A j \in 1..n : acks'[j] = acks[j]
  <2>1. acks \in Seq(Acks) /\ acks' = Append(acks, p) /\ n \in Nat
    BY <1>1, DupackState, DupackBasics DEF DupackInv
  <2>2. /\ Len(acks') = n + 1 /\ acks'[n + 1] = p
        /\ \A j \in 1..n : acks'[j] = acks[j]
    BY <1>1, <2>1, AppendProperties
  <2>. QED
    BY <1>1, <2>1, <2>2, DupackBasics
<1>3. Dupack!Accepted \subseteq Dupack!Accepted'
  BY DupackAccepted
<1>4. ack_seq_old # 0 =>
        \E j \in 1..n : j \in Dupack!Accepted' /\ acks'[j].ack = ack_seq_old
  BY <1>1, <1>2, <1>3 DEF DupackInv
<1>5. ASSUME NEW id \in 1..(n + 1), id \notin Dupack!Accepted', acks'[id].ack # 0
      PROVE  \E j \in 1..(id - 1) : j \in Dupack!Accepted' /\ acks'[j].ack = acks'[id].ack
  <2>1. CASE id \in 1..n
    <3>1. id \notin Dupack!Accepted /\ acks[id].ack # 0
      BY <1>2, <1>3, <1>5, <2>1
    <3>2. PICK j \in 1..(id - 1) : j \in Dupack!Accepted /\ acks[j].ack = acks[id].ack
      BY <1>1, <2>1, <3>1 DEF DupackInv, NothingNewWithheld, Dupack!NothingNewWithheld
    <3>3. j \in 1..n
      BY <1>2, <2>1
    <3>. QED
      BY <1>2, <1>3, <2>1, <3>2, <3>3
  <2>2. CASE id = n + 1
    <3>1. p.ack = ack_seq_old /\ ack_seq_old # 0 /\ (n + 1) - 1 = n
      BY <1>2, <1>5, <2>2, DupackAccepted
    <3>. QED
      BY <1>2, <1>4, <2>2, <3>1
  <2>. QED
    BY <1>2, <2>1, <2>2
<1>6. ASSUME ack_seq_old' # 0
      PROVE  \E j \in 1..(n + 1) : j \in Dupack!Accepted' /\ acks'[j].ack = ack_seq_old'
  <2>1. CASE UNCHANGED ack_seq_old
    <3>1. \A j \in 1..n : j \in 1..(n + 1)
      BY <1>2
    <3>. QED
      BY <1>4, <1>6, <2>1, <3>1
  <2>2. CASE ack_seq_old' # ack_seq_old
    <3>1. n + 1 \in 1..(n + 1) /\ n + 1 \in Dupack!Accepted' /\ acks'[n + 1].ack = ack_seq_old'
      BY <1>2, <2>2, DupackAccepted, DupackSettles
    <3>. QED
      BY <3>1
  <2>. QED
    BY <2>1, <2>2
<1>. QED
  BY <1>2, <1>5, <1>6 DEF NothingNewWithheld, Dupack!NothingNewWithheld

LEMMA DupackNextInv == DupackInv /\ [Dupack!Next]_(Dupack!vars) => DupackInv'
<1>. SUFFICES ASSUME DupackInv, [Dupack!Next]_(Dupack!vars)
              PROVE  DupackInv'
  OBVIOUS
<1>1. CASE UNCHANGED Dupack!vars
  BY <1>1 DEF Dupack!vars, DupackInv, NothingNewWithheld, Dupack!NothingNewWithheld, Dupack!Accepted
<1>2. ASSUME NEW p \in Acks, Dupack!dupack_drop_enqueue_packet(p)
      PROVE  DupackInv'
  BY <1>2, DupackState, DupackAccepted, DupackWithholds DEF DupackInv
<1>. QED
  BY <1>1, <1>2 DEF Dupack!Next

LEMMA DupackTakes ==
  ASSUME DupackInv, NEW p \in Acks, Dupack!dupack_drop_enqueue_packet(p)
  PROVE  Dupack!Buffer!Take
<1>1. DupackInv'
  BY DupackNextInv DEF Dupack!Next
<1>2. DupackHeld' \subseteq 1..Len(acks') /\ Len(acks') \in Nat /\ Len(acks') <= MaxAcks
  <2>1. DupackHeld' \subseteq 1..Len(acks')
    <3>1. DupackHeld' = IF dupack_count' = 1 THEN {ack_saved'} \cup ack_abandoned' ELSE ack_abandoned'
      BY DEF DupackHeld, Dupack!Saved
    <3>. QED
      BY <3>1, DupackState
  <2>. QED
    BY <2>1, DupackState, DupackBasics
<1>3. Cardinality(DupackHeld') \in Nat /\ Cardinality(DupackHeld') <= Len(acks')
  BY <1>2, HeldOfTaken
<1>4. Dupack!Buffer!Cardinality(DupackHeld') = Cardinality(DupackHeld')
  BY DEF Dupack!Buffer!Cardinality, Cardinality
<1>5. Dupack!Buffer!Cardinality(DupackHeld') <= MaxAcks + 1
  BY <1>2, <1>3, <1>4, MaxAssumption
<1>6. Dupack!Buffer!Settle(DupackHeld \cup {Dupack!This})
  BY <1>5, DupackSettles
     DEF Settles, Dupack!Buffer!Settle, Dupack!Buffer!Fresh, DupackHeld, AckVerdicts
<1>7. Len(acks') = Len(acks) + 1 /\ Dupack!This = Len(acks) + 1
  BY DupackState, DupackBasics
<1>. QED
  BY <1>6, <1>7 DEF Dupack!Buffer!Take, DupackHeld

(* The steps of the other handlers leave dupack_drop alone.                *)
LEMMA DupackAlone == Spec => Dupack!Spec
<1>1. Init => Dupack!Init
  BY DEF Init
<1>2. [Next]_vars => [Dupack!Next]_(Dupack!vars)
  BY DEF Next, vars, DupackStep, PairStep, SwapStep, RaceStep, DropStep, PathTransmit, PathDeliver,
         OffPath, dupack_vars, Dupack!vars
<1>. QED
  BY <1>1, <1>2, PTL DEF Spec, Dupack!Spec

LEMMA DupackInvariant == Spec => []DupackInv
BY DupackAlone, DupackInitInv, DupackNextInv, PTL DEF Dupack!Spec

(* Whenever dupack_drop holds back, drops or forgets an acknowledgement,   *)
(* one with the same number was accepted before: whatever arrives, the     *)
(* sender misses no news.  The invariant adds that ack_seq_old itself was  *)
(* accepted, which is what a duplicate is compared with.                   *)
THEOREM WithheldCorrect == Spec => []NothingNewWithheld
<1>1. DupackInv => NothingNewWithheld
  BY DEF DupackInv
<1>. QED
  BY <1>1, DupackInvariant, PTL

(* dupack_drop gives every acknowledgement exactly one verdict, and holds  *)
(* the one it has put aside and those that a SYN has made it forget.       *)
THEOREM AckBufferImplemented == Spec => AckBufferSpec
<1>1. Dupack!Init => Dupack!Buffer!Init
  BY DEF Dupack!Init, Dupack!Buffer!Init, Dupack!Saved
<1>2. DupackInv /\ [Dupack!Next]_(Dupack!vars) => [Dupack!Buffer!Next]_(Dupack!Buffer!bufferVars)
  <2>1. UNCHANGED Dupack!vars => UNCHANGED Dupack!Buffer!bufferVars
    BY DEF Dupack!vars, Dupack!Buffer!bufferVars, Dupack!Saved
  <2>. QED
    BY <2>1, DupackTakes DEF Dupack!Next, Dupack!Buffer!Next
<1>. QED
  BY <1>1, <1>2, DupackAlone, DupackInvariant, PTL
     DEF AckBufferSpec, Dupack!AckBufferSpec, Dupack!Buffer!Spec, Dupack!Spec

(* Only a SYN makes dupack_drop forget the acknowledgement it has put      *)
(* aside: a newer one drops it and a second duplicate releases it, in the  *)
(* same call, also when the numbers wrap around between them.              *)
THEOREM SettlesCorrect == Spec => ProgressSettlesSaved
<1>. DEFINE Settled(id) == LET p == acks'[Len(acks')]
                           IN  acks' # acks /\ ~p.syn /\ (p.ack = ack_seq_old \/ Dupack!Ahead(p.ack, ack_seq_old))
                             => \E i \in (Len(ack_given) + 1)..Len(ack_given') : ack_given'[i].id = id
<1>1. ASSUME DupackInv, [Dupack!Next]_(Dupack!vars), NEW id \in Dupack!Saved
      PROVE  Settled(id)
  <2>. SUFFICES ASSUME acks' # acks, ~acks'[Len(acks')].syn,
                       \/ acks'[Len(acks')].ack = ack_seq_old
                       \/ Dupack!Ahead(acks'[Len(acks')].ack, ack_seq_old)
                PROVE  \E i \in (Len(ack_given) + 1)..Len(ack_given') : ack_given'[i].id = id
    OBVIOUS
  <2>1. PICK p \in Acks : Dupack!dupack_drop_enqueue_packet(p)
    BY <1>1 DEF Dupack!Next, Dupack!vars
  <2>2. acks'[Len(acks')] = p
    BY <1>1, <2>1, DupackState, DupackBasics DEF DupackInv
  <2>3. id = ack_saved /\ dupack_count = 1
    BY <1>1 DEF Dupack!Saved
  <2>4. Dupack!EnqueueNewer(p) \/ Dupack!EnqueueSecondDup(p)
    BY <2>1, <2>2, <2>3 DEF Dupack!dupack_drop_enqueue_packet, Dupack!EnqueueSyn, Dupack!EnqueueFirstDup,
       Dupack!EnqueueMoreDup, Dupack!EnqueueOlder, Dupack!IsDuplicate, Dupack!IsNewer, Dupack!Ahead
  <2>5. \E x \in {Dupack!Drop(ack_saved), Dupack!Accept(ack_saved)} :
           ack_given' = ack_given \o <<x, Dupack!Accept(Dupack!This)>>
    BY <2>3, <2>4 DEF Dupack!EnqueueNewer, Dupack!EnqueueSecondDup
  <2>6. PICK x \in {Dupack!Drop(ack_saved), Dupack!Accept(ack_saved)}, y \in {Dupack!Accept(Dupack!This)} :
          ack_given' = ack_given \o <<x, y>>
    BY <2>5
  <2>7. x \in AckVerdicts /\ y \in AckVerdicts /\ x.id = id /\ ack_given \in Seq(AckVerdicts)
        /\ Len(ack_given) \in Nat
    BY <1>1, <2>3, <2>6, DupackBasics
  <2>8. /\ Len(ack_given') = Len(ack_given) + 2 /\ ack_given'[Len(ack_given) + 1] = x
    BY <2>6, <2>7, TwoVerdicts
  <2>9. Len(ack_given) + 1 \in (Len(ack_given) + 1)..Len(ack_given')
    BY <2>7, <2>8
  <2>. QED
    BY <2>7, <2>8, <2>9
<1>2. DupackInv /\ [Dupack!Next]_(Dupack!vars) => [\A id \in Dupack!Saved : Settled(id)]_(Dupack!vars)
  BY <1>1
<1>. QED
  BY <1>2, DupackAlone, DupackInvariant, PTL DEF Dupack!Spec, ProgressSettlesSaved, Dupack!ProgressSettlesSaved

-----------------------------------------------------------------------------
(* reorder_fedora.                                                         *)

Accepts == [id : Nat, v : {"accept"}]

PairHeld == Pair!Saved \cup pair_abandoned

(* What is put aside was taken, and was not abandoned before.              *)
PairInv ==
  /\ rx \in Seq(Packets) /\ Len(rx) <= MaxPackets
  /\ pair_given \in Seq(Accepts)
  /\ pair_saved \in 0..Len(rx)
  /\ has_reorder \in BOOLEAN
  /\ pair_abandoned \subseteq 1..Len(rx)
  /\ has_reorder => pair_saved # 0 /\ pair_saved \notin pair_abandoned

LEMMA PairInitInv == Pair!Init => PairInv
<1>. SUFFICES ASSUME Pair!Init
              PROVE  PairInv
  OBVIOUS
<1>1. ~has_reorder /\ has_reorder \in BOOLEAN
  BY DEF Pair!Init
<1>2. /\ rx \in Seq(Packets) /\ Len(rx) <= MaxPackets
      /\ pair_given \in Seq(Accepts) /\ pair_saved \in 0..Len(rx) /\ pair_abandoned \subseteq 1..Len(rx)
  BY MaxAssumption DEF Pair!Init
<1>. QED
  BY <1>1, <1>2 DEF PairInv

LEMMA PairBasics ==
  ASSUME PairInv
  PROVE  /\ Len(rx) \in Nat /\ pair_given \in Seq(Accepts) /\ Len(pair_given) \in Nat
         /\ Pair!This = Len(rx) + 1 /\ Pair!This \in Nat
         /\ PairHeld \subseteq 1..Len(rx) /\ Pair!This \notin PairHeld
         /\ \A id \in Nat : Pair!Accept(id) \in Accepts /\ Pair!Accept(id).id = id
         /\ has_reorder => /\ PairHeld = pair_abandoned \cup {pair_saved}
                           /\ pair_saved \notin pair_abandoned /\ pair_saved \in 1..Len(rx)
                           /\ pair_saved # Pair!This
         /\ ~has_reorder => PairHeld = pair_abandoned
<1>1. /\ Len(rx) \in Nat /\ Len(pair_given) \in Nat /\ pair_given \in Seq(Accepts)
  BY LenProperties DEF PairInv
<1>2. Pair!This = Len(rx) + 1 /\ Pair!This \in Nat
  BY <1>1 DEF Pair!This
<1>3. /\ has_reorder => /\ PairHeld = pair_abandoned \cup {pair_saved}
                        /\ pair_saved \notin pair_abandoned /\ pair_saved \in 1..Len(rx)
                        /\ pair_saved # Pair!This
      /\ ~has_reorder => PairHeld = pair_abandoned
  BY <1>1, <1>2 DEF PairInv, PairHeld, Pair!Saved
<1>4. PairHeld \subseteq 1..Len(rx)
  <2>1. pair_abandoned \subseteq 1..Len(rx)
    BY DEF PairInv
  <2>. QED
    BY <1>3, <2>1
<1>5. \A id \in Nat : Pair!Accept(id) \in Accepts /\ Pair!Accept(id).id = id
  BY DEF Pair!Accept, Accepts
<1>6. Pair!This \notin PairHeld
  BY <1>1, <1>2, <1>4
<1>. QED
  BY <1>1, <1>2, <1>3, <1>4, <1>5, <1>6

(* What a call does to the verdicts.                                       *)
LEMMA PairSettles ==
  ASSUME PairInv, NEW p \in Packets, Pair!reorder_queue_enqueue_packet(p)
  PROVE  Settles(Accepts, pair_given, pair_given', PairHeld \cup {Pair!This}, PairHeld')
<1>. DEFINE this == Pair!This
            base == PairHeld \cup {this}
<1>1. PICK g, x, y : g = pair_given /\ x = Pair!Accept(this) /\ y = Pair!Accept(pair_saved)
  OBVIOUS
<1>2. g \in Seq(Accepts) /\ x \in Accepts /\ x.id = this /\ this \in base /\ this \notin PairHeld
  BY <1>1, PairBasics
<1>4. Settles(Accepts, g, Append(g, x), base, base \ {this})
  BY <1>2, SettlesOne
<1>5. base \ {this} = PairHeld
  BY <1>2
<1>6. ASSUME has_reorder
      PROVE  /\ Settles(Accepts, g, g \o <<y, x>>, base, pair_abandoned)
             /\ Settles(Accepts, g, g \o <<x, y>>, base, pair_abandoned)
  <2>1. /\ pair_saved \in base /\ pair_saved # this /\ pair_abandoned = base \ {pair_saved, this}
        /\ base \ {pair_saved, this} = base \ {this, pair_saved}
    BY <1>2, <1>6, PairBasics
  <2>2. y \in Accepts /\ y.id = pair_saved
    BY <1>1, <1>6, PairBasics
  <2>3. Settles(Accepts, g, g \o <<y, x>>, base, base \ {y.id, x.id})
    BY <1>2, <2>1, <2>2, SettlesTwo
  <2>4. Settles(Accepts, g, g \o <<x, y>>, base, base \ {x.id, y.id})
    BY <1>2, <2>1, <2>2, SettlesTwo
  <2>. QED
    BY <1>2, <2>1, <2>2, <2>3, <2>4
<1>. HIDE DEF this, base
<1>7. CASE Pair!EnqueueSyn(p)
  <2>1. pair_given' = Append(g, x)
    BY <1>1, <1>7 DEF Pair!EnqueueSyn, this
  <2>2. PairHeld' = PairHeld
    BY <1>7, PairBasics DEF Pair!EnqueueSyn, PairHeld, Pair!Saved
  <2>. QED
    BY <1>1, <1>4, <1>5, <2>1, <2>2 DEF this, base
<1>8. CASE Pair!EnqueueEmpty(p)
  <2>1. PairHeld' = pair_abandoned
    BY <1>8 DEF Pair!EnqueueEmpty, PairHeld, Pair!Saved
  <2>2. CASE has_reorder
    <3>1. pair_given' = g \o <<y, x>>
      BY <1>1, <1>8, <2>2 DEF Pair!EnqueueEmpty, this
    <3>. QED
      BY <1>1, <1>6, <2>1, <2>2, <3>1 DEF this, base
  <2>3. CASE ~has_reorder
    <3>1. pair_given' = Append(g, x) /\ PairHeld = pair_abandoned
      BY <1>1, <1>8, <2>3, PairBasics DEF Pair!EnqueueEmpty, this
    <3>. QED
      BY <1>1, <1>4, <1>5, <2>1, <3>1 DEF this, base
  <2>. QED
    BY <2>2, <2>3
<1>9. CASE Pair!EnqueueOld(p) \/ Pair!EnqueueNext(p)
  <2>1. pair_given' = Append(g, x) /\ PairHeld' = PairHeld
    BY <1>1, <1>9 DEF Pair!EnqueueOld, Pair!EnqueueNext, PairHeld, Pair!Saved, this
  <2>. QED
    BY <1>1, <1>4, <1>5, <2>1 DEF this, base
<1>10. CASE Pair!EnqueueSave(p)
  <2>1. pair_given' = g /\ PairHeld' = base
    BY <1>1, <1>10, PairBasics DEF Pair!EnqueueSave, Pair!IsNew, PairHeld, Pair!Saved, base, this
  <2>2. Settles(Accepts, g, g, base, base)
    BY <1>2, SettlesNone
  <2>. QED
    BY <1>1, <2>1, <2>2 DEF this, base
<1>11. CASE Pair!EnqueuePair(p)
  <2>1. has_reorder /\ PairHeld' = pair_abandoned
    BY <1>11 DEF Pair!EnqueuePair, Pair!IsNew, PairHeld, Pair!Saved
  <2>2. pair_given' = g \o <<x, y>> \/ pair_given' = g \o <<y, x>>
    BY <1>1, <1>11 DEF Pair!EnqueuePair, this
  <2>. QED
    BY <1>1, <1>6, <2>1, <2>2 DEF this, base
<1>. QED
  BY <1>7, <1>8, <1>9, <1>10, <1>11 DEF Pair!reorder_queue_enqueue_packet

(* The rest of the state after a call.                                     *)
LEMMA PairState ==
  ASSUME PairInv, NEW p \in Packets, Pair!reorder_queue_enqueue_packet(p)
  PROVE  /\ rx' = Append(rx, p) /\ rx' \in Seq(Packets)
         /\ Len(rx') = Len(rx) + 1 /\ Len(rx') <= MaxPackets
         /\ pair_saved' \in 0..Len(rx') /\ has_reorder' \in BOOLEAN
         /\ pair_abandoned' \subseteq 1..Len(rx')
         /\ has_reorder' => pair_saved' # 0 /\ pair_saved' \notin pair_abandoned'
<1>2. /\ rx' = Append(rx, p) /\ rx' \in Seq(Packets)
      /\ Len(rx') = Len(rx) + 1 /\ Len(rx') <= MaxPackets /\ Len(rx) \in Nat
  BY MaxAssumption DEF PairInv, Pair!reorder_queue_enqueue_packet
<1>3. /\ pair_saved \in 0..Len(rx') /\ pair_abandoned \subseteq 1..Len(rx')
      /\ Pair!This \in 1..Len(rx') /\ Pair!This \notin pair_abandoned
  BY <1>2 DEF PairInv, Pair!This
<1>4. /\ has_reorder \in BOOLEAN
      /\ has_reorder => pair_saved # 0 /\ pair_saved \notin pair_abandoned
  BY DEF PairInv
<1>5. CASE Pair!EnqueueSave(p)
  <2>1. pair_saved' = Pair!This /\ pair_abandoned' = pair_abandoned /\ has_reorder' \in BOOLEAN
    BY <1>5 DEF Pair!EnqueueSave
  <2>. QED
    BY <1>2, <1>3, <2>1
<1>6. CASE Pair!EnqueueSyn(p)
  <2>1. ~has_reorder' /\ has_reorder' \in BOOLEAN /\ pair_saved' = pair_saved
    BY <1>6 DEF Pair!EnqueueSyn
  <2>2. pair_abandoned' \subseteq pair_abandoned \cup ({pair_saved} \ {0})
    BY <1>4, <1>6 DEF Pair!EnqueueSyn
  <2>. QED
    BY <1>2, <1>3, <2>1, <2>2
<1>7. CASE Pair!EnqueueEmpty(p) \/ Pair!EnqueuePair(p)
  <2>1. /\ ~has_reorder' /\ has_reorder' \in BOOLEAN
        /\ pair_saved' = pair_saved /\ pair_abandoned' = pair_abandoned
    BY <1>7 DEF Pair!EnqueueEmpty, Pair!EnqueuePair
  <2>. QED
    BY <1>2, <1>3, <2>1
<1>8. CASE Pair!EnqueueOld(p) \/ Pair!EnqueueNext(p)
  <2>1. has_reorder' = has_reorder /\ pair_saved' = pair_saved /\ pair_abandoned' = pair_abandoned
    BY <1>8 DEF Pair!EnqueueOld, Pair!EnqueueNext
  <2>. QED
    BY <1>2, <1>3, <1>4, <2>1
<1>. QED
  BY <1>5, <1>6, <1>7, <1>8 DEF Pair!reorder_queue_enqueue_packet

LEMMA PairNextInv == PairInv /\ [Pair!Next]_(Pair!vars) => PairInv'
<1>. SUFFICES ASSUME PairInv, [Pair!Next]_(Pair!vars)
              PROVE  PairInv'
  OBVIOUS
<1>1. CASE UNCHANGED Pair!vars
  BY <1>1 DEF Pair!vars, PairInv
<1>2. ASSUME NEW p \in Packets, Pair!reorder_queue_enqueue_packet(p)
      PROVE  PairInv'
  <2>1. pair_given' \in Seq(Accepts)
    BY <1>2, PairSettles DEF Settles
  <2>. QED
    BY <1>2, <2>1, PairState DEF PairInv
<1>. QED
  BY <1>1, <1>2 DEF Pair!Next

LEMMA PairTakes ==
  ASSUME PairInv, NEW p \in Packets, Pair!reorder_queue_enqueue_packet(p)
  PROVE  Pair!Buffer!Take
<1>1. PairInv'
  BY PairNextInv DEF Pair!Next
<1>2. PairHeld' \subseteq 1..Len(rx') /\ Len(rx') \in Nat /\ Len(rx') <= MaxPackets
  <2>1. PairHeld' \subseteq 1..Len(rx')
    <3>1. /\ has_reorder' => PairHeld' = {pair_saved'} \cup pair_abandoned'
          /\ ~has_reorder' => PairHeld' = pair_abandoned'
      BY DEF PairHeld, Pair!Saved
    <3>. QED
      BY <3>1, PairState
  <2>. QED
    BY <2>1, PairState, PairBasics
<1>3. Cardinality(PairHeld') \in Nat /\ Cardinality(PairHeld') <= Len(rx')
  BY <1>2, HeldOfTaken
<1>4. Pair!Buffer!Cardinality(PairHeld') = Cardinality(PairHeld')
  BY DEF Pair!Buffer!Cardinality, Cardinality
<1>5. Pair!Buffer!Cardinality(PairHeld') <= MaxPackets + 1
  BY <1>2, <1>3, <1>4, MaxAssumption
<1>6. Pair!Buffer!Settle(PairHeld \cup {Pair!This})
  BY <1>5, PairSettles
     DEF Settles, Pair!Buffer!Settle, Pair!Buffer!Fresh, PairHeld, Accepts
<1>7. Len(rx') = Len(rx) + 1 /\ Pair!This = Len(rx) + 1
  BY PairState, PairBasics
<1>. QED
  BY <1>6, <1>7 DEF Pair!Buffer!Take, PairHeld

(* The steps of the other handlers leave reorder_fedora alone.                *)
LEMMA PairAlone == Spec => Pair!Spec
<1>1. Init => Pair!Init
  BY DEF Init
<1>2. [Next]_vars => [Pair!Next]_(Pair!vars)
  BY DEF Next, vars, DupackStep, PairStep, SwapStep, RaceStep, DropStep, PathTransmit, PathDeliver,
         OffPath, pair_vars, Pair!vars
<1>. QED
  BY <1>1, <1>2, PTL DEF Spec, Pair!Spec

LEMMA PairInvariant == Spec => []PairInv
BY PairAlone, PairInitInv, PairNextInv, PTL DEF Pair!Spec

(* reorder_fedora reinjects every packet exactly once, or holds it: the    *)
(* one it has put aside and those that a SYN has made it forget.           *)
THEOREM PairBufferImplemented == Spec => PairBufferSpec
<1>1. Pair!Init => Pair!Buffer!Init
  BY DEF Pair!Init, Pair!Buffer!Init, Pair!Saved
<1>2. PairInv /\ [Pair!Next]_(Pair!vars) => [Pair!Buffer!Next]_(Pair!Buffer!bufferVars)
  <2>1. UNCHANGED Pair!vars => UNCHANGED Pair!Buffer!bufferVars
    BY DEF Pair!vars, Pair!Buffer!bufferVars, Pair!Saved
  <2>. QED
    BY <2>1, PairTakes DEF Pair!Next, Pair!Buffer!Next
<1>. QED
  BY <1>1, <1>2, PairAlone, PairInvariant, PTL
     DEF PairBufferSpec, Pair!PairBufferSpec, Pair!Buffer!Spec, Pair!Spec

-----------------------------------------------------------------------------
(* sender_reorder, one shared access at a time.                            *)

(* What entry_saved is while a call is under way.                          *)
RaceSaves(c) ==
  /\ entry[c] # 0 /\ entry[c] # race_saved
  /\ pc[c] \in {"save", "accept"} => race_saved = 0
  /\ pc[c] \in {"flush", "forget", "first", "second", "clear"} => race_saved # 0

RaceSerial ==
  /\ Race!TypeOK
  /\ Serialised => ~overlapped
  /\ ~overlapped => /\ \A c, d \in Race!Busy : c = d
                    /\ \A c \in Race!Busy : RaceSaves(c)

RaceInv == RaceSerial /\ Race!AccountedUnlessOverlapped

-----------------------------------------------------------------------------
(* The packets waiting when all CPUs but c are idle.                       *)
RaceWaitingIn(p, e, s) ==
  ({s} \ ({0} \cup {s : c \in {d \in CPUs : p[d] \in {"forget", "clear"}}}))
    \cup {e[c] : c \in {d \in CPUs : p[d] \in {"save", "flush", "forget", "accept", "first"}}}

RaceWaitingAlone(pcc, ec, s) ==
  (IF pcc \in {"forget", "clear"} THEN {} ELSE {s} \ {0})
    \cup (IF pcc \in {"save", "flush", "forget", "accept", "first"} THEN {ec} ELSE {})

LEMMA RaceAloneWaits ==
  ASSUME NEW p, NEW e, NEW s, NEW c \in CPUs, \A d \in CPUs \ {c} : p[d] = "idle"
  PROVE  RaceWaitingIn(p, e, s) = RaceWaitingAlone(p[c], e[c], s)
<1>. DEFINE out == {s : b \in {d \in CPUs : p[d] \in {"forget", "clear"}}}
            own == {e[b] : b \in {d \in CPUs : p[d] \in {"save", "flush", "forget", "accept", "first"}}}
<1>1. out = IF p[c] \in {"forget", "clear"} THEN {s} ELSE {}
  OBVIOUS
<1>2. own = IF p[c] \in {"save", "flush", "forget", "accept", "first"} THEN {e[c]} ELSE {}
  OBVIOUS
<1>. HIDE DEF out, own
<1>3. RaceWaitingIn(p, e, s) = ({s} \ ({0} \cup out)) \cup own
  BY DEF RaceWaitingIn, out, own
<1>. QED
  BY <1>1, <1>2, <1>3 DEF RaceWaitingAlone

LEMMA RaceWaitingIs == /\ Race!Waiting = RaceWaitingIn(pc, entry, race_saved)
                   /\ Race!Waiting' = RaceWaitingIn(pc', entry', race_saved')
  BY DEF Race!Waiting, RaceWaitingIn

-----------------------------------------------------------------------------
RaceAccess(c) ==
  \/ Race!Call(c) \/ Race!Save(c)
  \/ Race!FlushSaved(c) \/ Race!Forget(c) \/ Race!AcceptEntry(c)
  \/ Race!AcceptFirst(c) \/ Race!AcceptSaved(c) \/ Race!Clear(c)

LEMMA RaceNextIsAccess == Race!Next <=> \E c \in CPUs : RaceAccess(c)
  BY DEF Race!Next, RaceAccess

LEMMA RaceInitSerial == Race!Init => RaceSerial
<1>. SUFFICES ASSUME Race!Init
              PROVE  RaceSerial
  OBVIOUS
<1>1. ~overlapped /\ overlapped \in BOOLEAN
  BY DEF Race!Init
<1>2. Race!TypeOK
  <2>1. /\ taken \in Nat /\ race_given \in Seq([id : Nat, v : {"accept"}]) /\ race_saved \in 0..taken
        /\ entry \in [CPUs -> 0..taken]
        /\ pc \in [CPUs -> {"idle", "save", "flush", "forget", "accept", "first", "second", "clear"}]
    BY DEF Race!Init
  <2>. QED
    BY <1>1, <2>1 DEF Race!TypeOK
<1>3. Race!Busy = {}
  BY DEF Race!Init, Race!Busy
<1>. QED
  BY <1>1, <1>2, <1>3 DEF RaceSerial

(* A CPU that takes a step while no calls have overlapped is the only one  *)
(* in a call.                                                              *)
LEMMA RaceOnlyCall ==
  ASSUME RaceSerial, NEW c \in CPUs, RaceAccess(c), ~overlapped'
  PROVE  /\ ~overlapped
         /\ \A d \in CPUs \ {c} : pc[d] = "idle" /\ pc'[d] = "idle"
<1>1. ~overlapped
  BY DEF RaceAccess, Race!Call, Race!Save, Race!FlushSaved, Race!Forget,
     Race!AcceptEntry, Race!AcceptFirst, Race!AcceptSaved, Race!Clear
<1>2. \A d \in CPUs \ {c} : pc'[d] = pc[d]
  BY DEF RaceAccess, Race!Call, Race!Save, Race!FlushSaved, Race!Forget,
     Race!AcceptEntry, Race!AcceptFirst, Race!AcceptSaved, Race!Clear,
         Race!Goes, RaceSerial, Race!TypeOK
<1>3. CASE Race!Call(c)
  <2>1. Race!Busy = {}
    BY <1>3 DEF Race!Call
  <2>. QED
    BY <2>1, <1>1, <1>2 DEF Race!Busy
<1>4. CASE ~Race!Call(c)
  <2>1. c \in Race!Busy
    BY <1>4 DEF RaceAccess, Race!Save, Race!FlushSaved, Race!Forget, Race!AcceptEntry,
       Race!AcceptFirst, Race!AcceptSaved, Race!Clear, Race!Goes, Race!Busy
  <2>. QED
    BY <2>1, <1>1, <1>2 DEF RaceSerial, Race!Busy
<1>. QED
  BY <1>3, <1>4

(* What one step does to one CPU and to the shared entry.                  *)
LEMMA RaceType == ASSUME RaceSerial, NEW c \in CPUs, RaceAccess(c) PROVE Race!TypeOK'
<1>1. taken' \in Nat /\ taken <= taken'
  BY DEF RaceSerial, Race!TypeOK, RaceAccess, Race!Call, Race!Save, Race!FlushSaved,
     Race!Forget, Race!AcceptEntry, Race!AcceptFirst, Race!AcceptSaved, Race!Clear
<1>2. race_given' \in Seq([id : Nat, v : {"accept"}])
  <2>1. \A g \in Seq(Accepts), x \in Accepts : Append(g, x) \in Seq(Accepts)
    BY OneVerdict
  <2>2. Race!Accept(race_saved) \in Accepts /\ Race!Accept(entry[c]) \in Accepts
    BY DEF RaceSerial, Race!TypeOK, Race!Accept, Accepts
  <2>. QED
    BY <2>1, <2>2
       DEF RaceSerial, Race!TypeOK, Accepts, RaceAccess, Race!Call, Race!Save,
       Race!FlushSaved, Race!Forget, Race!AcceptEntry, Race!AcceptFirst,
           Race!AcceptSaved, Race!Clear
<1>3. race_saved' \in 0..taken'
  <2>1. race_saved' = race_saved \/ race_saved' = 0 \/ race_saved' = entry[c]
    BY DEF RaceAccess, Race!Call, Race!Save, Race!FlushSaved, Race!Forget,
       Race!AcceptEntry, Race!AcceptFirst, Race!AcceptSaved, Race!Clear
  <2>. QED
    BY <2>1, <1>1 DEF RaceSerial, Race!TypeOK
<1>4. pc' \in [CPUs -> {"idle", "save", "flush", "forget", "accept", "first", "second", "clear"}]
  <2>1. \E to \in {"idle", "save", "flush", "forget", "accept", "first", "second", "clear"} :
          pc' = [pc EXCEPT ![c] = to]
    BY DEF RaceAccess, Race!Call, Race!Save, Race!FlushSaved, Race!Forget,
       Race!AcceptEntry, Race!AcceptFirst, Race!AcceptSaved, Race!Clear, Race!Goes
  <2>. QED
    BY <2>1 DEF RaceSerial, Race!TypeOK
<1>5. entry' \in [CPUs -> 0..taken']
  <2>1. entry' = entry \/ (entry' = [entry EXCEPT ![c] = taken + 1] /\ taken' = taken + 1)
    BY DEF RaceAccess, Race!Call, Race!Save, Race!FlushSaved, Race!Forget,
       Race!AcceptEntry, Race!AcceptFirst, Race!AcceptSaved, Race!Clear
  <2>2. \A n \in 0..taken : n \in 0..taken'
    BY <1>1 DEF RaceSerial, Race!TypeOK
  <2>3. taken + 1 \in 0..taken + 1
    BY DEF RaceSerial, Race!TypeOK
  <2>. QED
    BY <2>1, <2>2, <2>3 DEF RaceSerial, Race!TypeOK
<1>6. overlapped' \in BOOLEAN
  <2>1. CASE Race!Call(c)
    BY <2>1 DEF Race!Call
  <2>2. CASE ~Race!Call(c)
    BY <2>2 DEF RaceAccess, Race!Save, Race!FlushSaved, Race!Forget, Race!AcceptEntry,
       Race!AcceptFirst, Race!AcceptSaved, Race!Clear, RaceSerial, Race!TypeOK
  <2>. QED
    BY <2>1, <2>2
<1>. QED
  BY <1>1, <1>2, <1>3, <1>4, <1>5, <1>6 DEF Race!TypeOK

(* The call that is under way, if it is the only one.                      *)
LEMMA RaceAccessSaves ==
  ASSUME RaceSerial, NEW c \in CPUs, RaceAccess(c), ~overlapped', pc'[c] # "idle"
  PROVE  RaceSaves(c)'
<1>1. ~overlapped
  BY RaceOnlyCall
<1>2. CASE Race!Call(c)
  <2>1. /\ entry'[c] = taken + 1 /\ race_saved' = race_saved
        /\ race_saved \in 0..taken /\ taken \in Nat
    BY <1>2 DEF Race!Call, RaceSerial, Race!TypeOK
  <2>2. PICK ctl \in BOOLEAN :
          Race!Goes(c, "idle", IF ctl THEN IF race_saved = 0 THEN "accept" ELSE "flush"
                                 ELSE IF race_saved = 0 THEN "save"   ELSE "first")
    BY <1>2 DEF Race!Call
  <2>3. /\ race_saved = 0 => pc'[c] \in {"accept", "save"}
        /\ race_saved # 0 => pc'[c] \in {"flush", "first"}
    BY <2>2 DEF Race!Goes, RaceSerial, Race!TypeOK
  <2>. QED
    BY <2>1, <2>3 DEF RaceSaves
<1>3. CASE ~Race!Call(c)
  <2>1. RaceSaves(c)
    BY <1>1, <1>3 DEF RaceSerial, Race!Busy, RaceAccess, Race!Save, Race!FlushSaved,
       Race!Forget, Race!AcceptEntry, Race!AcceptFirst,
                      Race!AcceptSaved, Race!Clear, Race!Goes
  <2>2. \/ pc[c] = "flush" /\ pc'[c] = "forget" /\ UNCHANGED <<race_saved, entry>>
        \/ pc[c] = "forget" /\ pc'[c] = "accept" /\ race_saved' = 0 /\ UNCHANGED entry
        \/ pc[c] = "first" /\ pc'[c] = "second" /\ UNCHANGED <<race_saved, entry>>
        \/ pc[c] = "second" /\ pc'[c] = "clear" /\ UNCHANGED <<race_saved, entry>>
    BY <1>3 DEF RaceSerial, Race!TypeOK, RaceAccess, Race!Save, Race!FlushSaved,
       Race!Forget, Race!AcceptEntry, Race!AcceptFirst, Race!AcceptSaved,
                Race!Clear, Race!Goes
  <2>. QED
    BY <2>1, <2>2 DEF RaceSaves
<1>. QED
  BY <1>2, <1>3

LEMMA RaceAccessSerial == ASSUME RaceSerial, NEW c \in CPUs, RaceAccess(c) PROVE RaceSerial'
<1>1. Race!TypeOK'
  BY RaceType
<1>2. Serialised => ~overlapped'
  <2>1. CASE Race!Call(c)
    BY <2>1 DEF Race!Call, RaceSerial
  <2>2. CASE ~Race!Call(c)
    BY <2>2 DEF RaceAccess, Race!Save, Race!FlushSaved, Race!Forget, Race!AcceptEntry,
       Race!AcceptFirst, Race!AcceptSaved, Race!Clear, RaceSerial
  <2>. QED
    BY <2>1, <2>2
<1>3. ASSUME ~overlapped'
      PROVE  Race!Busy' \subseteq {c} /\ \A d \in Race!Busy' : RaceSaves(d)'
  <2>1. Race!Busy' \subseteq {c}
    BY <1>3, RaceOnlyCall DEF Race!Busy
  <2>2. c \in Race!Busy' => RaceSaves(c)'
    BY <1>3, RaceAccessSaves DEF Race!Busy
  <2>. QED
    BY <2>1, <2>2
<1>. QED
  BY <1>1, <1>2, <1>3 DEF RaceSerial

-----------------------------------------------------------------------------
(* What waits while no calls have overlapped was taken, and is one packet  *)
(* put aside and one under way at most.                                    *)
RaceAtMostTwo == \E a, b \in 0..taken : Race!Waiting \subseteq {a, b} \ {0}

LEMMA RaceWaitingBound == RaceSerial /\ ~overlapped => RaceAtMostTwo
<1>. SUFFICES ASSUME RaceSerial, ~overlapped
              PROVE  \E a, b \in 0..taken : Race!Waiting \subseteq {a, b} \ {0}
  BY DEF RaceAtMostTwo
<1>1. CASE Race!Busy = {}
  <2>1. Race!Waiting \subseteq {race_saved, race_saved} \ {0}
    BY <1>1 DEF Race!Busy, Race!Waiting
  <2>2. race_saved \in 0..taken
    BY DEF RaceSerial, Race!TypeOK
  <2>. QED
    BY <2>1, <2>2
<1>2. CASE Race!Busy # {}
  <2>1. PICK c \in CPUs : c \in Race!Busy
    BY <1>2 DEF Race!Busy
  <2>2. \A d \in CPUs \ {c} : pc[d] = "idle"
    BY <2>1 DEF RaceSerial, Race!Busy
  <2>3. Race!Waiting = RaceWaitingAlone(pc[c], entry[c], race_saved)
    BY <2>2, RaceAloneWaits, RaceWaitingIs
  <2>4. RaceSaves(c)
    BY <2>1 DEF RaceSerial
  <2>5. Race!Waiting \subseteq {race_saved, entry[c]} \ {0}
    BY <2>3, <2>4 DEF RaceWaitingAlone, RaceSaves
  <2>6. race_saved \in 0..taken /\ entry[c] \in 0..taken
    BY <2>1 DEF RaceSerial, Race!TypeOK
  <2>. QED
    BY <2>5, <2>6
<1>. QED
  BY <1>1, <1>2

RaceTakes == taken' = taken + 1 /\ race_given' = race_given /\ Race!Waiting' = Race!Waiting \cup {taken + 1}

RaceGives(x) == taken' = taken /\ race_given' = Append(race_given, Race!Accept(x)) /\ Race!Waiting' = Race!Waiting \ {x}

(* While no calls overlap, a step takes a packet, reinjects one that was   *)
(* waiting, or changes nothing that can be seen from outside.              *)
LEMMA RaceEffects ==
  ASSUME RaceSerial, NEW c \in CPUs, RaceAccess(c), ~overlapped'
  PROVE  \/ RaceTakes
         \/ \E x \in Race!Waiting : RaceGives(x)
         \/ UNCHANGED <<taken, race_given, Race!Waiting>>
<1>1. ~overlapped /\ \A d \in CPUs \ {c} : pc[d] = "idle" /\ pc'[d] = "idle"
  BY RaceOnlyCall
<1>2. /\ Race!Waiting  = RaceWaitingAlone(pc[c], entry[c], race_saved)
      /\ Race!Waiting' = RaceWaitingAlone(pc'[c], entry'[c], race_saved')
  BY <1>1, RaceAloneWaits, RaceWaitingIs
<1>3. pc[c] # "idle" => RaceSaves(c)
  BY <1>1 DEF RaceSerial, Race!Busy
<1>4. /\ pc \in [CPUs -> {"idle", "save", "flush", "forget", "accept", "first", "second", "clear"}]
      /\ entry \in [CPUs -> 0..taken]
  BY DEF RaceSerial, Race!TypeOK
<1>5. CASE Race!Call(c)
  <2>1. /\ taken' = taken + 1 /\ race_given' = race_given /\ race_saved' = race_saved
        /\ entry'[c] = taken + 1 /\ pc[c] = "idle"
    BY <1>4, <1>5 DEF Race!Call, Race!Goes
  <2>2. pc'[c] \in {"save", "flush", "accept", "first"}
    BY <1>4, <1>5 DEF Race!Call, Race!Goes
  <2>3. Race!Waiting' = Race!Waiting \cup {taken + 1}
    BY <1>2, <2>1, <2>2 DEF RaceWaitingAlone
  <2>. QED
    BY <2>1, <2>3 DEF RaceTakes
<1>6. CASE Race!Save(c)
  <2>1. /\ pc[c] = "save" /\ pc'[c] = "idle" /\ race_saved' = entry[c]
        /\ UNCHANGED <<taken, race_given, entry>>
    BY <1>4, <1>6 DEF Race!Save, Race!Goes
  <2>2. Race!Waiting' = Race!Waiting
    BY <1>2, <1>3, <2>1 DEF RaceWaitingAlone, RaceSaves
  <2>. QED
    BY <2>1, <2>2
<1>7. CASE Race!FlushSaved(c)
  <2>1. /\ pc[c] = "flush" /\ pc'[c] = "forget" /\ race_given' = Append(race_given, Race!Accept(race_saved))
        /\ UNCHANGED <<taken, race_saved, entry>>
    BY <1>4, <1>7 DEF Race!FlushSaved, Race!Goes
  <2>2. race_saved \in Race!Waiting /\ Race!Waiting' = Race!Waiting \ {race_saved}
    BY <1>2, <1>3, <2>1 DEF RaceWaitingAlone, RaceSaves
  <2>. QED
    BY <2>1, <2>2 DEF RaceGives
<1>8. CASE Race!Forget(c)
  <2>1. /\ pc[c] = "forget" /\ pc'[c] = "accept" /\ race_saved' = 0
        /\ UNCHANGED <<taken, race_given, entry>>
    BY <1>4, <1>8 DEF Race!Forget, Race!Goes
  <2>2. Race!Waiting' = Race!Waiting
    BY <1>2, <1>3, <2>1 DEF RaceWaitingAlone, RaceSaves
  <2>. QED
    BY <2>1, <2>2
<1>9. CASE Race!AcceptEntry(c)
  <2>1. /\ pc[c] = "accept" /\ pc'[c] = "idle" /\ race_given' = Append(race_given, Race!Accept(entry[c]))
        /\ UNCHANGED <<taken, race_saved, entry>>
    BY <1>4, <1>9 DEF Race!AcceptEntry, Race!Goes
  <2>2. entry[c] \in Race!Waiting /\ Race!Waiting' = Race!Waiting \ {entry[c]}
    BY <1>2, <1>3, <2>1 DEF RaceWaitingAlone, RaceSaves
  <2>. QED
    BY <2>1, <2>2 DEF RaceGives
<1>10. CASE Race!AcceptFirst(c)
  <2>1. /\ pc[c] = "first" /\ pc'[c] = "second" /\ race_given' = Append(race_given, Race!Accept(entry[c]))
        /\ UNCHANGED <<taken, race_saved, entry>>
    BY <1>4, <1>10 DEF Race!AcceptFirst, Race!Goes
  <2>2. entry[c] \in Race!Waiting /\ Race!Waiting' = Race!Waiting \ {entry[c]}
    BY <1>2, <1>3, <2>1 DEF RaceWaitingAlone, RaceSaves
  <2>. QED
    BY <2>1, <2>2 DEF RaceGives
<1>11. CASE Race!AcceptSaved(c)
  <2>1. /\ pc[c] = "second" /\ pc'[c] = "clear" /\ race_given' = Append(race_given, Race!Accept(race_saved))
        /\ UNCHANGED <<taken, race_saved, entry>>
    BY <1>4, <1>11 DEF Race!AcceptSaved, Race!Goes
  <2>2. race_saved \in Race!Waiting /\ Race!Waiting' = Race!Waiting \ {race_saved}
    BY <1>2, <1>3, <2>1 DEF RaceWaitingAlone, RaceSaves
  <2>. QED
    BY <2>1, <2>2 DEF RaceGives
<1>12. CASE Race!Clear(c)
  <2>1. /\ pc[c] = "clear" /\ pc'[c] = "idle" /\ race_saved' = 0
        /\ UNCHANGED <<taken, race_given, entry>>
    BY <1>4, <1>12 DEF Race!Clear, Race!Goes
  <2>2. Race!Waiting' = Race!Waiting
    BY <1>2, <1>3, <2>1 DEF RaceWaitingAlone, RaceSaves
  <2>. QED
    BY <2>1, <2>2
<1>. QED
  BY <1>5, <1>6, <1>7, <1>8, <1>9, <1>10, <1>11, <1>12 DEF RaceAccess

-----------------------------------------------------------------------------
(* One verdict more for a waiting packet, or one packet more.              *)
LEMMA RaceAccountedTakes ==
  ASSUME RaceSerial, Race!AccountedUnlessOverlapped, ~overlapped, RaceTakes
  PROVE  Race!AccountedUnlessOverlapped'
<1>1. Race!Waiting \cup Race!Settled = 1..taken /\ Race!Waiting \cap Race!Settled = {}
  BY DEF Race!AccountedUnlessOverlapped
<1>2. Race!Settled' = Race!Settled
  BY DEF Race!Settled, RaceTakes
<1>3. taken \in Nat /\ 1..(taken + 1) = (1..taken) \cup {taken + 1} /\ taken + 1 \notin 1..taken
  BY DEF RaceSerial, Race!TypeOK
<1>4. Race!Waiting' \cup Race!Settled' = 1..taken' /\ Race!Waiting' \cap Race!Settled' = {}
  BY <1>1, <1>2, <1>3 DEF RaceTakes
<1>5. \A i, j \in 1..Len(race_given') : race_given'[i].id = race_given'[j].id => i = j
  BY DEF Race!AccountedUnlessOverlapped, RaceTakes
<1>. QED
  BY <1>4, <1>5 DEF Race!AccountedUnlessOverlapped

LEMMA RaceAccountedGives ==
  ASSUME RaceSerial, Race!AccountedUnlessOverlapped, ~overlapped, NEW x \in Race!Waiting, RaceGives(x)
  PROVE  Race!AccountedUnlessOverlapped'
<1>1. /\ Race!Waiting \cup Race!Settled = 1..taken /\ Race!Waiting \cap Race!Settled = {}
      /\ \A i, j \in 1..Len(race_given) : race_given[i].id = race_given[j].id => i = j
  BY DEF Race!AccountedUnlessOverlapped
<1>2. x \in Nat /\ x \notin Race!Settled
  BY <1>1 DEF RaceSerial, Race!TypeOK
<1>3. race_given \in Seq(Accepts) /\ Race!Accept(x) \in Accepts /\ Race!Accept(x).id = x
  BY <1>2 DEF RaceSerial, Race!TypeOK, Accepts, Race!Accept
<1>4. /\ Len(race_given') = Len(race_given) + 1 /\ Len(race_given) \in Nat
      /\ \A i \in 1..Len(race_given) : race_given'[i] = race_given[i]
      /\ race_given'[Len(race_given) + 1] = Race!Accept(x)
  BY <1>3, OneVerdict DEF RaceGives
<1>5. 1..Len(race_given') = (1..Len(race_given)) \cup {Len(race_given) + 1}
  BY <1>4
<1>6. Race!Settled' = Race!Settled \cup {x}
  BY <1>3, <1>4, <1>5 DEF Race!Settled
<1>7. Race!Waiting' \cup Race!Settled' = 1..taken' /\ Race!Waiting' \cap Race!Settled' = {}
  BY <1>1, <1>6 DEF RaceGives
<1>8. \A i \in 1..Len(race_given) : race_given'[i].id # x
  BY <1>2, <1>4 DEF Race!Settled
<1>9. \A i, j \in 1..Len(race_given') : race_given'[i].id = race_given'[j].id => i = j
  BY <1>1, <1>3, <1>4, <1>5, <1>8
<1>. QED
  BY <1>7, <1>9 DEF Race!AccountedUnlessOverlapped

LEMMA RaceInitInv == Race!Init => RaceInv
<1>. SUFFICES ASSUME Race!Init
              PROVE  Race!AccountedUnlessOverlapped
  BY RaceInitSerial DEF RaceInv
<1>1. Race!Waiting = {} /\ Race!Settled = {} /\ 1..taken = {} /\ Len(race_given) = 0
  BY DEF Race!Init, Race!Waiting, Race!Settled
<1>. QED
  BY <1>1 DEF Race!AccountedUnlessOverlapped

LEMMA RaceNextInv == RaceInv /\ [Race!Next]_(Race!vars) => RaceInv'
<1>. SUFFICES ASSUME RaceInv, [Race!Next]_(Race!vars)
              PROVE  RaceInv'
  OBVIOUS
<1>1. CASE UNCHANGED Race!vars
  <2>1. RaceSerial'
    BY <1>1 DEF Race!vars, RaceInv, RaceSerial, Race!TypeOK, Race!Busy, RaceSaves
  <2>2. Race!Waiting' = Race!Waiting /\ Race!Settled' = Race!Settled
    BY <1>1 DEF Race!vars, Race!Waiting, Race!Settled
  <2>. QED
    BY <1>1, <2>1, <2>2 DEF Race!vars, RaceInv, Race!AccountedUnlessOverlapped
<1>2. ASSUME NEW c \in CPUs, RaceAccess(c)
      PROVE  RaceInv'
  <2>1. RaceSerial'
    BY <1>2, RaceAccessSerial DEF RaceInv
  <2>2. CASE overlapped'
    BY <2>1, <2>2 DEF RaceInv, Race!AccountedUnlessOverlapped
  <2>3. CASE ~overlapped'
    <3>1. ~overlapped
      BY <1>2, <2>3, RaceOnlyCall DEF RaceInv
    <3>2. CASE RaceTakes
      BY <2>1, <3>1, <3>2, RaceAccountedTakes DEF RaceInv
    <3>3. CASE \E x \in Race!Waiting : RaceGives(x)
      BY <2>1, <3>1, <3>3, RaceAccountedGives DEF RaceInv
    <3>4. CASE UNCHANGED <<taken, race_given, Race!Waiting>>
      <4>1. Race!Settled' = Race!Settled
        BY <3>4 DEF Race!Settled
      <4>. QED
        BY <2>1, <3>1, <3>4, <4>1 DEF RaceInv, Race!AccountedUnlessOverlapped
    <3>. QED
      BY <1>2, <2>3, <3>2, <3>3, <3>4, RaceEffects DEF RaceInv
  <2>. QED
    BY <2>2, <2>3
<1>. QED
  BY <1>1, <1>2, RaceNextIsAccess

(* The steps of the other handlers leave sender_reorder alone.             *)
LEMMA RaceAlone == Spec => Race!Spec
<1>1. Init => Race!Init
  BY DEF Init
<1>2. [Next]_vars => [Race!Next]_(Race!vars)
  BY DEF Next, vars, DupackStep, PairStep, SwapStep, RaceStep, DropStep, PathTransmit, PathDeliver,
         OffPath, race_vars, Race!vars
<1>. QED
  BY <1>1, <1>2, PTL DEF Spec, Race!Spec

(* As long as no two calls have overlapped no packet is lost and none is   *)
(* reinjected twice, on any number of CPUs.                                *)
THEOREM AccountedCorrect == Spec => []AccountedUnlessOverlapped
<1>1. RaceInv => AccountedUnlessOverlapped
  BY DEF RaceInv, AccountedUnlessOverlapped
<1>. QED
  BY <1>1, RaceAlone, RaceInitInv, RaceNextInv, PTL DEF Race!Spec

-----------------------------------------------------------------------------
LEMMA PairCardinality == ASSUME NEW a, NEW b PROVE IsFiniteSet({a, b}) /\ Cardinality({a, b}) <= 2
<1>1. IsFiniteSet({a}) /\ Cardinality({a}) = 1
  BY FS_Singleton
<1>2. IsFiniteSet({a} \cup {b}) /\ Cardinality({a} \cup {b}) \in {1, 2}
  <2>1. /\ IsFiniteSet({a} \cup {b})
        /\ Cardinality({a} \cup {b}) = IF b \in {a} THEN Cardinality({a}) ELSE Cardinality({a}) + 1
    BY <1>1, FS_AddElement
  <2>. QED
    BY <1>1, <2>1
<1>3. {a} \cup {b} = {a, b}
  OBVIOUS
<1>. QED
  BY <1>2, <1>3

LEMMA RaceWaitingFits ==
  ASSUME NEW n \in Nat, NEW S, \E a, b \in 0..n : S \subseteq {a, b} \ {0}
  PROVE  S \subseteq 1..n /\ Race!Buffer!Cardinality(S) <= 2
<1>1. PICK a, b \in 0..n : S \subseteq {a, b} \ {0}
  OBVIOUS
<1>2. Cardinality(S) <= 2
  <2>1. S \subseteq {a, b}
    BY <1>1
  <2>2. IsFiniteSet({a, b}) /\ Cardinality({a, b}) <= 2
    BY PairCardinality
  <2>3. Cardinality(S) <= Cardinality({a, b}) /\ IsFiniteSet(S)
    BY <2>1, <2>2, FS_Subset
  <2>4. Cardinality(S) \in Nat /\ Cardinality({a, b}) \in Nat
    BY <2>2, <2>3, FS_CardinalityType
  <2>. QED
    BY <2>2, <2>3, <2>4
<1>3. Race!Buffer!Cardinality(S) = Cardinality(S)
  BY DEF Race!Buffer!Cardinality, Cardinality
<1>. QED
  BY <1>1, <1>2, <1>3

LEMMA RaceWaitingFitsNext ==
  ASSUME RaceSerial', ~overlapped'
  PROVE  Race!Buffer!Cardinality(Race!Waiting') <= 2
<1>1. (RaceSerial /\ ~overlapped => RaceAtMostTwo)'
  BY RaceWaitingBound, PTL
<1>2. taken' \in Nat /\ \E a, b \in 0..taken' : Race!Waiting' \subseteq {a, b} \ {0}
  BY <1>1 DEF RaceAtMostTwo, RaceSerial, Race!TypeOK
<1>. QED
  BY <1>2, RaceWaitingFits

LEMMA RaceTakesIsTake ==
  ASSUME RaceSerial, RaceSerial', ~overlapped', RaceTakes
  PROVE  Race!Buffer!Take
<1>1. Race!Buffer!Fresh = {}
  BY DEF Race!Buffer!Fresh, RaceSerial, Race!TypeOK, RaceTakes
<1>2. race_given' \in Seq(Accepts)
  BY DEF RaceSerial, Race!TypeOK, Accepts
<1>3. Race!Buffer!Cardinality(Race!Waiting') <= 2
  BY RaceWaitingFitsNext
<1>. QED
  BY <1>1, <1>2, <1>3 DEF Race!Buffer!Take, Race!Buffer!Settle, RaceTakes, Accepts

LEMMA RaceGivesIsExpire ==
  ASSUME RaceSerial, RaceSerial', ~overlapped, ~overlapped', NEW x \in Race!Waiting, RaceGives(x)
  PROVE  Race!Buffer!Expire
<1>1. x \in Nat
  <2>1. PICK a, b \in 0..taken : Race!Waiting \subseteq {a, b} \ {0}
    BY RaceWaitingBound DEF RaceAtMostTwo
  <2>. QED
    BY <2>1 DEF RaceSerial, Race!TypeOK
<1>2. race_given \in Seq(Accepts) /\ Race!Accept(x) \in Accepts /\ Race!Accept(x).id = x
  BY <1>1 DEF RaceSerial, Race!TypeOK, Accepts, Race!Accept
<1>3. /\ Len(race_given') = Len(race_given) + 1 /\ Len(race_given) \in Nat /\ race_given' \in Seq(Accepts)
      /\ \A i \in 1..Len(race_given) : race_given'[i] = race_given[i]
      /\ race_given'[Len(race_given) + 1] = Race!Accept(x)
  BY <1>2, OneVerdict DEF RaceGives
<1>4. Race!Buffer!Fresh = {Len(race_given) + 1}
  BY <1>3 DEF Race!Buffer!Fresh
<1>5. Race!Waiting' = Race!Waiting \ {race_given'[i].id : i \in Race!Buffer!Fresh}
  BY <1>2, <1>3, <1>4 DEF RaceGives
<1>6. Race!Buffer!Cardinality(Race!Waiting') <= 2
  BY RaceWaitingFitsNext
<1>. QED
  BY <1>2, <1>3, <1>4, <1>5, <1>6 DEF Race!Buffer!Expire, Race!Buffer!Settle,
     RaceGives, Accepts

(* With one socket lock around the calls the handler implements the packet *)
(* buffer of two places.                                                   *)
THEOREM SerialBufferImplemented ==
  ASSUME Serialised
  PROVE  Spec => Race!SerialBufferSpec
<1>1. Race!Init => Race!Buffer!Init
  BY DEF Race!Init, Race!Buffer!Init, Race!Waiting
<1>2. RaceSerial => ~overlapped
  BY DEF RaceSerial
<1>3. RaceSerial /\ [Race!Next]_(Race!vars) => RaceSerial'
  <2>1. RaceSerial /\ UNCHANGED Race!vars => RaceSerial'
    BY DEF Race!vars, RaceSerial, Race!TypeOK, Race!Busy, RaceSaves
  <2>. QED
    BY <2>1, RaceAccessSerial, RaceNextIsAccess
<1>4. RaceSerial /\ RaceSerial' /\ [Race!Next]_(Race!vars) => [Race!Buffer!Next]_(Race!Buffer!bufferVars)
  <2>. SUFFICES ASSUME RaceSerial, RaceSerial', [Race!Next]_(Race!vars)
                PROVE  [Race!Buffer!Next]_(Race!Buffer!bufferVars)
    OBVIOUS
  <2>1. ~overlapped /\ ~overlapped'
    BY <1>2 DEF RaceSerial
  <2>2. CASE UNCHANGED Race!vars
    BY <2>2 DEF Race!vars, Race!Buffer!bufferVars, Race!Waiting
  <2>3. ASSUME NEW c \in CPUs, RaceAccess(c)
        PROVE  [Race!Buffer!Next]_(Race!Buffer!bufferVars)
    <3>1. CASE RaceTakes
      BY <2>1, <3>1, RaceTakesIsTake DEF Race!Buffer!Next
    <3>2. CASE \E x \in Race!Waiting : RaceGives(x)
      BY <2>1, <3>2, RaceGivesIsExpire DEF Race!Buffer!Next
    <3>3. CASE UNCHANGED <<taken, race_given, Race!Waiting>>
      BY <3>3 DEF Race!Buffer!bufferVars
    <3>. QED
      BY <2>1, <2>3, <3>1, <3>2, <3>3, RaceEffects
  <2>. QED
    BY <2>2, <2>3, RaceNextIsAccess
<1>. QED
  BY <1>1, <1>3, <1>4, RaceAlone, RaceInitSerial, PTL
     DEF Race!Spec, Race!SerialBufferSpec,
     Race!Buffer!Spec

-----------------------------------------------------------------------------
(* sender_reorder, when no two calls overlap.                              *)

(* The i-th and the next packet were exchanged.                            *)
SwappedAt(i) ==
  /\ i >= 1 /\ i + 1 <= Len(swap_given)
  /\ swap_given[i].id = i + 1 /\ swap_given[i + 1].id = i
  /\ ~tx[i] /\ ~tx[i + 1]

(* What is put aside is the last packet, and its successor releases it.    *)
SwapInv ==
  /\ tx \in Seq(BOOLEAN) /\ swap_given \in Seq(Accepts)
  /\ \/ swap_saved = 0 /\ Len(swap_given) = Len(tx)
     \/ /\ swap_saved = Len(tx) /\ swap_saved # 0 /\ ~tx[Len(tx)]
        /\ Len(swap_given) = Len(tx) - 1
  /\ \A i \in 1..Len(swap_given) : swap_given[i].id = i \/ SwappedAt(i) \/ SwappedAt(i - 1)

LEMMA SwapInitInv == Swap!Init => SwapInv
BY DEF Swap!Init, SwapInv

(* The packet is given in its place.                                       *)
LEMMA SwapGivesOne ==
  ASSUME SwapInv, NEW c \in BOOLEAN, tx' = Append(tx, c), Len(swap_given) = Len(tx),
         swap_given' = Append(swap_given, Swap!Accept(Swap!This)), swap_saved' = 0
  PROVE  SwapInv'
<1>1. PICK n, g, h : n = Len(tx) /\ g = swap_given /\ h = swap_given'
  OBVIOUS
<1>2. n \in Nat /\ g \in Seq(Accepts) /\ Len(g) = n /\ tx \in Seq(BOOLEAN) /\ Swap!This = n + 1
  BY <1>1, LenProperties DEF SwapInv, Swap!This
<1>3. Swap!Accept(Swap!This) \in Accepts /\ Swap!Accept(Swap!This).id = n + 1
  BY <1>2 DEF Swap!Accept, Accepts
<1>4. /\ h \in Seq(Accepts) /\ Len(h) = n + 1 /\ h[n + 1].id = n + 1
      /\ \A i \in 1..n : h[i] = g[i]
  BY <1>1, <1>2, <1>3, OneVerdict
<1>5. tx' \in Seq(BOOLEAN) /\ Len(tx') = n + 1 /\ \A i \in 1..n : tx'[i] = tx[i]
  BY <1>1, <1>2, AppendProperties
<1>6. ASSUME NEW i \in 1..(n + 1)
      PROVE  h[i].id = i \/ SwappedAt(i)' \/ SwappedAt(i - 1)'
  <2>1. CASE i = n + 1
    BY <1>4, <2>1
  <2>2. CASE i \in 1..n
    <3>1. g[i].id = i \/ SwappedAt(i) \/ SwappedAt(i - 1)
      BY <1>1, <1>2, <2>2 DEF SwapInv
    <3>2. ASSUME NEW j \in Int, SwappedAt(j) PROVE SwappedAt(j)'
      <4>1. j \in 1..n /\ j + 1 \in 1..n
        BY <1>1, <1>2, <3>2 DEF SwappedAt
      <4>. QED
        BY <1>1, <1>2, <1>4, <1>5, <3>2, <4>1 DEF SwappedAt
    <3>. QED
      BY <1>2, <1>4, <2>2, <3>1, <3>2
  <2>. QED
    BY <1>2, <2>1, <2>2
<1>. QED
  BY <1>1, <1>4, <1>5, <1>6 DEF SwapInv

(* The packet put aside and the one that follows it, in either order.      *)
LEMMA SwapGivesTwo ==
  ASSUME SwapInv, NEW c \in BOOLEAN, tx' = Append(tx, c), swap_saved # 0, swap_saved' = 0,
         \/ swap_given' = swap_given \o <<Swap!Accept(swap_saved), Swap!Accept(Swap!This)>>
         \/ /\ swap_given' = swap_given \o <<Swap!Accept(Swap!This), Swap!Accept(swap_saved)>>
            /\ ~c
  PROVE  SwapInv'
<1>1. PICK n, g, h : n = Len(swap_given) /\ g = swap_given /\ h = swap_given'
  OBVIOUS
<1>2. /\ n \in Nat /\ g \in Seq(Accepts) /\ Len(tx) = n + 1 /\ tx \in Seq(BOOLEAN)
      /\ Swap!This = n + 2 /\ swap_saved = n + 1 /\ ~tx[n + 1]
  BY <1>1, LenProperties DEF SwapInv, Swap!This
<1>3. \A k \in Nat : Swap!Accept(k) \in Accepts /\ Swap!Accept(k).id = k
  BY DEF Swap!Accept, Accepts
<1>4. /\ h \in Seq(Accepts) /\ Len(h) = n + 2
      /\ \A i \in 1..n : h[i] = g[i]
      /\ \/ h[n + 1].id = n + 1 /\ h[n + 2].id = n + 2
         \/ h[n + 1].id = n + 2 /\ h[n + 2].id = n + 1 /\ ~c
  <2>1. PICK x, y : x = Swap!Accept(swap_saved) /\ y = Swap!Accept(Swap!This)
    OBVIOUS
  <2>2. x \in Accepts /\ y \in Accepts /\ x.id = n + 1 /\ y.id = n + 2 /\ Len(g) = n
    BY <1>1, <1>2, <1>3, <2>1
  <2>3. CASE h = g \o <<x, y>>
    <3>3. g \in Seq(Accepts) /\ x \in Accepts /\ y \in Accepts
      BY <1>2, <2>2
    <3>4. /\ g \o <<x, y>> \in Seq(Accepts)
          /\ Len(g \o <<x, y>>) = Len(g) + 2
          /\ (g \o <<x, y>>)[Len(g) + 1] = x
          /\ (g \o <<x, y>>)[Len(g) + 2] = y
      BY <3>3, TwoVerdicts
    <3>1. h \in Seq(Accepts) /\ Len(h) = n + 2 /\ h[n + 1] = x /\ h[n + 2] = y
      BY <2>2, <2>3, <3>4
    <3>2. \A i \in 1..n : h[i] = g[i]
      BY <1>2, <2>2, <2>3, TwoVerdicts
    <3>. QED
      BY <2>2, <3>1, <3>2
  <2>4. CASE h = g \o <<y, x>> /\ ~c
    <3>3. g \in Seq(Accepts) /\ x \in Accepts /\ y \in Accepts
      BY <1>2, <2>2
    <3>4. /\ g \o <<y, x>> \in Seq(Accepts)
          /\ Len(g \o <<y, x>>) = Len(g) + 2
          /\ (g \o <<y, x>>)[Len(g) + 1] = y
          /\ (g \o <<y, x>>)[Len(g) + 2] = x
      BY <3>3, TwoVerdicts
    <3>1. h \in Seq(Accepts) /\ Len(h) = n + 2 /\ h[n + 1] = y /\ h[n + 2] = x
      BY <2>2, <2>4, <3>4
    <3>2. \A i \in 1..n : h[i] = g[i]
      BY <1>2, <2>2, <2>4, TwoVerdicts
    <3>. QED
      BY <2>2, <2>4, <3>1, <3>2
  <2>. QED
    BY <1>1, <2>1, <2>3, <2>4
<1>5. /\ tx' \in Seq(BOOLEAN) /\ Len(tx') = n + 2 /\ tx'[n + 2] = c
      /\ \A i \in 1..(n + 1) : tx'[i] = tx[i]
  BY <1>1, <1>2, AppendProperties
<1>6. ASSUME NEW i \in 1..(n + 2)
      PROVE  h[i].id = i \/ SwappedAt(i)' \/ SwappedAt(i - 1)'
  <2>1. CASE i \in {n + 1, n + 2}
    <3>1. CASE h[n + 1].id = n + 1 /\ h[n + 2].id = n + 2
      BY <2>1, <3>1
    <3>2. CASE h[n + 1].id = n + 2 /\ h[n + 2].id = n + 1 /\ ~c
      <4>1. SwappedAt(n + 1)'
        BY <1>1, <1>2, <1>4, <1>5, <3>2 DEF SwappedAt
      <4>2. i = n + 1 \/ i - 1 = n + 1
        BY <1>2, <2>1
      <4>. QED
        BY <4>1, <4>2
    <3>. QED
      BY <1>4, <3>1, <3>2
  <2>2. CASE i \in 1..n
    <3>1. g[i].id = i \/ SwappedAt(i) \/ SwappedAt(i - 1)
      BY <1>1, <1>2, <2>2 DEF SwapInv
    <3>2. ASSUME NEW j \in Int, SwappedAt(j) PROVE SwappedAt(j)'
      <4>1. j \in 1..n /\ j + 1 \in 1..n
        BY <1>1, <1>2, <3>2 DEF SwappedAt
      <4>. QED
        BY <1>1, <1>2, <1>4, <1>5, <3>2, <4>1 DEF SwappedAt
    <3>. QED
      BY <1>2, <1>4, <2>2, <3>1, <3>2
  <2>. QED
    BY <1>2, <2>1, <2>2
<1>. QED
  BY <1>1, <1>4, <1>5, <1>6 DEF SwapInv

LEMMA SwapNextInv == SwapInv /\ [Swap!Next]_(Swap!vars) => SwapInv'
<1>. SUFFICES ASSUME SwapInv, [Swap!Next]_(Swap!vars)
              PROVE  SwapInv'
  OBVIOUS
<1>1. CASE UNCHANGED Swap!vars
  BY <1>1 DEF Swap!vars, SwapInv, SwappedAt
<1>2. CASE Swap!EnqueueControl
  <2>1. tx' = Append(tx, TRUE) /\ swap_saved' = 0
    BY <1>2 DEF Swap!EnqueueControl
  <2>2. CASE swap_saved # 0
    BY <1>2, <2>1, <2>2, SwapGivesTwo DEF Swap!EnqueueControl
  <2>3. CASE swap_saved = 0
    <3>1. Len(swap_given) = Len(tx)
      BY <2>3 DEF SwapInv
    <3>. QED
      BY <1>2, <2>1, <2>3, <3>1, SwapGivesOne DEF Swap!EnqueueControl
  <2>. QED
    BY <2>2, <2>3
<1>3. CASE Swap!EnqueueSave
  <2>1. PICK n : n = Len(tx)
    OBVIOUS
  <2>2. /\ n \in Nat /\ Len(swap_given) = n /\ tx \in Seq(BOOLEAN)
        /\ tx' = Append(tx, FALSE) /\ swap_given' = swap_given /\ swap_saved' = n + 1
    BY <1>3, <2>1, LenProperties DEF SwapInv, Swap!EnqueueSave, Swap!This
  <2>3. /\ tx' \in Seq(BOOLEAN) /\ Len(tx') = n + 1 /\ tx'[n + 1] = FALSE
        /\ \A i \in 1..n : tx'[i] = tx[i]
    BY <2>1, <2>2, AppendProperties
  <2>4. ASSUME NEW j \in Int, SwappedAt(j) PROVE SwappedAt(j)'
    <3>1. j \in 1..n /\ j + 1 \in 1..n
      BY <2>2, <2>4 DEF SwappedAt
    <3>. QED
      BY <2>2, <2>3, <2>4, <3>1 DEF SwappedAt
  <2>5. \A i \in 1..n : swap_given'[i].id = i \/ SwappedAt(i)' \/ SwappedAt(i - 1)'
    BY <2>2, <2>4 DEF SwapInv
  <2>. QED
    BY <2>2, <2>3, <2>5 DEF SwapInv
<1>4. CASE Swap!EnqueueSwap
  BY <1>4, SwapGivesTwo DEF Swap!EnqueueSwap
<1>. QED
  BY <1>1, <1>2, <1>3, <1>4 DEF Swap!Next, Swap!sender_reorder_enqueue_packet

(* sender_reorder exchanges neighbours and does no more than that: a       *)
(* packet overtakes at most one other, which had just been put aside, and  *)
(* neither of them carries a flag.                                         *)
THEOREM NeighboursCorrect == Spec => []NeighboursOnly
<1>1. Init => Swap!Init
  BY DEF Init
<1>2. [Next]_vars => [Swap!Next]_(Swap!vars)
  BY DEF Next, vars, DupackStep, PairStep, SwapStep, RaceStep, DropStep, PathTransmit, PathDeliver,
         OffPath, swap_vars, Swap!vars
<1>3. SwapInv => NeighboursOnly
  <2>. SUFFICES ASSUME SwapInv, NEW i \in 1..Len(swap_given), NEW j \in 1..Len(swap_given),
                       i < j, swap_given[j].id < swap_given[i].id
                PROVE  /\ j = i + 1 /\ swap_given[i].id = swap_given[j].id + 1
                       /\ ~tx[swap_given[i].id] /\ ~tx[swap_given[j].id]
    BY DEF NeighboursOnly, Swap!NeighboursOnly
  <2>1. \A k \in {i, j} : swap_given[k].id = k \/ SwappedAt(k) \/ SwappedAt(k - 1)
    BY DEF SwapInv
  <2>2. SwappedAt(i) /\ j = i + 1
    BY <2>1 DEF SwappedAt
  <2>. QED
    BY <2>2 DEF SwappedAt
<1>. QED
  BY <1>1, <1>2, <1>3, SwapInitInv, SwapNextInv, PTL DEF Spec

-----------------------------------------------------------------------------
(* sender_drop.                                                            *)

DropType == [id : Nat, v : {"accept", "drop"}]

DroppedAt(i) == drop_given[i].v = "drop"

(* The packet at position p was dropped, and since then only data came     *)
(* and none of it was dropped.                                             *)
LastDrop(p) ==
  /\ p \in 1..Len(sent) /\ DroppedAt(p)
  /\ \A k \in (p + 1)..Len(sent) : ~sent[k] /\ ~DroppedAt(k)

(* loop_count tells how long ago the last packet was dropped; two drops    *)
(* are a Period or a SYN or FIN apart, and so are two stretches without.   *)
DropInv ==
  /\ sent \in Seq(BOOLEAN) /\ drop_given \in Seq(DropType) /\ Len(drop_given) = Len(sent)
  /\ \A i \in 1..Len(sent) : drop_given[i].id = i /\ (DroppedAt(i) => ~sent[i])
  /\ loop_count \in 0..(Period - 1)
  /\ loop_count # 0 => LastDrop((Len(sent) - loop_count) + 1)
  /\ loop_count = 0 => \/ Len(sent) = 0
                       \/ sent[Len(sent)]
                       \/ LastDrop((Len(sent) - Period) + 1)
  /\ \A i, j \in 1..Len(sent) :
       i < j /\ DroppedAt(i) /\ DroppedAt(j) /\ j < i + Period => \E k \in i..j : sent[k]
  /\ \A last \in Period..Len(sent) :
       (\A k \in ((last - Period) + 1)..last : ~sent[k]) =>
         \E k \in ((last - Period) + 1)..last : DroppedAt(k)

LEMMA DropInitInv == Lossy!Init => DropInv
<1>. SUFFICES ASSUME Lossy!Init
              PROVE  DropInv
  OBVIOUS
<1>1. sent = <<>> /\ drop_given = <<>> /\ loop_count = 0 /\ Len(sent) = 0 /\ Len(drop_given) = 0
  BY DEF Lossy!Init
<1>2. 1..Len(sent) = {} /\ Period..Len(sent) = {} /\ 0 \in 0..(Period - 1)
  BY <1>1, PeriodAssumption
<1>. QED
  BY <1>1, <1>2 DEF DropInv

(* One packet more with verdict w.                                         *)
LEMMA DropExtends ==
  ASSUME DropInv, NEW c \in BOOLEAN, NEW w \in {"accept", "drop"},
         sent' = Append(sent, c), drop_given' = Append(drop_given, [id |-> Len(sent) + 1, v |-> w]),
         w = "drop" => ~c, NEW n, n = Len(sent)
  PROVE  /\ n \in Nat
         /\ sent' \in Seq(BOOLEAN) /\ drop_given' \in Seq(DropType)
         /\ Len(sent') = n + 1 /\ Len(drop_given') = n + 1
         /\ sent'[n + 1] = c /\ (DroppedAt(n + 1)' <=> w = "drop")
         /\ \A i \in 1..n : sent'[i] = sent[i] /\ (DroppedAt(i)' <=> DroppedAt(i))
         /\ \A i \in 1..(n + 1) : drop_given'[i].id = i /\ (DroppedAt(i)' => ~sent'[i])
<1>1. PICK x : x = [id |-> n + 1, v |-> w]
  OBVIOUS
<1>2. n \in Nat /\ sent \in Seq(BOOLEAN) /\ drop_given \in Seq(DropType) /\ Len(drop_given) = n
  BY LenProperties DEF DropInv
<1>3. x \in DropType /\ x.id = n + 1 /\ x.v = w
  BY <1>1, <1>2 DEF DropType
<1>4. /\ sent' \in Seq(BOOLEAN) /\ Len(sent') = n + 1 /\ sent'[n + 1] = c
      /\ \A i \in 1..n : sent'[i] = sent[i]
  BY <1>2, AppendProperties
<1>5. /\ drop_given' \in Seq(DropType) /\ Len(drop_given') = n + 1 /\ drop_given'[n + 1] = x
      /\ \A i \in 1..n : drop_given'[i] = drop_given[i]
  BY <1>1, <1>2, <1>3, OneVerdict
<1>6. DroppedAt(n + 1)' <=> w = "drop"
  BY <1>3, <1>5 DEF DroppedAt
<1>7. \A i \in 1..n : sent'[i] = sent[i] /\ (DroppedAt(i)' <=> DroppedAt(i))
  BY <1>4, <1>5 DEF DroppedAt
<1>8. ASSUME NEW i \in 1..(n + 1)
      PROVE  drop_given'[i].id = i /\ (DroppedAt(i)' => ~sent'[i])
  <2>1. CASE i = n + 1
    BY <1>3, <1>4, <1>5, <1>6, <2>1
  <2>2. CASE i \in 1..n
    BY <1>5, <1>7, <2>2 DEF DropInv
  <2>. QED
    BY <1>2, <2>1, <2>2
<1>. QED
  BY <1>2, <1>4, <1>5, <1>6, <1>7, <1>8

(* What is left to show of a step.                                         *)
LEMMA DropKeeps ==
  ASSUME DropInv, NEW c \in BOOLEAN, NEW w \in {"accept", "drop"},
         sent' = Append(sent, c), drop_given' = Append(drop_given, [id |-> Len(sent) + 1, v |-> w]),
         w = "drop" => ~c, NEW n, n = Len(sent),
         w = "drop" => \A i \in 1..n : DroppedAt(i) /\ n + 1 < i + Period => \E k \in i..n : sent[k],
         w = "drop" \/ c \/ \E k \in ((n - Period) + 2)..n : k >= 1 /\ DroppedAt(k),
         loop_count' \in 0..(Period - 1),
         loop_count' # 0 => LastDrop((Len(sent) - loop_count) + 1)',
         loop_count' = 0 => c \/ LastDrop((Len(sent) - Period) + 1)'
  PROVE  DropInv'
<1>1. /\ n \in Nat
      /\ sent' \in Seq(BOOLEAN) /\ drop_given' \in Seq(DropType)
      /\ Len(sent') = n + 1 /\ Len(drop_given') = n + 1
      /\ sent'[n + 1] = c /\ (DroppedAt(n + 1)' <=> w = "drop")
      /\ \A i \in 1..n : sent'[i] = sent[i] /\ (DroppedAt(i)' <=> DroppedAt(i))
      /\ \A i \in 1..(n + 1) : drop_given'[i].id = i /\ (DroppedAt(i)' => ~sent'[i])
  BY DropExtends
<1>2. ASSUME NEW i \in 1..(n + 1), NEW j \in 1..(n + 1),
             i < j, DroppedAt(i)', DroppedAt(j)', j < i + Period
      PROVE  \E k \in i..j : sent'[k]
  <2>1. i \in 1..n /\ DroppedAt(i)
    BY <1>1, <1>2
  <2>2. CASE j = n + 1
    <3>1. PICK k \in i..n : sent[k]
      BY <1>1, <1>2, <2>1, <2>2
    <3>. QED
      BY <1>1, <2>1, <2>2, <3>1
  <2>3. CASE j \in 1..n
    <3>1. PICK k \in i..j : sent[k]
      BY <1>1, <1>2, <2>1, <2>3 DEF DropInv
    <3>. QED
      BY <1>1, <2>1, <2>3, <3>1
  <2>. QED
    <3>0. n \in Nat
      BY <1>1
    <3>1. j = n + 1 \/ j \in 1..n
      BY <3>0
    <3>. QED
      BY <2>2, <2>3, <3>1
<1>3. ASSUME NEW last \in Period..(n + 1), \A k \in ((last - Period) + 1)..last : ~sent'[k]
      PROVE  \E k \in ((last - Period) + 1)..last : DroppedAt(k)'
  <2>1. CASE last = n + 1
    <3>1. last \in ((last - Period) + 1)..last
      BY <1>1, <2>1, PeriodAssumption
    <3>2. ~c
      BY <1>1, <1>3, <2>1, <3>1
    <3>3. CASE w = "drop"
      BY <1>1, <2>1, <3>1, <3>3
    <3>4. CASE \E k \in ((n - Period) + 2)..n : k >= 1 /\ DroppedAt(k)
      <4>1. PICK k \in ((n - Period) + 2)..n : k >= 1 /\ DroppedAt(k)
        BY <3>4
      <4>2. k \in 1..n /\ k \in ((last - Period) + 1)..last
        BY <1>1, <2>1, <4>1, PeriodAssumption
      <4>. QED
        BY <1>1, <4>1, <4>2
    <3>. QED
      BY <3>2, <3>3, <3>4
  <2>2. CASE last \in Period..n
    <3>1. ((last - Period) + 1)..last \subseteq 1..n
      BY <1>1, <2>2, PeriodAssumption
    <3>2. PICK k \in ((last - Period) + 1)..last : DroppedAt(k)
      BY <1>1, <1>3, <2>2, <3>1 DEF DropInv
    <3>. QED
      BY <1>1, <3>1, <3>2
  <2>. QED
    BY <1>1, <2>1, <2>2, PeriodAssumption
<1>4. loop_count' = 0 => sent'[Len(sent')] \/ LastDrop((Len(sent) - Period) + 1)'
  BY <1>1
<1>. QED
  BY <1>1, <1>2, <1>3, <1>4 DEF DropInv

LEMMA DropNextInv == DropInv /\ [Lossy!Next]_(Lossy!vars) => DropInv'
<1>. SUFFICES ASSUME DropInv, [Lossy!Next]_(Lossy!vars)
              PROVE  DropInv'
  OBVIOUS
<1>1. CASE UNCHANGED Lossy!vars
  BY <1>1 DEF Lossy!vars, DropInv, DroppedAt, LastDrop
<1>2. CASE Lossy!EnqueueControl
  <2>1. /\ sent' = Append(sent, TRUE)
        /\ drop_given' = Append(drop_given, [id |-> Len(sent) + 1, v |-> "accept"])
        /\ loop_count' = 0
    BY <1>2 DEF Lossy!EnqueueControl, Lossy!Verdict
  <2>2. PICK n : n = Len(sent)
    OBVIOUS
  <2>3. loop_count' \in 0..(Period - 1)
    BY <2>1, PeriodAssumption
  <2>. QED
    BY <2>1, <2>2, <2>3, DropKeeps
<1>3. CASE Lossy!EnqueueData
  <2>1. PICK n, w : n = Len(sent) /\ w = IF loop_count < 1 THEN "drop" ELSE "accept"
    OBVIOUS
  <2>2. /\ sent' = Append(sent, FALSE)
        /\ drop_given' = Append(drop_given, [id |-> Len(sent) + 1, v |-> w])
        /\ loop_count' = (loop_count + 1) % Period
    BY <1>3, <2>1 DEF Lossy!EnqueueData, Lossy!Verdict
  <2>3. loop_count \in 0..(Period - 1) /\ w \in {"accept", "drop"} /\ (w = "drop" <=> loop_count = 0)
    BY <2>1 DEF DropInv
  <2>4. loop_count' = IF loop_count + 1 = Period THEN 0 ELSE loop_count + 1
    <3>1. CASE loop_count + 1 = Period
      BY <2>2, <3>1, PeriodAssumption
    <3>2. CASE loop_count + 1 # Period
      <4>1. loop_count + 1 \in Nat /\ loop_count + 1 < Period
        BY <2>3, <3>2, PeriodAssumption
      <4>. QED
        BY <2>2, <3>2, <4>1, PeriodAssumption, SmallRemainder
    <3>. QED
      BY <3>1, <3>2
  <2>5. loop_count' \in 0..(Period - 1)
    BY <2>3, <2>4, PeriodAssumption
  <2>6. /\ n \in Nat
        /\ Len(sent') = n + 1
        /\ sent'[n + 1] = FALSE /\ (DroppedAt(n + 1)' <=> w = "drop")
        /\ \A i \in 1..n : sent'[i] = sent[i] /\ (DroppedAt(i)' <=> DroppedAt(i))
    BY <2>1, <2>2, <2>3, DropExtends
  <2>7. CASE w = "drop"
    <3>1. LastDrop(n + 1)'
      BY <2>6, <2>7 DEF LastDrop
    <3>2. /\ loop_count' # 0 => LastDrop((Len(sent) - loop_count) + 1)'
          /\ loop_count' = 0 => LastDrop((Len(sent) - Period) + 1)'
      <4>1. loop_count' # 0 => (Len(sent') - loop_count') + 1 = n + 1
        BY <2>3, <2>4, <2>6, <2>7
      <4>2. loop_count' = 0 => (Len(sent') - Period) + 1 = n + 1
        BY <2>3, <2>4, <2>6, <2>7, PeriodAssumption
      <4>. QED
        BY <3>1, <4>1, <4>2
    <3>3. ASSUME NEW i \in 1..n, DroppedAt(i), n + 1 < i + Period
          PROVE  \E k \in i..n : sent[k]
      <4>1. n # 0 /\ n \in i..n
        BY <2>6
      <4>2. CASE sent[n]
        BY <4>1, <4>2
      <4>3. CASE LastDrop((n - Period) + 1)
        <5>1. i \in (((n - Period) + 1) + 1)..n
          BY <2>6, <3>3, PeriodAssumption
        <5>. QED
          BY <2>1, <3>3, <4>3, <5>1 DEF LastDrop
      <4>. QED
        BY <2>1, <2>3, <2>7, <4>1, <4>2, <4>3 DEF DropInv
    <3>. QED
      BY <2>1, <2>2, <2>3, <2>5, <2>7, <3>2, <3>3, DropKeeps
  <2>8. CASE w # "drop"
    <3>1. PICK p : p = (n - loop_count) + 1
      OBVIOUS
    <3>2. LastDrop(p) /\ p \in 1..n /\ p \in ((n - Period) + 2)..n
      <4>1. LastDrop(p)
        BY <2>1, <2>3, <2>8, <3>1 DEF DropInv
      <4>2. p \in 1..n
        BY <2>1, <4>1 DEF LastDrop
      <4>. QED
        BY <2>3, <2>6, <3>1, <4>1, <4>2, PeriodAssumption
    <3>3. LastDrop(p)'
      <4>1. p \in 1..Len(sent') /\ DroppedAt(p)'
        BY <2>6, <3>2 DEF LastDrop
      <4>2. ASSUME NEW k \in (p + 1)..Len(sent') PROVE ~sent'[k] /\ ~DroppedAt(k)'
        <5>1. k = n + 1 \/ k \in (p + 1)..n
          BY <2>6, <3>2
        <5>2. k \in (p + 1)..n => k \in 1..n /\ ~sent[k] /\ ~DroppedAt(k)
          BY <2>1, <2>6, <3>2 DEF LastDrop
        <5>. QED
          BY <2>6, <2>8, <5>1, <5>2
      <4>. QED
        BY <4>1, <4>2 DEF LastDrop
    <3>4. /\ loop_count' # 0 => LastDrop((Len(sent) - loop_count) + 1)'
          /\ loop_count' = 0 => LastDrop((Len(sent) - Period) + 1)'
      <4>1. loop_count' # 0 => (Len(sent') - loop_count') + 1 = p
        BY <2>3, <2>4, <2>6, <3>1
      <4>2. loop_count' = 0 => (Len(sent') - Period) + 1 = p
        BY <2>3, <2>4, <2>6, <3>1, PeriodAssumption
      <4>. QED
        BY <3>3, <4>1, <4>2
    <3>5. \E k \in ((n - Period) + 2)..n : k >= 1 /\ DroppedAt(k)
      BY <3>2 DEF LastDrop
    <3>. QED
      BY <2>1, <2>2, <2>3, <2>5, <2>8, <3>4, <3>5, DropKeeps
  <2>. QED
    BY <2>7, <2>8
<1>. QED
  BY <1>1, <1>2, <1>3 DEF Lossy!Next, Lossy!sender_drop_enqueue_packet

(* sender_drop drops exactly one of any Period consecutive data packets    *)
(* and never a SYN or FIN, so that a dropped packet that is sent again     *)
(* within the period gets through.                                         *)
THEOREM OneInPeriodCorrect == Spec => []OneInPeriod
<1>1. Init => Lossy!Init
  BY DEF Init
<1>2. [Next]_vars => [Lossy!Next]_(Lossy!vars)
  BY DEF Next, vars, DupackStep, PairStep, SwapStep, RaceStep, DropStep, PathTransmit, PathDeliver,
         OffPath, drop_vars, Lossy!vars
<1>3. DropInv => OneInPeriod
  <2>. SUFFICES ASSUME DropInv
                PROVE  OneInPeriod
    OBVIOUS
  <2>1. ASSUME NEW id \in 1..Len(sent) PROVE id \in Lossy!Dropped <=> DroppedAt(id)
    <3>1. CASE id \in Lossy!Dropped
      <4>1. PICK i \in 1..Len(drop_given) : drop_given[i] = [id |-> id, v |-> "drop"]
        BY <3>1 DEF Lossy!Dropped
      <4>2. i = id
        BY <4>1 DEF DropInv
      <4>. QED
        BY <3>1, <4>1, <4>2 DEF DroppedAt
    <3>2. CASE DroppedAt(id)
      <4>1. drop_given[id] \in DropType /\ drop_given[id].id = id /\ id \in 1..Len(drop_given)
        BY ElementOfSeq DEF DropInv
      <4>2. drop_given[id] = [id |-> id, v |-> "drop"]
        BY <3>2, <4>1 DEF DropType, DroppedAt
      <4>. QED
        BY <3>2, <4>1, <4>2 DEF Lossy!Dropped
    <3>. QED
      BY <3>1, <3>2
  <2>2. \A id \in Lossy!Dropped : ~sent[id]
    BY <2>1 DEF DropInv, Lossy!Dropped
  <2>3. ASSUME NEW first \in 1..((Len(sent) - Period) + 1), NEW window,
               window = first..(first + (Period - 1)), \A id \in window : ~sent[id]
        PROVE  Lossy!Cardinality(window \cap Lossy!Dropped) = 1
    <3>1. PICK last : last = first + (Period - 1)
      OBVIOUS
    <3>2. /\ first \in Nat /\ last \in Period..Len(sent) /\ first = (last - Period) + 1
          /\ window = first..last /\ window \subseteq 1..Len(sent)
      <4>1. Len(sent) \in Nat
        BY LenProperties DEF DropInv
      <4>. QED
        BY <2>3, <3>1, <4>1, PeriodAssumption
    <3>3. PICK k \in window : DroppedAt(k)
      BY <2>3, <3>2 DEF DropInv
    <3>4. ASSUME NEW j \in window, DroppedAt(j) PROVE j = k
      <4>1. ASSUME NEW x \in window, NEW y \in window, x < y, DroppedAt(x), DroppedAt(y) PROVE FALSE
        <5>1. y < x + Period /\ x..y \subseteq window
          BY <3>1, <3>2, <4>1, PeriodAssumption
        <5>2. \E z \in x..y : sent[z]
          BY <3>2, <4>1, <5>1 DEF DropInv
        <5>. QED
          BY <2>3, <5>1, <5>2
      <4>2. ~(j < k) /\ ~(k < j)
        BY <3>3, <3>4, <4>1
      <4>. QED
        BY <3>2, <4>2
    <3>5. window \cap Lossy!Dropped = {k}
      BY <2>1, <3>2, <3>3, <3>4
    <3>. QED
      <4>1. Cardinality({k}) = 1
        BY FS_Singleton
      <4>2. Lossy!Cardinality({k}) = Cardinality({k})
        BY DEF Lossy!Cardinality, Cardinality
      <4>. QED
        BY <3>5, <4>1, <4>2
  <2>4. \A first \in 1..((Len(sent) - Period) + 1) :
          (\A id \in first..(first + (Period - 1)) : ~sent[id]) =>
            Lossy!Cardinality((first..(first + (Period - 1))) \cap Lossy!Dropped) = 1
    BY <2>3
  <2>. QED
    BY <2>2, <2>4, Zenon DEF OneInPeriod, Lossy!OneInPeriod
<1>. QED
  BY <1>1, <1>2, <1>3, DropInitInv, DropNextInv, PTL DEF Spec

-----------------------------------------------------------------------------
(* Exactly one verdict for each packet, from Settle alone.                 *)

(* ExactlyOnce of PacketBuffer, of n packets taken.                        *)
Once(g, left, n) ==
  LET settled == {g[i].id : i \in 1..Len(g)}
  IN  /\ left \cup settled = 1..n
      /\ left \cap settled = {}
      /\ \A i, j \in 1..Len(g) : g[i].id = g[j].id => i = j

(* A step that settles some of what was held and of what it takes itself   *)
(* settles nothing twice and forgets nothing.                              *)
LEMMA OnceSettles ==
  ASSUME NEW V, NEW g \in Seq(V), NEW h, NEW base, NEW kept, NEW left,
         NEW n \in Nat, NEW m \in Nat, n <= m,
         Once(g, kept, n), base = kept \cup (n + 1)..m, Settles(V, g, h, base, left)
  PROVE  Once(h, left, m)
<1>1. PICK old, new : old = {g[i].id : i \in 1..Len(g)} /\ new = {h[i].id : i \in (Len(g) + 1)..Len(h)}
  OBVIOUS
<1>2. /\ Len(g) \in Nat /\ Len(h) \in Nat /\ Len(g) <= Len(h)
      /\ \A i \in 1..Len(g) : h[i] = g[i]
      /\ \A i \in (Len(g) + 1)..Len(h) : h[i].id \in base
      /\ \A i, j \in (Len(g) + 1)..Len(h) : h[i].id = h[j].id => i = j
      /\ left = base \ new
  BY <1>1 DEF Settles
<1>3. /\ kept \cup old = 1..n /\ kept \cap old = {}
      /\ \A i, j \in 1..Len(g) : g[i].id = g[j].id => i = j
  BY <1>1 DEF Once
<1>4. new \subseteq base /\ base \cap old = {} /\ base \cup old = 1..m
  <2>1. new \subseteq base
    BY <1>1, <1>2
  <2>2. 1..m = 1..n \cup (n + 1)..m /\ 1..n \cap (n + 1)..m = {}
    OBVIOUS
  <2>. QED
    BY <1>3, <2>1, <2>2
<1>5. {h[i].id : i \in 1..Len(h)} = old \cup new
  <2>1. 1..Len(h) = 1..Len(g) \cup (Len(g) + 1)..Len(h)
    BY <1>2
  <2>. QED
    BY <1>1, <1>2, <2>1
<1>6. ASSUME NEW i \in 1..Len(h), NEW j \in 1..Len(h), h[i].id = h[j].id
      PROVE  i = j
  <2>1. ASSUME NEW k \in 1..Len(h)
        PROVE  \/ k \in 1..Len(g) /\ h[k].id = g[k].id /\ h[k].id \in old
               \/ k \in (Len(g) + 1)..Len(h) /\ h[k].id \in base
    <3>1. k \in 1..Len(g) \/ k \in (Len(g) + 1)..Len(h)
      BY <1>2
    <3>. QED
      BY <1>1, <1>2, <3>1
  <2>2. CASE i \in 1..Len(g) /\ j \in 1..Len(g)
    <3>1. g[i].id = g[j].id
      BY <1>2, <1>6, <2>2
    <3>. QED
      BY <1>3, <2>2, <3>1
  <2>3. CASE i \in (Len(g) + 1)..Len(h) /\ j \in (Len(g) + 1)..Len(h)
    BY <1>2, <1>6, <2>3
  <2>. QED
    BY <1>4, <1>6, <2>1, <2>2, <2>3
<1>. QED
  BY <1>2, <1>4, <1>5, <1>6 DEF Once

DupackOnce == ack_given \in Seq(AckVerdicts) /\ Len(acks) \in Nat /\ Dupack!Buffer!ExactlyOnce

PairOnce == pair_given \in Seq(Accepts) /\ Len(rx) \in Nat /\ Pair!Buffer!ExactlyOnce

(* dupack_drop gives each acknowledgement one verdict at most, and none is *)
(* lost to it: it has its verdict, is put aside, or was forgotten at a SYN. *)
THEOREM AcksExactlyOnce == Spec => []Dupack!Buffer!ExactlyOnce
<1>1. Dupack!Init => DupackOnce
  <2>. SUFFICES ASSUME Dupack!Init
                PROVE  DupackOnce
    OBVIOUS
  <2>1. acks = <<>> /\ ack_given = <<>> /\ dupack_count = 0 /\ ack_abandoned = {}
    BY DEF Dupack!Init
  <2>2. 1..Len(acks) = {} /\ 1..Len(ack_given) = {}
    BY <2>1
  <2>. QED
    BY <2>1, <2>2 DEF DupackOnce, Dupack!Buffer!ExactlyOnce, Dupack!Buffer!Settled, Dupack!Saved
<1>2. DupackOnce /\ [Dupack!Buffer!Next]_(Dupack!Buffer!bufferVars) => DupackOnce'
  <2>. SUFFICES ASSUME DupackOnce, [Dupack!Buffer!Next]_(Dupack!Buffer!bufferVars)
                PROVE  DupackOnce'
    OBVIOUS
  <2>. DEFINE Holds == Dupack!Saved \cup ack_abandoned
  <2>1. PICK kept, left, n, m : kept = Holds /\ left = Holds' /\ n = Len(acks) /\ m = Len(acks')
    OBVIOUS
  <2>2. ack_given \in Seq(AckVerdicts) /\ n \in Nat /\ Once(ack_given, kept, n)
    BY <2>1 DEF DupackOnce, Once, Dupack!Buffer!ExactlyOnce, Dupack!Buffer!Settled
  <2>3. ASSUME NEW base, Dupack!Buffer!Settle(base)
        PROVE  Settles(AckVerdicts, ack_given, ack_given', base, left)
    BY <2>1, <2>3 DEF Dupack!Buffer!Settle, Dupack!Buffer!Fresh, Settles, AckVerdicts
  <2>4. PICK base : /\ m \in Nat /\ n <= m /\ base = kept \cup (n + 1)..m
                    /\ Settles(AckVerdicts, ack_given, ack_given', base, left)
    <3>1. CASE Dupack!Buffer!Take
      <4>1. m = n + 1 /\ Settles(AckVerdicts, ack_given, ack_given', kept \cup {n + 1}, left)
        BY <2>1, <2>3, <3>1 DEF Dupack!Buffer!Take
      <4>2. m \in Nat /\ n <= m /\ kept \cup {n + 1} = kept \cup (n + 1)..m
        BY <2>2, <4>1
      <4>. QED
        BY <4>1, <4>2
    <3>2. CASE Dupack!Buffer!Expire
      <4>1. m = n /\ Settles(AckVerdicts, ack_given, ack_given', kept, left)
        BY <2>1, <2>3, <3>2 DEF Dupack!Buffer!Expire
      <4>2. m \in Nat /\ n <= m /\ kept = kept \cup (n + 1)..m
        BY <2>2, <4>1
      <4>. QED
        BY <4>1, <4>2
    <3>3. CASE UNCHANGED Dupack!Buffer!bufferVars
      <4>1. m = n /\ ack_given' = ack_given /\ left = kept
        BY <2>1, <3>3 DEF Dupack!Buffer!bufferVars
      <4>2. m \in Nat /\ n <= m /\ kept = kept \cup (n + 1)..m
        BY <2>2, <4>1
      <4>3. Settles(AckVerdicts, ack_given, ack_given, kept, kept)
        BY <2>2, SettlesNone
      <4>. QED
        BY <4>1, <4>2, <4>3
    <3>. QED
      BY <3>1, <3>2, <3>3 DEF Dupack!Buffer!Next
  <2>5. Once(ack_given', left, m)
    BY <2>2, <2>4, OnceSettles
  <2>6. ack_given' \in Seq(AckVerdicts) /\ Len(acks') \in Nat
    BY <2>1, <2>4 DEF Settles
  <2>7. Once(ack_given', Holds', Len(acks'))
    BY <2>1, <2>5
  <2>. QED
    BY <2>6, <2>7 DEF DupackOnce, Once, Dupack!Buffer!ExactlyOnce, Dupack!Buffer!Settled
<1>3. DupackOnce => Dupack!Buffer!ExactlyOnce
  BY DEF DupackOnce
<1>4. Spec => [][Dupack!Buffer!Next]_(Dupack!Buffer!bufferVars)
  BY AckBufferImplemented, PTL DEF AckBufferSpec, Dupack!AckBufferSpec, Dupack!Buffer!Spec
<1>5. Init => Dupack!Init
  BY DEF Init
<1>. QED
  BY <1>1, <1>2, <1>3, <1>4, <1>5, PTL DEF Spec

(* reorder_fedora gives each packet one verdict at most, and none is lost  *)
(* to it: it has its verdict, is put aside, or was forgotten at a SYN.     *)
THEOREM PairExactlyOnce == Spec => []Pair!Buffer!ExactlyOnce
<1>1. Pair!Init => PairOnce
  <2>. SUFFICES ASSUME Pair!Init
                PROVE  PairOnce
    OBVIOUS
  <2>1. rx = <<>> /\ pair_given = <<>> /\ ~has_reorder /\ pair_abandoned = {}
    BY DEF Pair!Init
  <2>2. 1..Len(rx) = {} /\ 1..Len(pair_given) = {}
    BY <2>1
  <2>. QED
    BY <2>1, <2>2 DEF PairOnce, Pair!Buffer!ExactlyOnce, Pair!Buffer!Settled, Pair!Saved
<1>2. PairOnce /\ [Pair!Buffer!Next]_(Pair!Buffer!bufferVars) => PairOnce'
  <2>. SUFFICES ASSUME PairOnce, [Pair!Buffer!Next]_(Pair!Buffer!bufferVars)
                PROVE  PairOnce'
    OBVIOUS
  <2>. DEFINE Holds == Pair!Saved \cup pair_abandoned
  <2>1. PICK kept, left, n, m : kept = Holds /\ left = Holds' /\ n = Len(rx) /\ m = Len(rx')
    OBVIOUS
  <2>2. pair_given \in Seq(Accepts) /\ n \in Nat /\ Once(pair_given, kept, n)
    BY <2>1 DEF PairOnce, Once, Pair!Buffer!ExactlyOnce, Pair!Buffer!Settled
  <2>3. ASSUME NEW base, Pair!Buffer!Settle(base)
        PROVE  Settles(Accepts, pair_given, pair_given', base, left)
    BY <2>1, <2>3 DEF Pair!Buffer!Settle, Pair!Buffer!Fresh, Settles, Accepts
  <2>4. PICK base : /\ m \in Nat /\ n <= m /\ base = kept \cup (n + 1)..m
                    /\ Settles(Accepts, pair_given, pair_given', base, left)
    <3>1. CASE Pair!Buffer!Take
      <4>1. m = n + 1 /\ Settles(Accepts, pair_given, pair_given', kept \cup {n + 1}, left)
        BY <2>1, <2>3, <3>1 DEF Pair!Buffer!Take
      <4>2. m \in Nat /\ n <= m /\ kept \cup {n + 1} = kept \cup (n + 1)..m
        BY <2>2, <4>1
      <4>. QED
        BY <4>1, <4>2
    <3>2. CASE Pair!Buffer!Expire
      <4>1. m = n /\ Settles(Accepts, pair_given, pair_given', kept, left)
        BY <2>1, <2>3, <3>2 DEF Pair!Buffer!Expire
      <4>2. m \in Nat /\ n <= m /\ kept = kept \cup (n + 1)..m
        BY <2>2, <4>1
      <4>. QED
        BY <4>1, <4>2
    <3>3. CASE UNCHANGED Pair!Buffer!bufferVars
      <4>1. m = n /\ pair_given' = pair_given /\ left = kept
        BY <2>1, <3>3 DEF Pair!Buffer!bufferVars
      <4>2. m \in Nat /\ n <= m /\ kept = kept \cup (n + 1)..m
        BY <2>2, <4>1
      <4>3. Settles(Accepts, pair_given, pair_given, kept, kept)
        BY <2>2, SettlesNone
      <4>. QED
        BY <4>1, <4>2, <4>3
    <3>. QED
      BY <3>1, <3>2, <3>3 DEF Pair!Buffer!Next
  <2>5. Once(pair_given', left, m)
    BY <2>2, <2>4, OnceSettles
  <2>6. pair_given' \in Seq(Accepts) /\ Len(rx') \in Nat
    BY <2>1, <2>4 DEF Settles
  <2>7. Once(pair_given', Holds', Len(rx'))
    BY <2>1, <2>5
  <2>. QED
    BY <2>6, <2>7 DEF PairOnce, Once, Pair!Buffer!ExactlyOnce, Pair!Buffer!Settled
<1>3. PairOnce => Pair!Buffer!ExactlyOnce
  BY DEF PairOnce
<1>4. Spec => [][Pair!Buffer!Next]_(Pair!Buffer!bufferVars)
  BY PairBufferImplemented, PTL DEF PairBufferSpec, Pair!PairBufferSpec, Pair!Buffer!Spec
<1>5. Init => Pair!Init
  BY DEF Init
<1>. QED
  BY <1>1, <1>2, <1>3, <1>4, <1>5, PTL DEF Spec

-----------------------------------------------------------------------------
(* Offsets in the sequence space.                                          *)
LEMMA OffsetAdvance ==
  ASSUME NEW r \in Nat, r > 0, NEW base \in 0..(r - 1), NEW a \in 0..(r - 1), NEW n \in Nat,
         ((a - base) % r) + n < r
  PROVE  (((a + n) % r) - base) % r = ((a - base) % r) + n /\ (a + n) % r \in 0..(r - 1)
<1>1. PICK x, y, m : x = (a - base) % r /\ y = (a + n) % r /\ m = -base
  OBVIOUS
<1>2. /\ x \in 0..(r - 1) /\ y \in 0..(r - 1) /\ m \in Int
      /\ a \in Int /\ base \in Int /\ a + n \in Int /\ a - base \in Int
  BY <1>1, Division
<1>3. (y + m) % r = ((a + n) + m) % r
  BY <1>1, <1>2, ReduceTerm
<1>4. (x + n) % r = ((a - base) + n) % r
  BY <1>1, <1>2, ReduceTerm
<1>5. y + m = y - base /\ (a + n) + m = (a - base) + n
  BY <1>1, <1>2
<1>6. (y - base) % r = (x + n) % r
  BY <1>3, <1>4, <1>5
<1>7. x + n \in 0..(r - 1)
  BY <1>1, <1>2
<1>8. (x + n) % r = x + n
  BY <1>7, SmallRemainder
<1> QED
  BY <1>1, <1>2, <1>6, <1>8

LEMMA OffsetSame ==
  ASSUME NEW r \in Nat, r > 0, NEW base \in 0..(r - 1), NEW a \in 0..(r - 1),
         NEW b \in 0..(r - 1), (a - base) % r = (b - base) % r
  PROVE  a = b
<1>1. PICK x, c, d : x = (a - base) % r /\ c = a - base /\ d = b - base
  OBVIOUS
<1>2. /\ c \in Int /\ d \in Int /\ base \in Int /\ c + base = a /\ d + base = b
      /\ x = c % r /\ x = d % r
  BY <1>1
<1>3. (x + base) % r = (c + base) % r /\ (x + base) % r = (d + base) % r
  BY <1>2, ReduceTerm
<1>4. a % r = b % r
  BY <1>2, <1>3
<1> QED
  BY <1>4, SmallRemainder

-----------------------------------------------------------------------------
(* reorder_fedora restores the order of neighbours.                        *)

Off(first, s) == (s - first) % SeqRange

IsData(p) == ~p.syn /\ p.len > 0

(* Where a packet starts and ends, counted from the start of the data.     *)
Starts(first, p) == IF p.syn THEN -1 ELSE Off(first, p.seq)

Ends(first, p) == IF p.syn THEN 0 ELSE Off(first, p.seq) + p.len

(* The packets with data are the segments of one stretch that starts where *)
(* a SYN says and is shorter than half of the sequence space.              *)
Segmented(first) ==
  /\ first \in 0..(SeqRange - 1)
  /\ \A p \in Packets : p.seq \in 0..(SeqRange - 1) /\ p.len \in Nat /\ p.syn \in BOOLEAN
  /\ \A p \in Packets : p.syn => (p.seq + 1) % SeqRange = first
  /\ \A p \in Packets : IsData(p) =>
       /\ Off(first, p.seq) + p.len < SeqRange \div 2
       /\ \/ p.seq = first
          \/ \E q \in Packets : IsData(q) /\ (q.seq + q.len) % SeqRange = p.seq
  /\ \A p, q \in Packets : IsData(p) /\ IsData(q) /\ p # q =>
       \/ Off(first, p.seq) + p.len <= Off(first, q.seq)
       \/ Off(first, q.seq) + q.len <= Off(first, p.seq)

EvenRange == SeqRange \in Nat /\ SeqRange > 0 /\ SeqRange % 2 = 0

(* What the arithmetic says of such packets.                               *)
LEMMA SegmentArithmetic ==
  ASSUME EvenRange, NEW first, Segmented(first)
  PROVE  /\ \A s \in 0..(SeqRange - 1) : Off(first, s) \in Nat
         /\ Off(first, first) = 0
         /\ \A s, t \in 0..(SeqRange - 1) : Off(first, s) = Off(first, t) => s = t
         /\ \A s, t \in 0..(SeqRange - 1) :
              Off(first, s) < SeqRange \div 2 /\ Off(first, t) < SeqRange \div 2
                => (Pair!Before(s, t) <=> Off(first, s) < Off(first, t))
         /\ \A s \in 0..(SeqRange - 1) : \A n \in Nat :
              Off(first, s) + n < SeqRange \div 2
                => /\ Off(first, (s + n) % SeqRange) = Off(first, s) + n
                   /\ (s + n) % SeqRange \in 0..(SeqRange - 1)
<1>1. PICK r : r = SeqRange
  OBVIOUS
<1>2. r \in Nat /\ r > 0 /\ r % 2 = 0 /\ first \in 0..(r - 1) /\ r \div 2 < r
  BY <1>1 DEF EvenRange, Segmented
<1>3. \A s \in 0..(r - 1) : (s - first) % r \in Nat
  BY <1>2, Division
<1>4. (first - first) % r = 0
  <2>1. first - first = 0 /\ 0 \in 0..(r - 1)
    BY <1>2
  <2> QED
    BY <1>2, <2>1, SmallRemainder
<1>5. \A s, t \in 0..(r - 1) : (s - first) % r = (t - first) % r => s = t
  BY <1>2, OffsetSame
<1>6. \A s, t \in 0..(r - 1) :
        (s - first) % r < r \div 2 /\ (t - first) % r < r \div 2
          => ((s - t) % r >= r \div 2 <=> (s - first) % r < (t - first) % r)
  BY <1>2, OffsetOrder
<1>7. ASSUME NEW s \in 0..(r - 1), NEW n \in Nat, ((s - first) % r) + n < r \div 2
      PROVE  (((s + n) % r) - first) % r = ((s - first) % r) + n /\ (s + n) % r \in 0..(r - 1)
  <2>1. PICK x : x = (s - first) % r
    OBVIOUS
  <2>2. x \in Nat /\ x + n < r \div 2 /\ r \div 2 \in Nat
    BY <1>2, <1>3, <1>7, <2>1
  <2>3. x + n < r
    BY <1>2, <2>2
  <2>4. ((s - first) % r) + n < r
    BY <2>1, <2>3
  <2> QED
    BY <1>2, <2>4, OffsetAdvance
<1> QED
  BY <1>1, <1>3, <1>4, <1>5, <1>6, <1>7 DEF Off, Pair!Before

LEMMA SegmentBounds ==
  ASSUME EvenRange, NEW first, Segmented(first), NEW p \in Packets
  PROVE  /\ p.seq \in 0..(SeqRange - 1) /\ p.len \in Nat /\ p.syn \in BOOLEAN
         /\ SeqRange \div 2 \in Nat /\ SeqRange \div 2 > 0
         /\ Starts(first, p) \in Int /\ Ends(first, p) \in Int
         /\ p.syn => Starts(first, p) = -1 /\ Ends(first, p) = 0
         /\ ~p.syn => Starts(first, p) = Off(first, p.seq) /\ Starts(first, p) >= 0
                      /\ Ends(first, p) = Starts(first, p) + p.len
         /\ IsData(p) => Starts(first, p) < Ends(first, p) /\ Ends(first, p) < SeqRange \div 2
<1>1. p.seq \in 0..(SeqRange - 1) /\ p.len \in Nat /\ p.syn \in BOOLEAN
  BY DEF Segmented
<1>2. SeqRange \div 2 \in Nat /\ SeqRange \div 2 > 0
  BY DEF EvenRange
<1>3. Off(first, p.seq) \in Nat
  BY <1>1, SegmentArithmetic
<1>4. p.syn => Starts(first, p) = -1 /\ Ends(first, p) = 0
  BY DEF Starts, Ends
<1>5. ~p.syn => Starts(first, p) = Off(first, p.seq) /\ Ends(first, p) = Off(first, p.seq) + p.len
  BY DEF Starts, Ends
<1>6. IsData(p) => ~p.syn /\ p.len > 0 /\ Off(first, p.seq) + p.len < SeqRange \div 2
  BY DEF Segmented, IsData
<1> QED
  BY <1>1, <1>2, <1>3, <1>4, <1>5, <1>6

(* Before, of packets and numbers near the data.                           *)
LEMMA SegmentBefore ==
  ASSUME EvenRange, NEW first, Segmented(first), NEW p \in Packets, IsData(p),
         NEW s \in 0..(SeqRange - 1), Off(first, s) < SeqRange \div 2
  PROVE  /\ Pair!Before(p.seq, s) <=> Starts(first, p) < Off(first, s)
         /\ p.seq = s <=> Starts(first, p) = Off(first, s)
<1>1. /\ p.seq \in 0..(SeqRange - 1) /\ Starts(first, p) = Off(first, p.seq)
      /\ Off(first, p.seq) < SeqRange \div 2
  BY SegmentBounds DEF IsData
<1> QED
  BY <1>1, SegmentArithmetic

LEMMA SegmentOrder ==
  ASSUME EvenRange, NEW first, Segmented(first), NEW p \in Packets, IsData(p),
         NEW q \in Packets, IsData(q)
  PROVE  /\ Pair!Before(p.seq, q.seq) <=> Starts(first, p) < Starts(first, q)
         /\ p.seq = q.seq <=> Starts(first, p) = Starts(first, q)
<1>1. /\ q.seq \in 0..(SeqRange - 1) /\ Starts(first, q) = Off(first, q.seq)
      /\ Off(first, q.seq) < SeqRange \div 2
  BY SegmentBounds DEF IsData
<1> QED
  BY <1>1, SegmentBefore

LEMMA SegmentEnd ==
  ASSUME EvenRange, NEW first, Segmented(first), NEW p \in Packets, IsData(p)
  PROVE  Pair!SeqEnd(p) \in 0..(SeqRange - 1) /\ Off(first, Pair!SeqEnd(p)) = Ends(first, p)
<1>1. /\ p.seq \in 0..(SeqRange - 1) /\ p.len \in Nat
      /\ Ends(first, p) = Off(first, p.seq) + p.len
      /\ Off(first, p.seq) + p.len < SeqRange \div 2
  BY SegmentBounds DEF IsData
<1> QED
  BY <1>1, SegmentArithmetic DEF Pair!SeqEnd

LEMMA SegmentsDisjoint ==
  ASSUME EvenRange, NEW first, Segmented(first), NEW p \in Packets, IsData(p),
         NEW q \in Packets, IsData(q), p # q
  PROVE  Ends(first, p) <= Starts(first, q) \/ Ends(first, q) <= Starts(first, p)
<1>1. \/ Off(first, p.seq) + p.len <= Off(first, q.seq)
      \/ Off(first, q.seq) + q.len <= Off(first, p.seq)
  BY DEF Segmented
<1> QED
  BY <1>1, SegmentBounds DEF IsData

LEMMA SegmentBehind ==
  ASSUME EvenRange, NEW first, Segmented(first), NEW p \in Packets, IsData(p),
         Starts(first, p) > 0
  PROVE  \E q \in Packets : IsData(q) /\ Ends(first, q) = Starts(first, p)
<1>1. Starts(first, p) = Off(first, p.seq) /\ Off(first, first) = 0
  BY SegmentBounds, SegmentArithmetic DEF IsData
<1>2. PICK q \in Packets : IsData(q) /\ (q.seq + q.len) % SeqRange = p.seq
  BY <1>1 DEF Segmented
<1>3. Off(first, Pair!SeqEnd(q)) = Ends(first, q) /\ Pair!SeqEnd(q) = p.seq
  BY <1>2, SegmentEnd DEF Pair!SeqEnd
<1> QED
  BY <1>1, <1>2, <1>3

(* A SYN is before all data.                                               *)
LEMMA SynFirst ==
  ASSUME EvenRange, NEW first, Segmented(first), NEW p \in Packets, p.syn,
         NEW q \in Packets, IsData(q)
  PROVE  ~Pair!Before(q.seq, p.seq)
<1>1. PICK r, s, t, o : r = SeqRange /\ s = p.seq /\ t = q.seq /\ o = Off(first, t)
  OBVIOUS
<1>2. /\ r \in Nat /\ r > 0 /\ s \in 0..(r - 1) /\ t \in 0..(r - 1) /\ o \in Nat
      /\ o + 1 < r \div 2 /\ r \div 2 < r /\ first \in 0..(r - 1)
  <2>1. s \in 0..(r - 1) /\ t \in 0..(r - 1) /\ first \in 0..(r - 1) /\ r \in Nat /\ r > 0
    BY <1>1 DEF Segmented, EvenRange
  <2>2. q.len \in Nat /\ q.len > 0 /\ o + q.len < r \div 2 /\ o \in Nat
    BY <1>1, SegmentBounds DEF IsData
  <2> QED
    BY <2>1, <2>2
<1>3. first = (s + 1) % r
  BY <1>1 DEF Segmented
<1>4. (first + o) % r \in 0..(r - 1) /\ Off(first, (first + o) % r) = o
  <2>1. Off(first, first) = 0 /\ first \in 0..(SeqRange - 1) /\ o \in Nat
    BY <1>1, <1>2, SegmentArithmetic
  <2>2. Off(first, first) + o < SeqRange \div 2
    BY <1>1, <1>2, <2>1
  <2>3. /\ Off(first, (first + o) % SeqRange) = Off(first, first) + o
        /\ (first + o) % SeqRange \in 0..(SeqRange - 1)
    BY <2>1, <2>2, SegmentArithmetic
  <2> QED
    BY <1>1, <2>1, <2>3
<1>5. t = (first + o) % r
  BY <1>1, <1>2, <1>4, SegmentArithmetic
<1>6. t = (s + (o + 1)) % r
  <2>1. (((s + 1) % r) + o) % r = ((s + 1) + o) % r
    BY <1>2, ReduceTerm
  <2>2. (s + 1) + o = s + (o + 1)
    BY <1>2
  <2> QED
    BY <1>3, <1>5, <2>1, <2>2
<1>7. (t - s) % r = o + 1
  <2>1. (s - s) % r = 0
    <3>1. s - s = 0 /\ 0 \in 0..(r - 1)
      BY <1>2
    <3> QED
      BY <1>2, <3>1, SmallRemainder
  <2>2. ((s - s) % r) + (o + 1) < r /\ o + 1 \in Nat
    BY <1>2, <2>1
  <2>3. (((s + (o + 1)) % r) - s) % r = ((s - s) % r) + (o + 1)
    BY <1>2, <2>2, OffsetAdvance
  <2> QED
    BY <1>2, <1>6, <2>1, <2>3
<1> QED
  BY <1>1, <1>2, <1>7 DEF Pair!Before

(* OneConnection, and no packet displaced, of a sequence of packets; new   *)
(* data has come after r.                                                  *)
Missing(r, p) == \A n \in 1..Len(r) : r[n] # p

Overtaken(first, r, p) ==
  \E j, k \in 2..Len(r) :
    j # k /\ Starts(first, p) < Starts(first, r[j]) /\ Starts(first, p) < Starts(first, r[k])

TwoSkipped(first, r, p) ==
  \E x, y \in Packets :
    /\ IsData(x) /\ IsData(y) /\ Missing(r, x) /\ Missing(r, y)
    /\ Starts(first, x) # Starts(first, y)
    /\ Starts(first, x) < Starts(first, p) /\ Starts(first, y) < Starts(first, p)

Undisturbed(first, r) ==
  /\ Len(r) > 0 /\ r[1].syn
  /\ \A i \in 2..Len(r) :
       LET past == SubSeq(r, 1, i - 1) IN
       /\ IsData(r[i]) /\ Missing(past, r[i])
       /\ ~Overtaken(first, past, r[i])
       /\ ~TwoSkipped(first, Append(past, r[i]), r[i])

LEMMA UndisturbedIs ==
  ASSUME EvenRange, NEW first, Segmented(first), rx \in Seq(Packets),
         Pair!OneConnection, \A i \in 2..Len(rx) : ~Pair!Displaced(i)
  PROVE  Undisturbed(first, rx)
<1>1. Len(rx) \in Nat /\ Len(rx) > 0 /\ rx[1].syn /\ rx \in Seq(Packets)
  BY LenProperties DEF Pair!OneConnection
<1>2. \A n \in 1..Len(rx) : rx[n] \in Packets
  BY ElementOfSeq
<1>3. \A n \in 2..Len(rx) : rx[n] \in Packets /\ IsData(rx[n])
  BY <1>1, <1>2 DEF Pair!OneConnection, IsData
<1>4. ASSUME NEW i \in 2..Len(rx), NEW past, past = SubSeq(rx, 1, i - 1)
      PROVE  /\ IsData(rx[i]) /\ Missing(past, rx[i])
             /\ ~Overtaken(first, past, rx[i])
             /\ ~TwoSkipped(first, Append(past, rx[i]), rx[i])
  <2>1. /\ past \in Seq(Packets) /\ Len(past) = i - 1 /\ \A n \in 1..(i - 1) : past[n] = rx[n]
        /\ i \in Int /\ i >= 2 /\ i <= Len(rx)
    <3>1. i - 1 \in 1..Len(rx) /\ i \in Int /\ i >= 2 /\ i <= Len(rx)
      BY <1>1
    <3> QED
      BY <1>1, <1>4, <3>1, SubSeqProperties
  <2>2. rx[i] \in Packets /\ IsData(rx[i])
    BY <1>3
  <2>3. Missing(past, rx[i])
    <3>1. ASSUME NEW n \in 1..(i - 1), rx[n] = rx[i] PROVE FALSE
      <4>1. n # 1
        BY <1>1, <2>2, <3>1 DEF IsData
      <4>2. n \in 2..Len(rx) /\ n # i /\ n \in 1..(i - 1)
        BY <1>1, <2>1, <4>1
      <4> QED
        BY <3>1, <4>2 DEF Pair!OneConnection
    <3> QED
      BY <2>1, <3>1 DEF Missing
  <2>4. ~Overtaken(first, past, rx[i])
    <3>1. SUFFICES ASSUME NEW j \in 2..(i - 1), NEW k \in 2..(i - 1), j # k,
                          Starts(first, rx[i]) < Starts(first, rx[j]),
                          Starts(first, rx[i]) < Starts(first, rx[k])
                   PROVE  FALSE
      <4>1. \A n \in 2..(i - 1) : n \in 1..(i - 1)
        BY <2>1
      <4> QED
        BY <2>1, <4>1 DEF Overtaken
    <3>2. rx[j] \in Packets /\ IsData(rx[j]) /\ rx[k] \in Packets /\ IsData(rx[k])
      BY <1>1, <1>3, <2>1
    <3>3. Pair!Before(rx[i].seq, rx[j].seq) /\ Pair!Before(rx[i].seq, rx[k].seq)
      BY <2>2, <3>1, <3>2, SegmentOrder
    <3> QED
      BY <3>1, <3>3 DEF Pair!Displaced
  <2>5. ~TwoSkipped(first, Append(past, rx[i]), rx[i])
    <3>1. SUFFICES ASSUME NEW x \in Packets, NEW y \in Packets, IsData(x), IsData(y),
                          Missing(Append(past, rx[i]), x), Missing(Append(past, rx[i]), y),
                          Starts(first, x) # Starts(first, y),
                          Starts(first, x) < Starts(first, rx[i]),
                          Starts(first, y) < Starts(first, rx[i])
                   PROVE  FALSE
      BY DEF TwoSkipped
    <3>2. /\ Len(Append(past, rx[i])) = i
          /\ \A n \in 1..i : Append(past, rx[i])[n] = rx[n]
      BY <2>1, <2>2, AppendProperties
    <3>3. x \notin {rx[n] : n \in 1..i} /\ y \notin {rx[n] : n \in 1..i}
      BY <3>1, <3>2 DEF Missing
    <3>4. /\ Pair!Before(x.seq, rx[i].seq) /\ Pair!Before(y.seq, rx[i].seq) /\ x.seq # y.seq
      BY <2>2, <3>1, SegmentOrder
    <3>5. x.len > 0 /\ y.len > 0
      BY <3>1 DEF IsData
    <3> QED
      BY <3>1, <3>3, <3>4, <3>5 DEF Pair!Displaced
  <2> QED
    BY <2>2, <2>3, <2>4, <2>5
<1>5. \A i \in 2..Len(rx) :
        LET past == SubSeq(rx, 1, i - 1) IN
        /\ IsData(rx[i]) /\ Missing(past, rx[i])
        /\ ~Overtaken(first, past, rx[i])
        /\ ~TwoSkipped(first, Append(past, rx[i]), rx[i])
  BY <1>4, Zenon
<1> QED
  BY <1>1, <1>5 DEF Undisturbed

LEMMA UndisturbedBefore ==
  ASSUME NEW first, NEW r \in Seq(Packets), NEW p \in Packets, Len(r) > 0,
         Undisturbed(first, Append(r, p))
  PROVE  /\ Undisturbed(first, r)
         /\ IsData(p) /\ Missing(r, p) /\ ~Overtaken(first, r, p)
         /\ ~TwoSkipped(first, Append(r, p), p)
         /\ \A i \in 2..Len(r) : IsData(r[i])
         /\ Len(r) >= 2 => ~TwoSkipped(first, r, r[Len(r)])
<1>1. PICK n, s : n = Len(r) /\ s = Append(r, p)
  OBVIOUS
<1>2. /\ n \in Nat /\ n > 0 /\ s \in Seq(Packets) /\ Len(s) = n + 1 /\ s[n + 1] = p
      /\ \A i \in 1..n : s[i] = r[i]
  BY <1>1, AppendProperties
<1>3. ASSUME NEW i \in 2..n PROVE SubSeq(s, 1, i - 1) = SubSeq(r, 1, i - 1)
  <2>1. i - 1 \in 1..n /\ i \in Int /\ i - 1 \in 1..Len(s)
    BY <1>2
  <2>2. /\ SubSeq(s, 1, i - 1) \in Seq(Packets) /\ Len(SubSeq(s, 1, i - 1)) = i - 1
        /\ \A m \in 1..(i - 1) : SubSeq(s, 1, i - 1)[m] = s[m]
    BY <1>2, <2>1, SubSeqProperties
  <2>3. /\ SubSeq(r, 1, i - 1) \in Seq(Packets) /\ Len(SubSeq(r, 1, i - 1)) = i - 1
        /\ \A m \in 1..(i - 1) : SubSeq(r, 1, i - 1)[m] = r[m]
    BY <1>1, <1>2, <2>1, SubSeqProperties
  <2>4. \A m \in 1..(i - 1) : s[m] = r[m]
    BY <1>2, <2>1
  <2> QED
    BY <2>2, <2>3, <2>4, SeqEqual
<1>4. SubSeq(s, 1, (n + 1) - 1) = r
  <2>1. (n + 1) - 1 = n /\ n \in 1..Len(s)
    BY <1>2
  <2>2. /\ SubSeq(s, 1, n) \in Seq(Packets) /\ Len(SubSeq(s, 1, n)) = n
        /\ \A m \in 1..n : SubSeq(s, 1, n)[m] = s[m]
    BY <1>2, <2>1, SubSeqProperties
  <2>3. SubSeq(s, 1, n) = r
    BY <1>1, <1>2, <2>2, SeqEqual
  <2> QED
    BY <2>1, <2>3
<1>5. s[1].syn /\ r[1].syn
  BY <1>1, <1>2 DEF Undisturbed
<1>6. n + 1 \in 2..Len(s) /\ s[n + 1] = p
  BY <1>2
<1>7. IsData(p) /\ Missing(r, p) /\ ~Overtaken(first, r, p) /\ ~TwoSkipped(first, Append(r, p), p)
  BY <1>1, <1>4, <1>6 DEF Undisturbed
<1>8. ASSUME NEW i \in 2..n
      PROVE  /\ IsData(r[i]) /\ Missing(SubSeq(r, 1, i - 1), r[i])
             /\ ~Overtaken(first, SubSeq(r, 1, i - 1), r[i])
             /\ ~TwoSkipped(first, Append(SubSeq(r, 1, i - 1), r[i]), r[i])
  <2>1. i \in 2..Len(s) /\ s[i] = r[i]
    BY <1>2
  <2> QED
    BY <1>1, <1>3, <2>1 DEF Undisturbed
<1>9. Undisturbed(first, r)
  BY <1>1, <1>2, <1>5, <1>8, Zenon DEF Undisturbed
<1>10. n >= 2 => ~TwoSkipped(first, r, r[n])
  <2>1. SUFFICES ASSUME n >= 2 PROVE ~TwoSkipped(first, r, r[n])
    OBVIOUS
  <2>2. n \in 2..n /\ n - 1 \in 1..n
    BY <1>2, <2>1
  <2>3. Append(SubSeq(r, 1, n - 1), r[n]) = r
    <3>1. /\ SubSeq(r, 1, n - 1) \in Seq(Packets) /\ Len(SubSeq(r, 1, n - 1)) = n - 1
          /\ \A m \in 1..(n - 1) : SubSeq(r, 1, n - 1)[m] = r[m]
      BY <1>1, <1>2, <2>2, SubSeqProperties
    <3>2. PICK h : h = SubSeq(r, 1, n - 1)
      OBVIOUS
    <3>3. r[n] \in Packets
      BY <1>1, <2>2, ElementOfSeq
    <3>4. /\ Append(h, r[n]) \in Seq(Packets) /\ Len(Append(h, r[n])) = n
          /\ \A m \in 1..n : Append(h, r[n])[m] = r[m]
      BY <1>2, <3>1, <3>2, <3>3, AppendProperties
    <3> QED
      BY <1>1, <3>2, <3>4, SeqEqual
  <2> QED
    BY <1>8, <2>2, <2>3
<1> QED
  BY <1>1, <1>7, <1>8, <1>9, <1>10

(* What has been reinjected is in order and ends before e; so does all of  *)
(* what has arrived, the n-th packet apart; data from before e that has    *)
(* not arrived has been overtaken by two packets already.                  *)
GivenInOrder(first, r, g, e) ==
  /\ \A i \in 1..Len(g) : /\ g[i].id \in 1..Len(r)
                          /\ Starts(first, r[g[i].id]) < e /\ Ends(first, r[g[i].id]) <= e
  /\ \A i, j \in 1..Len(g) : i < j => Starts(first, r[g[i].id]) < Starts(first, r[g[j].id])

Behind(first, r, e, n) == \A m \in 1..Len(r) : m # n => Ends(first, r[m]) <= e

LeftBehind(first, r, e) ==
  \A p \in Packets : IsData(p) /\ Missing(r, p) /\ Starts(first, p) < e => Overtaken(first, r, p)

(* The packet put aside is the last that has arrived, and data from before *)
(* it is missing.                                                          *)
Ahead(first, r, e, n) ==
  /\ n = Len(r) /\ n >= 2 /\ Starts(first, r[n]) > e
  /\ \E q \in Packets : IsData(q) /\ Missing(r, q) /\ Starts(first, q) < Starts(first, r[n])

InOrder(first, r, g, e, h, n) ==
  /\ GivenInOrder(first, r, g, e)
  /\ Behind(first, r, e, IF h THEN n ELSE 0)
  /\ LeftBehind(first, r, e)
  /\ h => Ahead(first, r, e, n)

LEMMA MissingLater ==
  ASSUME NEW r \in Seq(Packets), NEW p \in Packets, NEW x
  PROVE  Missing(Append(r, p), x) <=> Missing(r, x) /\ p # x
<1>1. /\ Len(Append(r, p)) = Len(r) + 1 /\ Len(r) \in Nat /\ Append(r, p)[Len(r) + 1] = p
      /\ \A i \in 1..Len(r) : Append(r, p)[i] = r[i]
  BY AppendProperties
<1>2. \A i \in 1..(Len(r) + 1) : i \in 1..Len(r) \/ i = Len(r) + 1
  BY <1>1
<1>3. Len(r) + 1 \in 1..(Len(r) + 1) /\ \A i \in 1..Len(r) : i \in 1..(Len(r) + 1)
  BY <1>1
<1> QED
  BY <1>1, <1>2, <1>3 DEF Missing

LEMMA OvertakenLater ==
  ASSUME NEW first, NEW r \in Seq(Packets), NEW p \in Packets, NEW x, Overtaken(first, r, x)
  PROVE  Overtaken(first, Append(r, p), x)
<1>1. /\ Len(Append(r, p)) = Len(r) + 1 /\ Len(r) \in Nat
      /\ \A i \in 1..Len(r) : Append(r, p)[i] = r[i]
  BY AppendProperties
<1>2. \A i \in 2..Len(r) : i \in 2..(Len(r) + 1) /\ i \in 1..Len(r)
  BY <1>1
<1> QED
  BY <1>1, <1>2 DEF Overtaken

(* One packet more is reinjected.                                          *)
LEMMA GivenOneMore ==
  ASSUME NEW first, NEW r, NEW g \in Seq(Accepts), NEW e \in Int, GivenInOrder(first, r, g, e),
         NEW x \in Accepts, x.id \in 1..Len(r), NEW d \in Int, e <= d,
         \A n \in 1..Len(r) : Starts(first, r[n]) \in Int /\ Ends(first, r[n]) \in Int,
         Starts(first, r[x.id]) >= e, Starts(first, r[x.id]) < d, Ends(first, r[x.id]) <= d
  PROVE  GivenInOrder(first, r, Append(g, x), d)
<1>1. PICK k, w : k = Len(g) /\ w = Append(g, x)
  OBVIOUS
<1>2. k \in Nat /\ Len(w) = k + 1 /\ w[k + 1] = x /\ \A i \in 1..k : w[i] = g[i]
  BY <1>1, AppendProperties
<1>3. \A i \in 1..(k + 1) : i \in 1..k \/ i = k + 1
  BY <1>2
<1>4. ASSUME NEW i \in 1..k
      PROVE  /\ w[i].id \in 1..Len(r) /\ Starts(first, r[w[i].id]) < e
             /\ Ends(first, r[w[i].id]) <= e
             /\ Starts(first, r[w[i].id]) \in Int /\ Ends(first, r[w[i].id]) \in Int
  BY <1>1, <1>2 DEF GivenInOrder
<1>5. ASSUME NEW i \in 1..(k + 1)
      PROVE  /\ w[i].id \in 1..Len(r) /\ Starts(first, r[w[i].id]) < d
             /\ Ends(first, r[w[i].id]) <= d
  <2>1. CASE i \in 1..k
    <3>1. PICK a, b : a = Starts(first, r[w[i].id]) /\ b = Ends(first, r[w[i].id])
      OBVIOUS
    <3>2. a \in Int /\ b \in Int /\ a < e /\ b <= e /\ w[i].id \in 1..Len(r)
      BY <1>4, <2>1, <3>1
    <3>3. a < d /\ b <= d
      BY <3>2
    <3> QED
      BY <3>1, <3>2, <3>3
  <2>2. CASE i = k + 1
    BY <1>2, <2>2
  <2> QED
    BY <1>3, <2>1, <2>2
<1>6. ASSUME NEW i \in 1..(k + 1), NEW j \in 1..(k + 1), i < j
      PROVE  Starts(first, r[w[i].id]) < Starts(first, r[w[j].id])
  <2>1. i \in 1..k
    BY <1>2, <1>6
  <2>2. CASE j \in 1..k
    BY <1>1, <1>2, <1>6, <2>1, <2>2 DEF GivenInOrder
  <2>3. CASE j = k + 1
    <3>1. PICK a, b : a = Starts(first, r[w[i].id]) /\ b = Starts(first, r[w[j].id])
      OBVIOUS
    <3>2. a \in Int /\ a < e /\ b \in Int /\ b >= e
      BY <1>2, <1>4, <2>1, <2>3, <3>1
    <3> QED
      BY <3>1, <3>2
  <2> QED
    BY <1>3, <2>2, <2>3
<1> QED
  BY <1>1, <1>2, <1>5, <1>6, Zenon DEF GivenInOrder

LEMMA GivenLater ==
  ASSUME NEW first, NEW r \in Seq(Packets), NEW p \in Packets, NEW g \in Seq(Accepts), NEW e,
         GivenInOrder(first, r, g, e)
  PROVE  GivenInOrder(first, Append(r, p), g, e)
<1>1. /\ Len(Append(r, p)) = Len(r) + 1 /\ Len(r) \in Nat
      /\ \A i \in 1..Len(r) : Append(r, p)[i] = r[i] /\ i \in 1..(Len(r) + 1)
  BY AppendProperties
<1> QED
  BY <1>1 DEF GivenInOrder

LEMMA BehindLater ==
  ASSUME NEW first, NEW r \in Seq(Packets), NEW p \in Packets, NEW e \in Int, NEW n,
         Behind(first, r, e, n), NEW d \in Int, e <= d,
         NEW m, m # Len(r) + 1 => Ends(first, p) <= d,
         n \in 1..Len(r) => n = m \/ Ends(first, r[n]) <= d,
         \A i \in 1..Len(r) : Ends(first, r[i]) \in Int
  PROVE  Behind(first, Append(r, p), d, m)
<1>1. PICK w, k : w = Append(r, p) /\ k = Len(r)
  OBVIOUS
<1>2. /\ Len(w) = k + 1 /\ k \in Nat /\ w[k + 1] = p /\ \A i \in 1..k : w[i] = r[i]
  BY <1>1, AppendProperties
<1>3. ASSUME NEW i \in 1..(k + 1), i # m PROVE Ends(first, w[i]) <= d
  <2>1. i \in 1..k \/ i = k + 1
    BY <1>2
  <2>2. CASE i = k + 1
    BY <1>1, <1>2, <1>3, <2>2
  <2>3. CASE i \in 1..k /\ i = n
    BY <1>1, <1>2, <1>3, <2>3
  <2>4. CASE i \in 1..k /\ i # n
    <3>1. PICK a : a = Ends(first, r[i])
      OBVIOUS
    <3>2. a \in Int /\ a <= e
      BY <1>1, <2>4, <3>1 DEF Behind
    <3>3. a <= d
      BY <3>2
    <3> QED
      BY <1>2, <2>4, <3>1, <3>3
  <2> QED
    BY <2>1, <2>2, <2>3, <2>4
<1> QED
  BY <1>1, <1>2, <1>3 DEF Behind

(* The steps of the handler, on such sequences.                            *)
LEMMA ArrivedBounds ==
  ASSUME EvenRange, NEW first, Segmented(first), NEW r \in Seq(Packets)
  PROVE  \A n \in 1..Len(r) : /\ r[n] \in Packets
                              /\ Starts(first, r[n]) \in Int /\ Ends(first, r[n]) \in Int
<1>1. \A n \in 1..Len(r) : r[n] \in Packets
  BY ElementOfSeq
<1> QED
  BY <1>1, SegmentBounds

LEMMA InOrderSyn ==
  ASSUME EvenRange, NEW first, Segmented(first), NEW p \in Packets, p.syn,
         NEW x \in Accepts, x.id = 1, NEW n
  PROVE  InOrder(first, Append(<<>>, p), Append(<<>>, x), 0, FALSE, n)
<1>1. PICK r, g : r = Append(<<>>, p) /\ g = Append(<<>>, x)
  OBVIOUS
<1>2. Len(r) = 1 /\ r[1] = p /\ Len(g) = 1 /\ g[1] = x
  BY <1>1
<1>3. Starts(first, p) = -1 /\ Ends(first, p) = 0
  BY SegmentBounds
<1>4. GivenInOrder(first, r, g, 0)
  <2>1. \A i \in 1..1 : i = 1
    OBVIOUS
  <2> QED
    BY <1>2, <1>3, <2>1 DEF GivenInOrder
<1>5. Behind(first, r, 0, 0)
  <2>1. \A i \in 1..1 : i = 1
    OBVIOUS
  <2> QED
    BY <1>2, <1>3, <2>1 DEF Behind
<1>6. LeftBehind(first, r, 0)
  <2>1. ASSUME NEW q \in Packets, IsData(q) PROVE Starts(first, q) >= 0 /\ Starts(first, q) \in Int
    BY <2>1, SegmentBounds DEF IsData
  <2> QED
    BY <2>1 DEF LeftBehind
<1> QED
  BY <1>1, <1>4, <1>5, <1>6 DEF InOrder

LEMMA InOrderNext ==
  ASSUME EvenRange, NEW first, Segmented(first), NEW r \in Seq(Packets), NEW g \in Seq(Accepts),
         NEW e \in Int, NEW n, InOrder(first, r, g, e, FALSE, n),
         NEW p \in Packets, IsData(p), Starts(first, p) = e,
         NEW x \in Accepts, x.id = Len(r) + 1, NEW m
  PROVE  InOrder(first, Append(r, p), Append(g, x), Ends(first, p), FALSE, m)
<1>1. PICK w, d : w = Append(r, p) /\ d = Ends(first, p)
  OBVIOUS
<1>2. w \in Seq(Packets) /\ Len(w) = Len(r) + 1 /\ Len(r) \in Nat /\ w[Len(r) + 1] = p
  BY <1>1, AppendProperties
<1>3. d \in Int /\ e < d
  BY <1>1, SegmentBounds
<1>4. GivenInOrder(first, r, g, e) /\ Behind(first, r, e, 0) /\ LeftBehind(first, r, e)
  BY DEF InOrder
<1>5. GivenInOrder(first, w, Append(g, x), d)
  <2>1. GivenInOrder(first, w, g, e)
    BY <1>1, <1>4, GivenLater
  <2>2. x.id \in 1..Len(w) /\ w[x.id] = p
    BY <1>2
  <2>3. \A i \in 1..Len(w) : Starts(first, w[i]) \in Int /\ Ends(first, w[i]) \in Int
    BY <1>2, ArrivedBounds
  <2>4. /\ Starts(first, w[x.id]) >= e /\ Starts(first, w[x.id]) < d
        /\ Ends(first, w[x.id]) <= d /\ e <= d
    BY <1>1, <1>3, <2>2
  <2> QED
    BY <1>3, <2>1, <2>2, <2>3, <2>4, GivenOneMore
<1>6. Behind(first, w, d, 0)
  <2>1. 0 \notin 1..Len(r) /\ Ends(first, p) <= d /\ e <= d
    BY <1>1, <1>3
  <2>2. \A i \in 1..Len(r) : Ends(first, r[i]) \in Int
    BY ArrivedBounds
  <2> QED
    BY <1>1, <1>3, <1>4, <2>1, <2>2, BehindLater
<1>7. LeftBehind(first, w, d)
  <2>1. SUFFICES ASSUME NEW q \in Packets, IsData(q), Missing(w, q), Starts(first, q) < d
                 PROVE  Overtaken(first, w, q)
    BY DEF LeftBehind
  <2>2. Missing(r, q) /\ p # q
    BY <1>1, <2>1, MissingLater
  <2>3. Ends(first, p) <= Starts(first, q) \/ Ends(first, q) <= Starts(first, p)
    BY <2>1, <2>2, SegmentsDisjoint
  <2>4. Starts(first, q) < e
    <3>1. PICK a, b : a = Starts(first, q) /\ b = Ends(first, q)
      OBVIOUS
    <3>2. a \in Int /\ b \in Int /\ a < b /\ a < d /\ (d <= a \/ b <= e)
      BY <1>1, <2>1, <2>3, <3>1, SegmentBounds
    <3>3. a < e
      BY <1>3, <3>2
    <3> QED
      BY <3>1, <3>3
  <2>5. Overtaken(first, r, q)
    BY <1>4, <2>1, <2>2, <2>4 DEF LeftBehind
  <2> QED
    BY <1>1, <2>5, OvertakenLater
<1> QED
  BY <1>1, <1>5, <1>6, <1>7 DEF InOrder

LEMMA InOrderSave ==
  ASSUME EvenRange, NEW first, Segmented(first), NEW r \in Seq(Packets), NEW g \in Seq(Accepts),
         NEW e \in Nat, NEW n, InOrder(first, r, g, e, FALSE, n), Len(r) > 0,
         NEW p \in Packets, IsData(p), Starts(first, p) > e
  PROVE  InOrder(first, Append(r, p), g, e, TRUE, Len(r) + 1)
<1>1. PICK w, k : w = Append(r, p) /\ k = Len(r)
  OBVIOUS
<1>2. w \in Seq(Packets) /\ Len(w) = k + 1 /\ k \in Nat /\ k > 0 /\ w[k + 1] = p
  BY <1>1, AppendProperties
<1>4. GivenInOrder(first, r, g, e) /\ Behind(first, r, e, 0) /\ LeftBehind(first, r, e)
  BY DEF InOrder
<1>5. GivenInOrder(first, w, g, e)
  BY <1>1, <1>4, GivenLater
<1>6. Behind(first, w, e, k + 1)
  <2>1. 0 \notin 1..Len(r) /\ e <= e /\ e \in Int
    OBVIOUS
  <2>2. \A i \in 1..Len(r) : Ends(first, r[i]) \in Int
    BY ArrivedBounds
  <2> QED
    BY <1>1, <1>4, <2>1, <2>2, BehindLater
<1>7. LeftBehind(first, w, e)
  <2>1. SUFFICES ASSUME NEW q \in Packets, IsData(q), Missing(w, q), Starts(first, q) < e
                 PROVE  Overtaken(first, w, q)
    BY DEF LeftBehind
  <2>2. Missing(r, q)
    BY <1>1, <2>1, MissingLater
  <2>5. Overtaken(first, r, q)
    BY <1>4, <2>1, <2>2 DEF LeftBehind
  <2> QED
    BY <1>1, <2>5, OvertakenLater
<1>8. Ahead(first, w, e, k + 1)
  <2>1. Starts(first, p) \in Int /\ Starts(first, p) > 0
    <3>1. Starts(first, p) \in Int
      BY SegmentBounds
    <3> QED
      BY <3>1
  <2>2. PICK q \in Packets : IsData(q) /\ Ends(first, q) = Starts(first, p)
    BY <2>1, SegmentBehind
  <2>3. Starts(first, q) \in Int /\ Starts(first, q) < Starts(first, p)
    BY <2>2, SegmentBounds
  <2>4. q # p
    BY <2>3
  <2>5. Missing(r, q)
    <3>1. \A i \in 1..Len(r) : Ends(first, r[i]) <= e
      BY <1>4 DEF Behind
    <3>2. ~(Ends(first, q) <= e)
      BY <2>1, <2>2
    <3> QED
      BY <3>1, <3>2 DEF Missing
  <2>6. Missing(w, q)
    BY <1>1, <2>4, <2>5, MissingLater
  <2> QED
    BY <1>2, <2>2, <2>3, <2>6 DEF Ahead
<1> QED
  BY <1>1, <1>5, <1>6, <1>7, <1>8 DEF InOrder

(* What is missing before the end of the pair has been overtaken by both:  *)
(* nothing that is missing lies between them.                              *)
LEMMA NothingBetween ==
  ASSUME EvenRange, NEW first, Segmented(first), NEW r \in Seq(Packets), NEW e \in Int, NEW n,
         Ahead(first, r, e, n), IsData(r[n]), LeftBehind(first, r, e),
         NEW p \in Packets, IsData(p), Missing(r, p),
         ~TwoSkipped(first, r, r[n]), ~TwoSkipped(first, Append(r, p), p),
         NEW low \in Packets, NEW high \in Packets,
         \/ low = p /\ high = r[n]
         \/ low = r[n] /\ high = p,
         Starts(first, low) < Starts(first, high)
  PROVE  LeftBehind(first, Append(r, p), Ends(first, high))
<1>1. PICK w, k : w = Append(r, p) /\ k = Len(r)
  OBVIOUS
<1>2. /\ w \in Seq(Packets) /\ Len(w) = k + 1 /\ k \in Nat /\ n = k /\ k >= 2
      /\ w[k + 1] = p /\ w[k] = r[n] /\ r[n] \in Packets
  <2>1. n = k /\ k >= 2 /\ k \in Nat /\ k \in 1..k
    BY <1>1 DEF Ahead
  <2>2. w \in Seq(Packets) /\ Len(w) = k + 1 /\ w[k + 1] = p /\ w[k] = r[k]
    BY <1>1, <2>1, AppendProperties
  <2> QED
    BY <1>1, <2>1, <2>2, ElementOfSeq
<1>3. SUFFICES ASSUME NEW q \in Packets, IsData(q), Missing(w, q),
                      Starts(first, q) < Ends(first, high)
               PROVE  Overtaken(first, w, q)
  BY <1>1 DEF LeftBehind
<1>4. Missing(r, q) /\ q # p
  BY <1>1, <1>3, MissingLater
<1>5. q # r[n]
  BY <1>1, <1>2, <1>4 DEF Missing
<1>6. IsData(low) /\ IsData(high) /\ q # low /\ q # high
  BY <1>4, <1>5
<1>7. /\ Starts(first, q) \in Int /\ Starts(first, low) \in Int /\ Starts(first, high) \in Int
      /\ Starts(first, r[n]) \in Int
  BY <1>2, SegmentBounds
<1>8. Starts(first, q) < Starts(first, high)
  <2>1. Ends(first, q) <= Starts(first, high) \/ Ends(first, high) <= Starts(first, q)
    BY <1>3, <1>6, SegmentsDisjoint
  <2>2. /\ Ends(first, q) \in Int /\ Ends(first, high) \in Int
        /\ Starts(first, q) < Ends(first, q)
    BY <1>3, SegmentBounds
  <2> QED
    BY <1>3, <1>7, <2>1, <2>2
<1>9. Starts(first, q) # Starts(first, low)
  <2>1. Ends(first, q) <= Starts(first, low) \/ Ends(first, low) <= Starts(first, q)
    BY <1>3, <1>6, SegmentsDisjoint
  <2>2. /\ Ends(first, q) \in Int /\ Ends(first, low) \in Int
        /\ Starts(first, q) < Ends(first, q) /\ Starts(first, low) < Ends(first, low)
    BY <1>3, <1>6, SegmentBounds
  <2> QED
    BY <1>7, <2>1, <2>2
<1>10. CASE Starts(first, q) < Starts(first, low)
  <2>1. Starts(first, q) < Starts(first, w[k]) /\ Starts(first, q) < Starts(first, w[k + 1])
    BY <1>2, <1>8, <1>10
  <2>2. k \in 2..Len(w) /\ k + 1 \in 2..Len(w) /\ k # k + 1
    BY <1>2
  <2> QED
    BY <2>1, <2>2 DEF Overtaken
<1>11. CASE Starts(first, low) < Starts(first, q)
  <2>1. CASE low = p /\ high = r[n]
    <3>1. /\ Missing(r, p) /\ Missing(r, q) /\ IsData(p) /\ IsData(q)
          /\ Starts(first, p) # Starts(first, q)
          /\ Starts(first, p) < Starts(first, r[n]) /\ Starts(first, q) < Starts(first, r[n])
      BY <1>3, <1>4, <1>7, <1>8, <1>11, <2>1
    <3> QED
      BY <3>1 DEF TwoSkipped
  <2>2. CASE low = r[n] /\ high = p
    <3>1. PICK x \in Packets : IsData(x) /\ Missing(r, x) /\ Starts(first, x) < Starts(first, r[n])
      BY DEF Ahead
    <3>2. Starts(first, x) \in Int
      BY SegmentBounds
    <3>3. /\ Starts(first, x) # Starts(first, q)
          /\ Starts(first, x) < Starts(first, p) /\ Starts(first, q) < Starts(first, p)
      BY <1>7, <1>8, <1>11, <2>2, <3>1, <3>2
    <3>4. p # x
      BY <3>2, <3>3
    <3>5. Missing(Append(r, p), x) /\ Missing(Append(r, p), q)
      BY <1>4, <3>1, <3>4, MissingLater
    <3> QED
      BY <1>3, <3>1, <3>3, <3>5 DEF TwoSkipped
  <2> QED
    BY <2>1, <2>2
<1> QED
  BY <1>7, <1>9, <1>10, <1>11

(* The packet put aside and the one that has come after it.                *)
LEMMA InOrderPair ==
  ASSUME EvenRange, NEW first, Segmented(first), NEW r \in Seq(Packets), NEW g \in Seq(Accepts),
         NEW e \in Int, NEW n, InOrder(first, r, g, e, TRUE, n), IsData(r[n]),
         NEW p \in Packets, IsData(p), Missing(r, p), Starts(first, p) >= e,
         ~TwoSkipped(first, r, r[n]), ~TwoSkipped(first, Append(r, p), p),
         NEW low \in Packets, NEW high \in Packets, NEW x \in Accepts, NEW y \in Accepts,
         \/ low = p /\ high = r[n] /\ x.id = Len(r) + 1 /\ y.id = n
         \/ low = r[n] /\ high = p /\ x.id = n /\ y.id = Len(r) + 1,
         Starts(first, low) < Starts(first, high), NEW m
  PROVE  InOrder(first, Append(r, p), Append(Append(g, x), y), Ends(first, high), FALSE, m)
<1>1. PICK w, k, c, d : /\ w = Append(r, p) /\ k = Len(r)
                        /\ c = Ends(first, low) /\ d = Ends(first, high)
  OBVIOUS
<1>2. /\ GivenInOrder(first, r, g, e) /\ Behind(first, r, e, n) /\ LeftBehind(first, r, e)
      /\ Ahead(first, r, e, n)
  BY DEF InOrder
<1>3. /\ w \in Seq(Packets) /\ Len(w) = k + 1 /\ k \in Nat /\ n = k /\ k >= 2
      /\ w[k + 1] = p /\ w[k] = r[n] /\ r[n] \in Packets
  <2>1. n = k /\ k >= 2 /\ k \in Nat /\ k \in 1..k
    BY <1>1, <1>2 DEF Ahead
  <2>2. w \in Seq(Packets) /\ Len(w) = k + 1 /\ w[k + 1] = p /\ w[k] = r[k]
    BY <1>1, <2>1, AppendProperties
  <2> QED
    BY <1>1, <2>1, <2>2, ElementOfSeq
<1>4. /\ x.id \in 1..Len(w) /\ w[x.id] = low /\ y.id \in 1..Len(w) /\ w[y.id] = high
      /\ IsData(low) /\ IsData(high)
  BY <1>1, <1>3
<1>5. /\ c \in Int /\ d \in Int /\ Starts(first, low) \in Int /\ Starts(first, high) \in Int
      /\ Starts(first, low) < c /\ Starts(first, high) < d
  BY <1>1, <1>4, SegmentBounds
<1>6. c <= Starts(first, high)
  <2>1. low # high
    BY <1>5
  <2>2. c <= Starts(first, high) \/ d <= Starts(first, low)
    BY <1>1, <1>4, <2>1, SegmentsDisjoint
  <2> QED
    BY <1>5, <2>2
<1>7. Starts(first, low) >= e
  BY <1>2, <1>5 DEF Ahead
<1>8. \A i \in 1..Len(w) : Starts(first, w[i]) \in Int /\ Ends(first, w[i]) \in Int
  BY <1>3, ArrivedBounds
<1>9. GivenInOrder(first, w, Append(Append(g, x), y), d)
  <2>1. GivenInOrder(first, w, g, e)
    BY <1>1, <1>2, GivenLater
  <2>2. e <= c /\ c <= d
    BY <1>5, <1>6, <1>7
  <2>3. Starts(first, w[x.id]) >= e /\ Starts(first, w[x.id]) < c /\ Ends(first, w[x.id]) <= c
    BY <1>1, <1>4, <1>5, <1>7
  <2>4. GivenInOrder(first, w, Append(g, x), c)
    BY <1>4, <1>5, <1>8, <2>1, <2>2, <2>3, GivenOneMore
  <2>5. Starts(first, w[y.id]) >= c /\ Starts(first, w[y.id]) < d /\ Ends(first, w[y.id]) <= d
    BY <1>1, <1>4, <1>5, <1>6
  <2>6. Append(g, x) \in Seq(Accepts)
    OBVIOUS
  <2> QED
    BY <1>4, <1>5, <1>8, <2>2, <2>4, <2>5, <2>6, GivenOneMore
<1>10. Behind(first, w, d, 0)
  <2>1. Ends(first, p) <= d /\ Ends(first, r[n]) <= d /\ e <= d
    BY <1>1, <1>5, <1>6, <1>7
  <2>2. \A i \in 1..Len(r) : Ends(first, r[i]) \in Int
    BY ArrivedBounds
  <2> QED
    BY <1>1, <1>2, <1>5, <2>1, <2>2, BehindLater
<1>11. LeftBehind(first, w, d)
  BY <1>1, <1>2, NothingBetween
<1> QED
  BY <1>1, <1>9, <1>10, <1>11 DEF InOrder

SeqNextAt(first, s) == s \in 0..(SeqRange - 1) /\ Off(first, s) < SeqRange \div 2

OrdInv(first) ==
  /\ rx = <<>> => pair_given = <<>> /\ ~has_reorder
  /\ Undisturbed(first, rx) =>
       /\ SeqNextAt(first, seq_next)
       /\ InOrder(first, rx, pair_given, Off(first, seq_next), has_reorder, pair_saved)

LEMMA OrdPair ==
  ASSUME EvenRange, NEW first, Segmented(first), PairInv, OrdInv(first),
         NEW p \in Packets, Pair!reorder_queue_enqueue_packet(p), Pair!EnqueuePair(p),
         Len(rx) > 0, Undisturbed(first, rx)'
  PROVE  /\ SeqNextAt(first, seq_next)'
         /\ InOrder(first, rx', pair_given', Off(first, seq_next'), has_reorder', pair_saved')
<1>1. PICK r, g, s, e, n, x, y : /\ r = rx /\ g = pair_given /\ s = seq_next
                              /\ e = Off(first, seq_next) /\ n = pair_saved
                              /\ x = Pair!Accept(Pair!This) /\ y = Pair!Accept(pair_saved)
  OBVIOUS
<1>2. /\ r \in Seq(Packets) /\ g \in Seq(Accepts) /\ rx' = Append(r, p) /\ has_reorder
      /\ x \in Accepts /\ y \in Accepts /\ x.id = Len(r) + 1 /\ y.id = n /\ Len(r) \in Nat
  <2>1. has_reorder
    BY DEF Pair!EnqueuePair, Pair!IsNew
  <2>2. Pair!This \in Nat /\ pair_saved \in Nat /\ Pair!This = Len(rx) + 1 /\ Len(rx) \in Nat
    BY <2>1, PairBasics
  <2>3. /\ x \in Accepts /\ x.id = Pair!This /\ y \in Accepts /\ y.id = pair_saved
    BY <1>1, <2>2, PairBasics
  <2> QED
    BY <1>1, <2>1, <2>2, <2>3, PairState DEF PairInv
<1>3. Undisturbed(first, Append(r, p))
  BY <1>2
<1>4. /\ Undisturbed(first, r) /\ IsData(p) /\ Missing(r, p)
      /\ ~TwoSkipped(first, Append(r, p), p) /\ \A i \in 2..Len(r) : IsData(r[i])
      /\ Len(r) >= 2 => ~TwoSkipped(first, r, r[Len(r)])
  BY <1>1, <1>2, <1>3, UndisturbedBefore
<1>5. SeqNextAt(first, s) /\ InOrder(first, r, g, e, TRUE, n)
  BY <1>1, <1>2, <1>4 DEF OrdInv
<1>6. n = Len(r) /\ Len(r) >= 2 /\ n \in 2..Len(r) /\ n \in 1..Len(r)
  BY <1>2, <1>5 DEF InOrder, Ahead
<1>7. /\ IsData(r[n]) /\ ~TwoSkipped(first, r, r[n]) /\ r[n] \in Packets /\ Pair!saved = r[n]
  BY <1>1, <1>2, <1>4, <1>6, ElementOfSeq DEF Pair!saved
<1>8. /\ Starts(first, p) \in Int /\ Starts(first, r[n]) \in Int
      /\ Ends(first, p) \in Int /\ Ends(first, r[n]) \in Int /\ e \in Int
      /\ Ends(first, p) < SeqRange \div 2 /\ Ends(first, r[n]) < SeqRange \div 2
      /\ Starts(first, p) < Ends(first, p) /\ Starts(first, r[n]) < Ends(first, r[n])
  <2>1. e \in Nat
    BY <1>1, <1>5, SegmentArithmetic DEF SeqNextAt
  <2> QED
    BY <1>4, <1>7, <2>1, SegmentBounds
<1>9. Starts(first, p) >= e
  <2>1. ~Pair!Before(p.seq, s)
    BY <1>1 DEF Pair!EnqueuePair, Pair!IsNew
  <2>2. ~(Starts(first, p) < e)
    BY <1>1, <1>4, <1>5, <2>1, SegmentBefore DEF SeqNextAt
  <2> QED
    BY <1>8, <2>2
<1>10. Ends(first, p) <= Starts(first, r[n]) \/ Ends(first, r[n]) <= Starts(first, p)
  <2>1. p # r[n]
    BY <1>4, <1>6 DEF Missing
  <2> QED
    BY <1>4, <1>7, <2>1, SegmentsDisjoint
<1>11. Pair!Before(p.seq, Pair!saved.seq) <=> Starts(first, p) < Starts(first, r[n])
  BY <1>4, <1>7, SegmentOrder
<1>12. /\ Pair!SeqEnd(p) \in 0..(SeqRange - 1) /\ Off(first, Pair!SeqEnd(p)) = Ends(first, p)
       /\ Pair!SeqEnd(r[n]) \in 0..(SeqRange - 1)
       /\ Off(first, Pair!SeqEnd(r[n])) = Ends(first, r[n])
  BY <1>4, <1>7, SegmentEnd
<1>13. Pair!Before(Pair!SeqEnd(p), Pair!SeqEnd(Pair!saved)) <=> Ends(first, p) < Ends(first, r[n])
  BY <1>7, <1>8, <1>12, SegmentArithmetic
<1>14. has_reorder' = FALSE
  BY DEF Pair!EnqueuePair
<1>15. CASE Starts(first, p) < Starts(first, r[n])
  <2>1. Ends(first, p) < Ends(first, r[n])
    BY <1>8, <1>10, <1>15
  <2>2. seq_next' = Pair!SeqEnd(r[n]) /\ pair_given' = g \o <<x, y>>
    BY <1>1, <1>7, <1>11, <1>13, <1>15, <2>1 DEF Pair!EnqueuePair
  <2>3. pair_given' = Append(Append(g, x), y)
    BY <1>2, <2>2
  <2>4. InOrder(first, Append(r, p), Append(Append(g, x), y), Ends(first, r[n]), FALSE, pair_saved')
    BY <1>2, <1>4, <1>5, <1>7, <1>8, <1>9, <1>15, InOrderPair
  <2> QED
    BY <1>2, <1>8, <1>12, <1>14, <2>2, <2>3, <2>4 DEF SeqNextAt
<1>16. CASE Starts(first, r[n]) < Starts(first, p)
  <2>1. ~(Ends(first, p) < Ends(first, r[n])) /\ ~(Starts(first, p) < Starts(first, r[n]))
    BY <1>8, <1>10, <1>16
  <2>2. seq_next' = Pair!SeqEnd(p) /\ pair_given' = g \o <<y, x>>
    BY <1>1, <1>7, <1>11, <1>13, <2>1 DEF Pair!EnqueuePair
  <2>3. pair_given' = Append(Append(g, y), x)
    BY <1>2, <2>2
  <2>4. InOrder(first, Append(r, p), Append(Append(g, y), x), Ends(first, p), FALSE, pair_saved')
    BY <1>2, <1>4, <1>5, <1>7, <1>8, <1>9, <1>16, InOrderPair
  <2> QED
    BY <1>2, <1>8, <1>12, <1>14, <2>2, <2>3, <2>4 DEF SeqNextAt
<1> QED
  BY <1>8, <1>10, <1>15, <1>16

LEMMA OrdStep ==
  ASSUME EvenRange, NEW first, Segmented(first), PairInv, OrdInv(first),
         NEW p \in Packets, Pair!reorder_queue_enqueue_packet(p)
  PROVE  OrdInv(first)'
<1>1. /\ rx \in Seq(Packets) /\ pair_given \in Seq(Accepts) /\ rx' = Append(rx, p)
      /\ Len(rx') = Len(rx) + 1 /\ Len(rx) \in Nat
  BY PairState, PairBasics DEF PairInv
<1>2. rx' # <<>>
  BY <1>1
<1>3. SUFFICES ASSUME Undisturbed(first, rx)'
               PROVE  /\ SeqNextAt(first, seq_next)'
                      /\ InOrder(first, rx', pair_given', Off(first, seq_next'), has_reorder',
                                 pair_saved')
  BY <1>2 DEF OrdInv
<1>4. PICK g, e, x : g = pair_given /\ e = Off(first, seq_next) /\ x = Pair!Accept(Pair!This)
  OBVIOUS
<1>5. x \in Accepts /\ x.id = Len(rx) + 1
  BY <1>1, <1>4, PairBasics
<1>6. Undisturbed(first, Append(rx, p))
  BY <1>1, <1>3
<1>7. CASE Len(rx) = 0
  <2>1. rx = <<>> /\ pair_given = <<>> /\ ~has_reorder
    BY <1>1, <1>7 DEF OrdInv
  <2>2. p.syn
    BY <1>6, <2>1 DEF Undisturbed
  <2>3. /\ seq_next' = (p.seq + 1) % SeqRange /\ has_reorder' = FALSE
        /\ pair_given' = Append(pair_given, x)
    BY <1>4, <2>1, <2>2
       DEF Pair!reorder_queue_enqueue_packet, Pair!EnqueueSyn, Pair!EnqueueEmpty, Pair!EnqueueOld,
           Pair!EnqueueNext, Pair!EnqueueSave, Pair!EnqueuePair, Pair!IsNew
  <2>4. seq_next' = first /\ first \in 0..(SeqRange - 1)
    BY <2>2, <2>3 DEF Segmented
  <2>5. Off(first, seq_next') = 0 /\ 0 < SeqRange \div 2
    BY <2>4, SegmentArithmetic DEF EvenRange
  <2>6. x \in Accepts /\ x.id = 1
    BY <1>5, <1>7
  <2>7. InOrder(first, Append(<<>>, p), Append(<<>>, x), 0, FALSE, pair_saved')
    BY <2>2, <2>6, InOrderSyn
  <2> QED
    BY <1>1, <2>1, <2>3, <2>4, <2>5, <2>7 DEF SeqNextAt
<1>8. CASE Len(rx) > 0
  <2>1. /\ Undisturbed(first, rx) /\ IsData(p) /\ Missing(rx, p) /\ ~Overtaken(first, rx, p)
    BY <1>1, <1>6, <1>8, UndisturbedBefore
  <2>2. SeqNextAt(first, seq_next) /\ InOrder(first, rx, g, e, has_reorder, pair_saved)
    BY <1>4, <2>1 DEF OrdInv
  <2>3. ~p.syn /\ p.len > 0
    BY <2>1, SegmentBounds DEF IsData
  <2>4. /\ Pair!Before(p.seq, seq_next) <=> Starts(first, p) < e
        /\ p.seq = seq_next <=> Starts(first, p) = e
    BY <1>4, <2>1, <2>2, SegmentBefore DEF SeqNextAt
  <2>5. e \in Nat /\ e \in Int /\ Starts(first, p) \in Int
    BY <1>4, <2>2, SegmentArithmetic, SegmentBounds DEF SeqNextAt
  <2>6. CASE Pair!EnqueueSyn(p) \/ Pair!EnqueueEmpty(p)
    BY <2>3, <2>6 DEF Pair!EnqueueSyn, Pair!EnqueueEmpty
  <2>7. CASE Pair!EnqueueOld(p)
    <3>1. Starts(first, p) < e
      BY <2>4, <2>7 DEF Pair!EnqueueOld
    <3> QED
      BY <2>1, <2>2, <3>1 DEF InOrder, LeftBehind
  <2>8. CASE Pair!EnqueueNext(p)
    <3>1. /\ Starts(first, p) = e /\ has_reorder = FALSE /\ has_reorder' = FALSE
          /\ seq_next' = Pair!SeqEnd(p) /\ pair_given' = Append(g, x)
      BY <1>4, <2>4, <2>8 DEF Pair!EnqueueNext, Pair!IsNew, PairInv
    <3>2. InOrder(first, rx, g, e, FALSE, pair_saved)
      BY <2>2, <3>1
    <3>3. InOrder(first, Append(rx, p), Append(g, x), Ends(first, p), FALSE, pair_saved')
      BY <1>1, <1>4, <1>5, <2>1, <2>5, <3>1, <3>2, InOrderNext
    <3>4. /\ Pair!SeqEnd(p) \in 0..(SeqRange - 1) /\ Off(first, Pair!SeqEnd(p)) = Ends(first, p)
          /\ Ends(first, p) < SeqRange \div 2
      BY <2>1, SegmentEnd, SegmentBounds
    <3> QED
      BY <1>1, <3>1, <3>3, <3>4 DEF SeqNextAt
  <2>9. CASE Pair!EnqueueSave(p)
    <3>1. /\ Starts(first, p) # e /\ ~(Starts(first, p) < e)
          /\ has_reorder = FALSE /\ has_reorder' = TRUE /\ seq_next' = seq_next /\ pair_given' = g /\ pair_saved' = Pair!This
      BY <1>4, <2>4, <2>9 DEF Pair!EnqueueSave, Pair!IsNew, PairInv
    <3>2. Starts(first, p) > e
      BY <2>5, <3>1
    <3>3. InOrder(first, rx, g, e, FALSE, pair_saved)
      BY <2>2, <3>1
    <3>4. InOrder(first, Append(rx, p), g, e, TRUE, Len(rx) + 1)
      BY <1>1, <1>4, <1>8, <2>1, <2>5, <3>2, <3>3, InOrderSave
    <3>5. pair_saved' = Len(rx) + 1
      BY <3>1, PairBasics
    <3> QED
      BY <1>1, <1>4, <2>2, <3>1, <3>4, <3>5 DEF SeqNextAt
  <2>10. CASE Pair!EnqueuePair(p)
    BY <1>3, <1>8, <2>10, OrdPair
  <2> QED
    BY <2>6, <2>7, <2>8, <2>9, <2>10 DEF Pair!reorder_queue_enqueue_packet
<1> QED
  BY <1>1, <1>7, <1>8

LEMMA OrdGives ==
  ASSUME EvenRange, NEW first, Segmented(first), PairInv, OrdInv(first)
  PROVE  OrderRestored
<1>1. SUFFICES ASSUME Pair!OneConnection, \A i \in 2..Len(rx) : ~Pair!Displaced(i),
                      NEW i \in 1..Len(pair_given), NEW j \in 1..Len(pair_given), i < j
               PROVE  ~Pair!Before(rx[pair_given[j].id].seq, rx[pair_given[i].id].seq)
  BY DEF OrderRestored, Pair!OrderRestored
<1>2. Undisturbed(first, rx)
  BY <1>1, UndisturbedIs DEF PairInv
<1>3. PICK p, q : p = rx[pair_given[i].id] /\ q = rx[pair_given[j].id]
  OBVIOUS
<1>4. /\ pair_given[i].id \in 1..Len(rx) /\ pair_given[j].id \in 1..Len(rx)
      /\ Starts(first, p) < Starts(first, q)
  BY <1>1, <1>2, <1>3 DEF OrdInv, InOrder, GivenInOrder
<1>5. p \in Packets /\ q \in Packets
  BY <1>3, <1>4, ElementOfSeq DEF PairInv
<1>6. \A n \in 1..Len(rx) : n = 1 \/ n \in 2..Len(rx)
  BY LenProperties DEF PairInv
<1>7. (p.syn \/ IsData(p)) /\ (q.syn \/ IsData(q))
  BY <1>1, <1>3, <1>4, <1>6 DEF Pair!OneConnection, IsData
<1>8. /\ Starts(first, p) \in Int /\ p.syn \in BOOLEAN /\ q.syn \in BOOLEAN
      /\ p.syn => Starts(first, p) = -1
      /\ ~p.syn => Starts(first, p) >= 0
      /\ q.syn => Starts(first, q) = -1
  BY <1>5, SegmentBounds
<1>9. ~q.syn /\ IsData(q)
  BY <1>4, <1>7, <1>8
<1>10. ~Pair!Before(q.seq, p.seq)
  <2>1. CASE p.syn
    BY <1>5, <1>9, <2>1, SynFirst
  <2>2. CASE IsData(p)
    <3>1. Starts(first, q) \in Int
      BY <1>5, SegmentBounds
    <3>2. ~(Starts(first, q) < Starts(first, p))
      BY <1>4, <1>8, <3>1
    <3> QED
      BY <1>5, <1>9, <2>2, <3>2, SegmentOrder
  <2> QED
    BY <1>7, <2>1, <2>2
<1> QED
  BY <1>3, <1>10

(* reorder_fedora does what it is for, however long the connection: if the *)
(* network has only exchanged neighbours, TCP sees the data of the         *)
(* connection in order.  The data are the segments of one stretch, without *)
(* holes and shorter than half of the sequence space; with a hole before a *)
(* packet that has been put aside, or with numbers that have come round,   *)
(* the handler cannot do it.                                               *)
THEOREM OrderRestoredCorrect ==
  ASSUME EvenRange, \E first : Segmented(first)
  PROVE  Spec => []OrderRestored
<1>1. PICK first : Segmented(first)
  OBVIOUS
<1>2. Pair!Init => PairInv /\ OrdInv(first)
  <2>1. SUFFICES ASSUME Pair!Init PROVE PairInv /\ OrdInv(first)
    OBVIOUS
  <2>2. rx = <<>> /\ pair_given = <<>> /\ ~has_reorder
    BY <2>1 DEF Pair!Init
  <2>3. ~Undisturbed(first, rx)
    BY <2>2 DEF Undisturbed
  <2> QED
    BY <2>1, <2>2, <2>3, PairInitInv DEF OrdInv
<1>3. (PairInv /\ OrdInv(first)) /\ [Pair!Next]_(Pair!vars) => (PairInv /\ OrdInv(first))'
  <2>1. SUFFICES ASSUME PairInv, OrdInv(first), [Pair!Next]_(Pair!vars) PROVE OrdInv(first)'
    BY PairNextInv
  <2>2. CASE UNCHANGED Pair!vars
    BY <2>1, <2>2 DEF OrdInv, Pair!vars
  <2>3. CASE Pair!Next
    BY <1>1, <2>1, <2>3, OrdStep DEF Pair!Next
  <2> QED
    BY <2>1, <2>2, <2>3
<1>4. PairInv /\ OrdInv(first) => OrderRestored
  BY <1>1, OrdGives
<1> QED
  BY <1>2, <1>3, <1>4, PairAlone, PTL DEF Pair!Spec

-----------------------------------------------------------------------------
(* Both hosts of the path.                                                 *)

(* What the sender's handler has exchanged is two neighbours, neither of   *)
(* them the SYN or the FIN.                                                *)
Exchanged(g, i) ==
  /\ i >= 2 /\ i + 1 <= Len(g) /\ i + 2 <= Path!Total
  /\ g[i].id = i + 1 /\ g[i + 1].id = i

SentInOrder(g) == \A i \in 1..Len(g) : g[i].id = i \/ Exchanged(g, i) \/ Exchanged(g, i - 1)

SenderInv ==
  /\ path_tx \in Seq(BOOLEAN) /\ Len(path_tx) <= Path!Total
  /\ path_sent \in Seq(Accepts) /\ SentInOrder(path_sent)
  /\ \/ aside = 0 /\ Len(path_sent) = Len(path_tx)
     \/ /\ aside = Len(path_tx) /\ Len(path_sent) = Len(path_tx) - 1
        /\ aside >= 2 /\ aside + 1 <= Path!Total

LEMMA SentOneMore ==
  ASSUME NEW g \in Seq(Accepts), SentInOrder(g), NEW x \in Accepts, x.id = Len(g) + 1
  PROVE  SentInOrder(Append(g, x)) /\ Append(g, x) \in Seq(Accepts)
<1>1. PICK h, n : h = Append(g, x) /\ n = Len(g)
  OBVIOUS
<1>2. /\ n \in Nat /\ h \in Seq(Accepts) /\ Len(h) = n + 1 /\ h[n + 1] = x
      /\ \A i \in 1..n : h[i] = g[i]
  BY <1>1, AppendProperties
<1>3. ASSUME NEW i \in Int, Exchanged(g, i) PROVE Exchanged(h, i)
  <2>1. i \in 1..n /\ i + 1 \in 1..n
    BY <1>1, <1>2, <1>3 DEF Exchanged
  <2> QED
    BY <1>1, <1>2, <1>3, <2>1 DEF Exchanged
<1>4. ASSUME NEW i \in 1..(n + 1) PROVE h[i].id = i \/ Exchanged(h, i) \/ Exchanged(h, i - 1)
  <2>1. CASE i = n + 1
    BY <1>1, <1>2, <2>1
  <2>2. CASE i \in 1..n
    <3>1. g[i].id = i \/ Exchanged(g, i) \/ Exchanged(g, i - 1)
      BY <1>1, <2>2 DEF SentInOrder
    <3>2. i \in Int /\ i - 1 \in Int
      OBVIOUS
    <3> QED
      BY <1>2, <1>3, <2>2, <3>1, <3>2
  <2> QED
    BY <1>2, <2>1, <2>2
<1> QED
  BY <1>1, <1>2, <1>4 DEF SentInOrder

LEMMA SentExchanged ==
  ASSUME NEW g \in Seq(Accepts), SentInOrder(g), NEW x \in Accepts, NEW y \in Accepts,
         x.id = Len(g) + 2, y.id = Len(g) + 1, Len(g) >= 1, Len(g) + 3 <= Path!Total
  PROVE  SentInOrder(Append(Append(g, x), y)) /\ Append(Append(g, x), y) \in Seq(Accepts)
<1>1. PICK h, n : h = Append(Append(g, x), y) /\ n = Len(g)
  OBVIOUS
<1>2. /\ n \in Nat /\ h \in Seq(Accepts) /\ Len(h) = n + 2 /\ h[n + 1] = x /\ h[n + 2] = y
      /\ \A i \in 1..n : h[i] = g[i]
  <2>1. PICK f : f = Append(g, x)
    OBVIOUS
  <2>2. /\ n \in Nat /\ f \in Seq(Accepts) /\ Len(f) = n + 1 /\ f[n + 1] = x
        /\ \A i \in 1..n : f[i] = g[i]
    BY <1>1, <2>1, AppendProperties
  <2>3. h = Append(f, y)
    BY <1>1, <2>1
  <2>4. /\ h \in Seq(Accepts) /\ Len(h) = n + 2 /\ h[n + 2] = y
        /\ \A i \in 1..(n + 1) : h[i] = f[i]
    BY <2>2, <2>3, AppendProperties
  <2> QED
    BY <2>2, <2>4
<1>3. ASSUME NEW i \in Int, Exchanged(g, i) PROVE Exchanged(h, i)
  <2>1. i \in 1..n /\ i + 1 \in 1..n
    BY <1>1, <1>2, <1>3 DEF Exchanged
  <2> QED
    BY <1>1, <1>2, <1>3, <2>1 DEF Exchanged
<1>4. Exchanged(h, n + 1) /\ (n + 2) - 1 = n + 1
  <2>1. /\ n + 1 >= 2 /\ (n + 1) + 1 <= Len(h) /\ (n + 1) + 1 = n + 2
        /\ (n + 1) + 2 = n + 3 /\ (n + 2) - 1 = n + 1
    BY <1>1, <1>2
  <2> QED
    BY <1>1, <1>2, <2>1 DEF Exchanged
<1>5. ASSUME NEW i \in 1..(n + 2) PROVE h[i].id = i \/ Exchanged(h, i) \/ Exchanged(h, i - 1)
  <2>1. CASE i \in 1..n
    <3>1. g[i].id = i \/ Exchanged(g, i) \/ Exchanged(g, i - 1)
      BY <1>1, <2>1 DEF SentInOrder
    <3>2. i \in Int /\ i - 1 \in Int
      OBVIOUS
    <3> QED
      BY <1>2, <1>3, <2>1, <3>1, <3>2
  <2>2. i = n + 1 \/ i = n + 2 \/ i \in 1..n
    BY <1>2
  <2> QED
    BY <1>4, <2>1, <2>2
<1> QED
  BY <1>1, <1>2, <1>5 DEF SentInOrder

(* What has been sent stays as it is.                                      *)
Extends(g, h) == Len(g) <= Len(h) /\ \A i \in 1..Len(g) : h[i] = g[i]

LEMMA TransmitSends ==
  ASSUME Segments \in Nat, SenderInv, Path!Transmit
  PROVE  SenderInv' /\ Extends(path_sent, path_sent')
<1>1. PICK g, n, x, y : /\ g = path_sent /\ n = Len(path_tx)
                        /\ x = Path!Sender!Accept(Path!Sender!This)
                        /\ y = Path!Sender!Accept(aside)
  OBVIOUS
<1>2. /\ g \in Seq(Accepts) /\ SentInOrder(g) /\ Len(g) \in Nat /\ n \in Nat
      /\ Path!Sender!This = n + 1 /\ n < Path!Total /\ Path!Total \in Nat
  BY <1>1, LenProperties DEF SenderInv, Path!Sender!This, Path!Transmit, Path!Total
<1>3. x \in Accepts /\ x.id = n + 1 /\ (aside # 0 => y \in Accepts /\ y.id = aside)
  BY <1>1, <1>2 DEF Path!Sender!Accept, Accepts, SenderInv
<1>4. path_tx' = Append(path_tx, TRUE) \/ path_tx' = Append(path_tx, FALSE)
        => path_tx' \in Seq(BOOLEAN) /\ Len(path_tx') = n + 1
  <2>1. \A c \in BOOLEAN : Append(path_tx, c) \in Seq(BOOLEAN) /\ Len(Append(path_tx, c)) = n + 1
    BY <1>1, AppendProperties DEF SenderInv
  <2>2. /\ Append(path_tx, TRUE) \in Seq(BOOLEAN) /\ Len(Append(path_tx, TRUE)) = n + 1
        /\ Append(path_tx, FALSE) \in Seq(BOOLEAN) /\ Len(Append(path_tx, FALSE)) = n + 1
    BY <2>1
  <2> QED
    BY <2>2, Zenon
<1>5. \A z \in Accepts : Len(Append(g, z)) = Len(g) + 1 /\ Extends(g, Append(g, z))
  BY <1>2, AppendProperties DEF Extends
<1>6. \A v, z \in Accepts : /\ Len(Append(Append(g, v), z)) = Len(g) + 2
                            /\ Extends(g, Append(Append(g, v), z))
                            /\ g \o <<v, z>> = Append(Append(g, v), z)
  <2>1. ASSUME NEW v \in Accepts, NEW z \in Accepts
        PROVE  /\ Len(Append(Append(g, v), z)) = Len(g) + 2
               /\ Extends(g, Append(Append(g, v), z))
               /\ g \o <<v, z>> = Append(Append(g, v), z)
    <3>1. /\ Append(g, v) \in Seq(Accepts) /\ Len(Append(g, v)) = Len(g) + 1
          /\ \A i \in 1..Len(g) : Append(g, v)[i] = g[i]
      BY <1>2, AppendProperties
    <3>2. PICK f : f = Append(g, v)
      OBVIOUS
    <3>3. /\ Len(Append(f, z)) = Len(f) + 1 /\ \A i \in 1..Len(f) : Append(f, z)[i] = f[i]
      BY <3>1, <3>2, AppendProperties
    <3>4. g \o <<v, z>> = Append(Append(g, v), z)
      BY <1>2
    <3> QED
      BY <1>2, <3>1, <3>2, <3>3, <3>4 DEF Extends
  <2> QED
    BY <2>1
<1>7. CASE aside = 0
  <2>1. Len(g) = n
    BY <1>1, <1>2, <1>7 DEF SenderInv
  <2>2. CASE Path!Sender!EnqueueControl
    <3>1. path_sent' = Append(g, x) /\ aside' = 0 /\ path_tx' = Append(path_tx, TRUE)
      BY <1>1, <1>7, <2>2 DEF Path!Sender!EnqueueControl
    <3>2. SentInOrder(Append(g, x)) /\ Append(g, x) \in Seq(Accepts)
      BY <1>2, <1>3, <2>1, SentOneMore
    <3> QED
      BY <1>1, <1>2, <1>3, <1>4, <1>5, <2>1, <3>1, <3>2 DEF SenderInv
  <2>3. CASE Path!Sender!EnqueueSave /\ Len(path_tx) + 1 \notin {1, Path!Total}
    <3>1. path_sent' = g /\ aside' = n + 1 /\ path_tx' = Append(path_tx, FALSE)
      BY <1>1, <1>2, <2>3 DEF Path!Sender!EnqueueSave
    <3>2. n + 1 >= 2 /\ (n + 1) + 1 <= Path!Total /\ n + 1 # 1 /\ n = (n + 1) - 1
      BY <1>1, <1>2, <2>3
    <3>3. Extends(g, g)
      BY <1>2 DEF Extends
    <3> QED
      BY <1>1, <1>2, <1>4, <2>1, <3>1, <3>2, <3>3 DEF SenderInv
  <2> QED
    BY <1>7, <2>2, <2>3 DEF Path!Transmit, Path!Sender!EnqueueSwap
<1>8. CASE aside # 0
  <2>1. Len(g) + 1 = n /\ aside = n /\ n >= 2
    BY <1>1, <1>2, <1>8 DEF SenderInv
  <2>2. y \in Accepts /\ y.id = n
    BY <1>3, <1>8, <2>1
  <2>3. CASE Path!Sender!EnqueueControl
    <3>1. path_sent' = g \o <<y, x>> /\ aside' = 0 /\ path_tx' = Append(path_tx, TRUE)
      BY <1>1, <1>8, <2>3 DEF Path!Sender!EnqueueControl
    <3>2. SentInOrder(Append(g, y)) /\ Append(g, y) \in Seq(Accepts)
      BY <1>2, <2>1, <2>2, SentOneMore
    <3>3. PICK f : f = Append(g, y)
      OBVIOUS
    <3>4. SentInOrder(f) /\ f \in Seq(Accepts) /\ Len(f) = n
      BY <1>5, <2>1, <2>2, <3>2, <3>3
    <3>5. SentInOrder(Append(f, x)) /\ Append(f, x) \in Seq(Accepts)
      BY <1>3, <3>4, SentOneMore
    <3>6. path_sent' = Append(f, x) /\ Len(Append(f, x)) = n + 1 /\ Extends(g, Append(f, x))
      BY <1>2, <1>3, <1>6, <2>1, <2>2, <3>1, <3>3
    <3>7. path_tx' \in Seq(BOOLEAN) /\ Len(path_tx') = n + 1 /\ n + 1 <= Path!Total
      <4>1. path_tx' \in Seq(BOOLEAN) /\ Len(path_tx') = n + 1
        BY <1>4, <3>1, Zenon
      <4> QED
        BY <1>2, <4>1
    <3>8. path_sent' \in Seq(Accepts) /\ SentInOrder(path_sent') /\ Len(path_sent') = n + 1
      BY <3>5, <3>6
    <3> QED
      BY <1>1, <3>1, <3>6, <3>7, <3>8 DEF SenderInv
  <2>4. CASE Path!Sender!EnqueueSwap /\ Len(path_tx) + 1 \notin {1, Path!Total}
    <3>1. path_sent' = g \o <<x, y>> /\ aside' = 0 /\ path_tx' = Append(path_tx, FALSE)
      BY <1>1, <2>4 DEF Path!Sender!EnqueueSwap
    <3>2. Len(g) >= 1 /\ Len(g) + 3 <= Path!Total /\ x.id = Len(g) + 2 /\ y.id = Len(g) + 1
      BY <1>1, <1>2, <1>3, <2>1, <2>2, <2>4
    <3>3. PICK f : f = Append(Append(g, x), y)
      OBVIOUS
    <3>4. SentInOrder(f) /\ f \in Seq(Accepts)
      BY <1>2, <1>3, <2>2, <3>2, <3>3, SentExchanged
    <3>5. path_sent' = f /\ Len(f) = n + 1 /\ Extends(g, f)
      BY <1>2, <1>3, <1>6, <2>1, <2>2, <3>1, <3>3
    <3>6. path_tx' \in Seq(BOOLEAN) /\ Len(path_tx') = n + 1 /\ n + 1 <= Path!Total
      <4>1. path_tx' \in Seq(BOOLEAN) /\ Len(path_tx') = n + 1
        BY <1>4, <3>1, Zenon
      <4> QED
        BY <1>2, <4>1
    <3>7. path_sent' \in Seq(Accepts) /\ SentInOrder(path_sent') /\ Len(path_sent') = n + 1
      BY <3>4, <3>5
    <3> QED
      BY <1>1, <3>1, <3>5, <3>6, <3>7 DEF SenderInv
  <2> QED
    BY <1>8, <2>3, <2>4 DEF Path!Transmit, Path!Sender!EnqueueSave
<1> QED
  BY <1>7, <1>8

(* The numbers of the connection: neighbours are told apart and ordered in *)
(* any space of more than five numbers, however often the data goes round. *)
NumberAt(k) == ((Isn + 1) + 2 * k) % SeqRange

PathConstants == Isn \in Int /\ Segments \in Nat /\ SeqRange \in Nat /\ SeqRange > 5

LEMMA Neighbours ==
  ASSUME PathConstants, NEW k \in Int
  PROVE  /\ NumberAt(k + 1) = (NumberAt(k) + 2) % SeqRange
         /\ ~Path!Receiver!Before(NumberAt(k), NumberAt(k))
         /\ Path!Receiver!Before(NumberAt(k), NumberAt(k + 1))
         /\ ~Path!Receiver!Before(NumberAt(k + 1), NumberAt(k))
         /\ NumberAt(k + 1) # NumberAt(k)
<1>1. PICK r, t, a, b : /\ r = SeqRange /\ t = (Isn + 1) + 2 * k
                        /\ a = NumberAt(k) /\ b = NumberAt(k + 1)
  OBVIOUS
<1>2. r \in Nat /\ r > 5 /\ t \in Int /\ a = t % r /\ b = (t + 2) % r
  <2>1. (Isn + 1) + 2 * (k + 1) = t + 2 /\ t \in Int
    BY <1>1 DEF PathConstants
  <2> QED
    BY <1>1, <2>1 DEF PathConstants, NumberAt
<1>3. b = (a + 2) % r
  <2>1. r \in Nat /\ r > 0 /\ t \in Int /\ 2 \in Int
    BY <1>2
  <2>2. ((t % r) + 2) % r = (t + 2) % r
    BY <2>1, ReduceTerm, Zenon
  <2> QED
    BY <1>2, <2>2
<1>4. a \in 0..(r - 1)
  BY <1>2, Division
<1>5. b = a + 2 \/ b = (a + 2) - r
  <2>1. CASE a + 2 < r
    <3>1. a + 2 \in 0..(r - 1)
      BY <1>2, <1>4, <2>1
    <3> QED
      BY <1>2, <1>3, <3>1, SmallRemainder
  <2>2. CASE ~(a + 2 < r)
    <3>1. (a + 2) - r \in 0..(r - 1) /\ a + 2 = ((a + 2) - r) + r * 1 /\ a + 2 \in Int
      BY <1>2, <1>4, <2>2
    <3>2. PICK c : c = (a + 2) - r
      OBVIOUS
    <3>3. c \in Int /\ c \in 0..(r - 1) /\ a + 2 = c + r * 1
      BY <3>1, <3>2
    <3>4. (a + 2) % r = c % r
      BY <1>2, <3>1, <3>3, SameRemainder
    <3>5. c % r = c
      BY <1>2, <3>3, SmallRemainder
    <3> QED
      BY <1>3, <3>2, <3>4, <3>5
  <2> QED
    BY <2>1, <2>2
<1>6. (b - a) % r = 2
  <2>1. 2 \in 0..(r - 1) /\ 2 % r = 2
    <3>1. 2 \in 0..(r - 1)
      BY <1>2
    <3> QED
      BY <1>2, <3>1, SmallRemainder
  <2>2. CASE b = a + 2
    <3>1. b - a = 2
      BY <1>2, <1>4, <2>2
    <3> QED
      BY <2>1, <3>1
  <2>3. CASE b = (a + 2) - r
    <3>1. b - a = 2 + r * (-1) /\ b - a \in Int /\ 2 \in Int /\ -1 \in Int
      BY <1>2, <1>4, <2>3
    <3>2. (b - a) % r = 2 % r
      BY <1>2, <3>1, SameRemainder
    <3> QED
      BY <2>1, <3>2
  <2> QED
    BY <1>5, <2>2, <2>3
<1>7. (a - b) % r = r - 2
  <2>1. r - 2 \in 0..(r - 1) /\ (r - 2) % r = r - 2
    <3>1. r - 2 \in 0..(r - 1)
      BY <1>2
    <3> QED
      BY <1>2, <3>1, SmallRemainder
  <2>2. CASE b = (a + 2) - r
    <3>1. a - b = r - 2
      BY <1>2, <1>4, <2>2
    <3> QED
      BY <2>1, <3>1
  <2>3. CASE b = a + 2
    <3>1. a - b = (r - 2) + r * (-1) /\ a - b \in Int /\ r - 2 \in Int /\ -1 \in Int
      BY <1>2, <1>4, <2>3
    <3>2. (a - b) % r = (r - 2) % r
      BY <1>2, <3>1, SameRemainder
    <3> QED
      BY <2>1, <3>2
  <2> QED
    BY <1>5, <2>2, <2>3
<1>8. (a - a) % r = 0
  <2>1. a - a = 0 /\ 0 \in 0..(r - 1)
    BY <1>2, <1>4
  <2> QED
    BY <1>2, <2>1, SmallRemainder
<1>9. r \div 2 \in Nat /\ 0 < r \div 2 /\ 2 < r \div 2 /\ r - 2 >= r \div 2
  BY <1>2
<1>10. b # a
  BY <1>2, <1>4, <1>5
<1> QED
  BY <1>1, <1>3, <1>6, <1>7, <1>8, <1>9, <1>10 DEF Path!Receiver!Before

LEMMA PathPackets ==
  ASSUME PathConstants
  PROVE  /\ Path!Total = Segments + 3
         /\ Path!Packet(1).syn /\ Path!Packet(1).len = 0
         /\ (Path!Packet(1).seq + 1) % SeqRange = NumberAt(0)
         /\ \A n \in {2, Path!Total} : ~Path!Packet(n).syn /\ Path!Packet(n).len = 0
         /\ \A n \in 3..(Path!Total - 1) :
              /\ ~Path!Packet(n).syn /\ Path!Packet(n).len = 2
              /\ Path!Packet(n).seq = NumberAt(n - 3)
              /\ Path!Receiver!SeqEnd(Path!Packet(n)) = NumberAt(n - 2)
<1>1. Path!Total = Segments + 3 /\ Path!Total \in Nat /\ Path!Total >= 3
  BY DEF Path!Total, PathConstants
<1>2. Path!Packet(1) = [syn |-> TRUE, seq |-> Isn, len |-> 0]
  BY <1>1 DEF Path!Packet
<1>3. (Isn + 1) + 2 * 0 = Isn + 1
  BY DEF PathConstants
<1>4. ASSUME NEW n \in {2, Path!Total} PROVE ~Path!Packet(n).syn /\ Path!Packet(n).len = 0
  <2>1. n # 1 /\ (n = 2 \/ n = Path!Total)
    BY <1>1
  <2>2. Path!Packet(n) = Path!Empty(0) \/ Path!Packet(n) = Path!Empty(Segments)
    BY <2>1 DEF Path!Packet
  <2> QED
    BY <2>2 DEF Path!Empty
<1>5. ASSUME NEW n \in 3..(Path!Total - 1)
      PROVE  /\ ~Path!Packet(n).syn /\ Path!Packet(n).len = 2
             /\ Path!Packet(n).seq = NumberAt(n - 3)
             /\ Path!Receiver!SeqEnd(Path!Packet(n)) = NumberAt(n - 2)
  <2>1. n # 1 /\ n # 2 /\ n # Path!Total /\ n - 3 \in Int /\ (n - 3) + 1 = n - 2
    BY <1>1
  <2>2. Path!Packet(n) = Path!Data(n - 3)
    BY <2>1 DEF Path!Packet
  <2>3. /\ ~Path!Packet(n).syn /\ Path!Packet(n).len = 2
        /\ Path!Packet(n).seq = NumberAt(n - 3)
    BY <2>2 DEF Path!Data, NumberAt
  <2>4. NumberAt(n - 2) = (NumberAt(n - 3) + 2) % SeqRange
    BY <2>1, Neighbours
  <2> QED
    BY <2>3, <2>4 DEF Path!Receiver!SeqEnd
<1> QED
  BY <1>1, <1>2, <1>3, <1>4, <1>5 DEF NumberAt

(* Of the first m packets that were sent, TCP has been given none after    *)
(* the k-th of the connection, and the data among them in order.           *)
PassedInOrder(g, w, m, k) ==
  /\ \A i \in 1..Len(w) : w[i].id \in 1..m /\ g[w[i].id].id <= k
  /\ \A i, j \in 1..Len(w) :
       /\ i < j
       /\ Path!Packet(g[w[i].id].id).len > 0 /\ Path!Packet(g[w[j].id].id).len > 0
       => g[w[i].id].id < g[w[j].id].id

(* The first m packets of the connection have come, and nothing else.      *)
InStep(g, w, m, s, h) ==
  /\ h = FALSE
  /\ m >= 1 => g[m].id <= m
  /\ m \in 1..(Path!Total - 1) => s = NumberAt(IF m <= 2 THEN 0 ELSE m - 2)
  /\ PassedInOrder(g, w, m, m)

(* The first data has overtaken the acknowledgement of the handshake.      *)
FirstEarly(g, w, m, s, h) ==
  /\ h = FALSE /\ m = 2 /\ Exchanged(g, 2) /\ s = NumberAt(1)
  /\ PassedInOrder(g, w, 2, 3)

(* The packet that has overtaken its neighbour is put aside.               *)
HoldsOne(g, w, m, s, h, n) ==
  /\ h = TRUE /\ m >= 3 /\ n = m /\ Exchanged(g, m) /\ s = NumberAt(m - 3)
  /\ PassedInOrder(g, w, m, m - 1)

Received(g, w, m, s, h, n) ==
  InStep(g, w, m, s, h) \/ FirstEarly(g, w, m, s, h) \/ HoldsOne(g, w, m, s, h, n)

ReceiverInv ==
  /\ path_rx \in Seq({Path!Packet(n) : n \in Nat}) /\ passed \in Seq(Accepts)
  /\ path_reorder \in BOOLEAN /\ path_saved \in Nat
  /\ Len(path_rx) <= Len(path_sent)
  /\ \A i \in 1..Len(path_rx) : path_rx[i] = Path!Packet(path_sent[i].id)
  /\ Received(path_sent, passed, Len(path_rx), path_next, path_reorder, path_saved)

LEMMA ReceivedLater ==
  ASSUME NEW g \in Seq(Accepts), NEW f \in Seq(Accepts), Extends(g, f),
         NEW m \in Nat, m <= Len(g), NEW w, NEW s, NEW h, NEW n, Received(g, w, m, s, h, n)
  PROVE  Received(f, w, m, s, h, n)
<1>1. /\ Len(g) \in Nat /\ Len(f) \in Nat /\ Len(g) <= Len(f)
      /\ \A i \in 1..m : i \in 1..Len(g) /\ f[i] = g[i]
  BY DEF Extends
<1>2. ASSUME NEW k, PassedInOrder(g, w, m, k) PROVE PassedInOrder(f, w, m, k)
  BY <1>1, <1>2 DEF PassedInOrder
<1>3. ASSUME NEW i \in Int, Exchanged(g, i) PROVE Exchanged(f, i)
  <2>1. i \in 1..Len(g) /\ i + 1 \in 1..Len(g) /\ i + 1 <= Len(f)
    BY <1>1, <1>3 DEF Exchanged
  <2> QED
    BY <1>3, <2>1 DEF Exchanged, Extends
<1>4. CASE InStep(g, w, m, s, h)
  <2>1. m >= 1 => m \in 1..m /\ f[m] = g[m]
    BY <1>1
  <2> QED
    BY <1>2, <1>4, <2>1 DEF InStep, Received
<1>5. CASE FirstEarly(g, w, m, s, h)
  BY <1>2, <1>3, <1>5 DEF FirstEarly, Received
<1>6. CASE HoldsOne(g, w, m, s, h, n)
  <2>1. m \in Int /\ Exchanged(g, m) /\ PassedInOrder(g, w, m, m - 1)
    BY <1>6 DEF HoldsOne
  <2>2. Exchanged(f, m) /\ PassedInOrder(f, w, m, m - 1)
    BY <1>2, <1>3, <2>1
  <2> QED
    BY <1>6, <2>2, Zenon DEF HoldsOne, Received
<1> QED
  BY <1>4, <1>5, <1>6 DEF Received

LEMMA PassedOneMore ==
  ASSUME NEW g \in Seq(Accepts), NEW w \in Seq(Accepts), NEW m \in Nat, NEW k \in Int,
         PassedInOrder(g, w, m, k), NEW l \in Nat, m <= l, l <= Len(g), NEW d \in Int, k <= d,
         NEW x \in Accepts, x.id \in 1..l, g[x.id].id <= d,
         Path!Packet(g[x.id].id).len = 0 \/ g[x.id].id > k
  PROVE  PassedInOrder(g, Append(w, x), l, d)
<1>1. PICK v, n : v = Append(w, x) /\ n = Len(w)
  OBVIOUS
<1>2. n \in Nat /\ Len(v) = n + 1 /\ v[n + 1] = x /\ \A i \in 1..n : v[i] = w[i]
  BY <1>1, AppendProperties
<1>3. \A i \in 1..(n + 1) : i \in 1..n \/ i = n + 1
  BY <1>2
<1>4. Len(g) \in Nat /\ \A i \in 1..Len(g) : g[i].id \in Nat
  <2>1. \A i \in 1..Len(g) : g[i] \in Accepts
    BY ElementOfSeq
  <2> QED
    BY <2>1 DEF Accepts
<1>5. ASSUME NEW i \in 1..n
      PROVE  v[i].id \in 1..m /\ v[i].id \in 1..l /\ g[v[i].id].id \in Nat /\ g[v[i].id].id <= k
  <2>1. w[i].id \in 1..m /\ g[w[i].id].id <= k /\ v[i] = w[i]
    BY <1>1, <1>2 DEF PassedInOrder
  <2>2. PICK c : c = w[i].id
    OBVIOUS
  <2>3. c \in 1..Len(g) /\ c \in 1..l
    BY <1>4, <2>1, <2>2
  <2> QED
    BY <1>4, <2>1, <2>2, <2>3
<1>6. ASSUME NEW i \in 1..(n + 1) PROVE v[i].id \in 1..l /\ g[v[i].id].id <= d
  <2>1. CASE i = n + 1
    BY <1>2, <2>1
  <2>2. CASE i \in 1..n
    <3>1. PICK c : c = g[v[i].id].id
      OBVIOUS
    <3>2. c \in Nat /\ c <= k /\ v[i].id \in 1..l
      BY <1>5, <2>2, <3>1
    <3> QED
      BY <3>1, <3>2
  <2> QED
    BY <1>3, <2>1, <2>2
<1>7. ASSUME NEW i \in 1..(n + 1), NEW j \in 1..(n + 1), i < j,
             Path!Packet(g[v[i].id].id).len > 0, Path!Packet(g[v[j].id].id).len > 0
      PROVE  g[v[i].id].id < g[v[j].id].id
  <2>1. i \in 1..n
    BY <1>2, <1>7
  <2>2. CASE j \in 1..n
    BY <1>1, <1>2, <1>7, <2>1, <2>2 DEF PassedInOrder
  <2>3. CASE j = n + 1
    <3>1. v[j] = x
      BY <1>2, <2>3
    <3>2. PICK a, b : a = g[v[i].id].id /\ b = g[x.id].id
      OBVIOUS
    <3>3. a \in Nat /\ a <= k
      BY <1>5, <2>1, <3>2
    <3>4. Path!Packet(b).len > 0
      BY <1>7, <3>1, <3>2
    <3>5. b > k
      BY <3>2, <3>4
    <3>6. b \in Nat
      <4>1. x.id \in 1..Len(g)
        BY <1>4
      <4> QED
        BY <1>4, <3>2, <4>1
    <3>7. a < b
      BY <3>3, <3>5, <3>6
    <3> QED
      BY <3>1, <3>2, <3>7
  <2> QED
    BY <1>3, <2>2, <2>3
<1> QED
  BY <1>1, <1>2, <1>6, <1>7, Zenon DEF PassedInOrder

LEMMA PassedLater ==
  ASSUME NEW g, NEW w, NEW m \in Nat, NEW k, PassedInOrder(g, w, m, k), NEW l \in Nat, m <= l
  PROVE  PassedInOrder(g, w, l, k)
<1>1. \A i \in 1..m : i \in 1..l
  OBVIOUS
<1> QED
  BY <1>1 DEF PassedInOrder

(* What the receiver's handler does with the m-th packet sent, p: a SYN,   *)
(* an empty packet or data that is due goes to TCP, data that is ahead is  *)
(* put aside, and data that is due before what was put aside goes first.   *)
InFront(p, q) ==
  /\ Path!Receiver!Before(p.seq, q.seq)
  /\ Path!Receiver!Before(Path!Receiver!SeqEnd(p), Path!Receiver!SeqEnd(q))

Handles(p, m, w, s, h, n, held, x, y, w2, s2, h2, n2) ==
  /\ p.syn => w2 = Append(w, x) /\ s2 = (p.seq + 1) % SeqRange /\ h2 = FALSE
  /\ ~p.syn /\ p.len = 0 /\ h = FALSE => w2 = Append(w, x) /\ s2 = s /\ h2 = FALSE
  /\ ~p.syn /\ p.len > 0 /\ ~Path!Receiver!Before(p.seq, s) =>
       /\ h = FALSE /\ p.seq = s
            => w2 = Append(w, x) /\ s2 = Path!Receiver!SeqEnd(p) /\ h2 = FALSE
       /\ h = FALSE /\ p.seq # s => w2 = w /\ s2 = s /\ h2 = TRUE /\ n2 = m
       /\ h = TRUE /\ InFront(p, held)
            => w2 = Append(Append(w, x), y) /\ s2 = Path!Receiver!SeqEnd(held) /\ h2 = FALSE

LEMMA DeliverHandles ==
  ASSUME ReceiverInv, NEW p, Path!Receiver!reorder_queue_enqueue_packet(p)
  PROVE  Handles(p, Len(path_rx) + 1, passed, path_next, path_reorder, path_saved,
                 path_rx[path_saved], Path!Receiver!Accept(Len(path_rx) + 1),
                 Path!Receiver!Accept(path_saved), passed', path_next', path_reorder', path_saved')
<1>1. /\ passed \in Seq(Accepts) /\ path_reorder \in BOOLEAN /\ path_saved \in Nat
      /\ Len(path_rx) \in Nat
  BY LenProperties DEF ReceiverInv
<1>2. PICK x, y : /\ x = Path!Receiver!Accept(Len(path_rx) + 1)
                  /\ y = Path!Receiver!Accept(path_saved)
  OBVIOUS
<1>3. x \in Accepts /\ y \in Accepts
  BY <1>1, <1>2 DEF Path!Receiver!Accept, Accepts
<1>4. passed \o <<x, y>> = Append(Append(passed, x), y)
  BY <1>1, <1>3
<1>5. Path!Receiver!This = Len(path_rx) + 1 /\ Path!Receiver!saved = path_rx[path_saved]
  BY DEF Path!Receiver!This, Path!Receiver!saved
<1>6. /\ p.syn => Path!Receiver!EnqueueSyn(p)
      /\ ~p.syn /\ p.len = 0 => Path!Receiver!EnqueueEmpty(p)
      /\ ~p.syn /\ p.len > 0 /\ ~Path!Receiver!Before(p.seq, path_next) =>
           /\ path_reorder = FALSE /\ p.seq = path_next => Path!Receiver!EnqueueNext(p)
           /\ path_reorder = FALSE /\ p.seq # path_next => Path!Receiver!EnqueueSave(p)
           /\ path_reorder = TRUE => Path!Receiver!EnqueuePair(p)
  <2>1. \/ Path!Receiver!EnqueueSyn(p) \/ Path!Receiver!EnqueueEmpty(p)
        \/ Path!Receiver!EnqueueOld(p) \/ Path!Receiver!EnqueueNext(p)
        \/ Path!Receiver!EnqueueSave(p) \/ Path!Receiver!EnqueuePair(p)
    BY DEF Path!Receiver!reorder_queue_enqueue_packet
  <2>2. ~(p.len = 0 /\ p.len > 0)
    OBVIOUS
  <2>3. /\ Path!Receiver!EnqueueSyn(p) => p.syn
        /\ Path!Receiver!EnqueueEmpty(p) => ~p.syn /\ p.len = 0
        /\ Path!Receiver!EnqueueOld(p) => /\ ~p.syn /\ p.len > 0
                                         /\ Path!Receiver!Before(p.seq, path_next)
        /\ Path!Receiver!EnqueueNext(p)
             => ~p.syn /\ p.len > 0 /\ path_reorder = FALSE /\ p.seq = path_next
        /\ Path!Receiver!EnqueueSave(p)
             => ~p.syn /\ p.len > 0 /\ path_reorder = FALSE /\ p.seq # path_next
        /\ Path!Receiver!EnqueuePair(p) => ~p.syn /\ p.len > 0 /\ path_reorder = TRUE
    BY <1>1 DEF Path!Receiver!EnqueueSyn, Path!Receiver!EnqueueEmpty, Path!Receiver!EnqueueOld,
                Path!Receiver!EnqueueNext, Path!Receiver!EnqueueSave, Path!Receiver!EnqueuePair,
                Path!Receiver!IsNew
  <2>4. ~(path_reorder = TRUE /\ path_reorder = FALSE)
    OBVIOUS
  <2> QED
    BY <2>1, <2>2, <2>3, <2>4, Zenon
<1>7. p.syn => passed' = Append(passed, x) /\ path_next' = (p.seq + 1) % SeqRange
               /\ path_reorder' = FALSE
  BY <1>2, <1>5, <1>6 DEF Path!Receiver!EnqueueSyn
<1>8. ~p.syn /\ p.len = 0 /\ path_reorder = FALSE
        => passed' = Append(passed, x) /\ path_next' = path_next /\ path_reorder' = FALSE
  BY <1>2, <1>5, <1>6 DEF Path!Receiver!EnqueueEmpty
<1>9. ASSUME ~p.syn, p.len > 0, ~Path!Receiver!Before(p.seq, path_next)
      PROVE  /\ path_reorder = FALSE /\ p.seq = path_next
                  => /\ passed' = Append(passed, x) /\ path_next' = Path!Receiver!SeqEnd(p)
                     /\ path_reorder' = FALSE
             /\ path_reorder = FALSE /\ p.seq # path_next
                  => /\ passed' = passed /\ path_next' = path_next
                     /\ path_reorder' = TRUE /\ path_saved' = Len(path_rx) + 1
             /\ path_reorder = TRUE /\ InFront(p, path_rx[path_saved])
                  => /\ passed' = Append(Append(passed, x), y)
                     /\ path_next' = Path!Receiver!SeqEnd(path_rx[path_saved])
                     /\ path_reorder' = FALSE
  <2>1. path_reorder = FALSE /\ p.seq = path_next
          => /\ passed' = Append(passed, x) /\ path_next' = Path!Receiver!SeqEnd(p)
             /\ path_reorder' = FALSE
    BY <1>2, <1>5, <1>6, <1>9 DEF Path!Receiver!EnqueueNext
  <2>2. path_reorder = FALSE /\ p.seq # path_next
          => /\ passed' = passed /\ path_next' = path_next
             /\ path_reorder' = TRUE /\ path_saved' = Len(path_rx) + 1
    BY <1>2, <1>5, <1>6, <1>9 DEF Path!Receiver!EnqueueSave
  <2>3. path_reorder = TRUE /\ InFront(p, path_rx[path_saved])
          => /\ passed' = Append(Append(passed, x), y)
             /\ path_next' = Path!Receiver!SeqEnd(path_rx[path_saved])
             /\ path_reorder' = FALSE
    <3>1. SUFFICES ASSUME path_reorder = TRUE, InFront(p, path_rx[path_saved])
                   PROVE  /\ passed' = Append(Append(passed, x), y)
                          /\ path_next' = Path!Receiver!SeqEnd(path_rx[path_saved])
                          /\ path_reorder' = FALSE
      OBVIOUS
    <3>2. Path!Receiver!EnqueuePair(p) /\ Path!Receiver!saved = path_rx[path_saved]
      BY <1>5, <1>6, <1>9, <3>1
    <3>3. path_next' = Path!Receiver!SeqEnd(path_rx[path_saved]) /\ path_reorder' = FALSE
      BY <3>1, <3>2 DEF Path!Receiver!EnqueuePair, InFront
    <3>4. passed' = passed \o <<x, y>>
      BY <1>2, <1>5, <3>1, <3>2 DEF Path!Receiver!EnqueuePair, InFront
    <3> QED
      BY <1>4, <3>3, <3>4
  <2> QED
    BY <2>1, <2>2, <2>3, Zenon
<1> QED
  BY <1>2, <1>7, <1>8, <1>9, Zenon DEF Handles

LEMMA InStepOn ==
  ASSUME PathConstants, NEW g \in Seq(Accepts), NEW w \in Seq(Accepts), NEW m \in Nat,
         m < Len(g), Len(g) <= Path!Total, NEW s, NEW h, NEW n, InStep(g, w, m, s, h),
         NEW p, p = Path!Packet(g[m + 1].id), g[m + 1].id = m + 1,
         NEW x \in Accepts, x.id = m + 1, NEW held, NEW y, NEW w2, NEW s2, NEW h2, NEW n2,
         Handles(p, m + 1, w, s, h, n, held, x, y, w2, s2, h2, n2)
  PROVE  InStep(g, w2, m + 1, s2, h2) /\ w2 \in Seq(Accepts)
<1>1. /\ Path!Total = Segments + 3 /\ Segments \in Nat /\ Len(g) \in Nat /\ m + 1 \in Nat
      /\ m + 1 <= Path!Total /\ (m + 1) - 1 = m
  BY PathPackets DEF PathConstants
<1>2. h = FALSE /\ PassedInOrder(g, w, m, m)
  BY DEF InStep
<1>3. PassedInOrder(g, Append(w, x), m + 1, m + 1) /\ Append(w, x) \in Seq(Accepts)
  <2>1. /\ m + 1 \in Nat /\ m <= m + 1 /\ m + 1 <= Len(g) /\ m + 1 \in Int /\ m \in Int
        /\ x.id \in 1..(m + 1) /\ g[x.id].id <= m + 1 /\ g[x.id].id > m
    BY <1>1
  <2>2. PassedInOrder(g, Append(w, x), m + 1, m + 1)
    BY <1>2, <2>1, PassedOneMore
  <2> QED
    BY <2>2
<1>4. SUFFICES /\ w2 = Append(w, x) /\ h2 = FALSE
               /\ m + 1 \in 1..(Path!Total - 1)
                    => s2 = NumberAt(IF m + 1 <= 2 THEN 0 ELSE (m + 1) - 2)
  BY <1>1, <1>3 DEF InStep
<1>5. CASE m = 0
  <2>1. p.syn /\ (p.seq + 1) % SeqRange = NumberAt(0) /\ m + 1 <= 2
    BY <1>5, PathPackets
  <2> QED
    BY <2>1 DEF Handles
<1>6. CASE m = 1 \/ m + 1 = Path!Total
  <2>1. m + 1 \in {2, Path!Total}
    BY <1>6
  <2>2. ~p.syn /\ p.len = 0
    BY <2>1, PathPackets
  <2>3. w2 = Append(w, x) /\ h2 = FALSE /\ s2 = s
    BY <1>2, <2>2 DEF Handles
  <2>4. m + 1 \in 1..(Path!Total - 1) => m = 1 /\ m \in 1..(Path!Total - 1)
    <3>1. PICK z : z = Path!Total
      OBVIOUS
    <3>2. z \in Nat /\ z >= 3
      BY <1>1, <3>1
    <3>3. m + 1 \in 1..(z - 1) => m = 1 /\ m \in 1..(z - 1)
      BY <1>6, <3>1, <3>2
    <3> QED
      BY <3>1, <3>3
  <2> QED
    BY <2>3, <2>4 DEF InStep
<1>7. CASE m >= 2 /\ m + 1 # Path!Total
  <2>1. m + 1 \in 3..(Path!Total - 1) /\ m \in 1..(Path!Total - 1) /\ m >= 2
    BY <1>1, <1>7
  <2>2. /\ ~p.syn /\ p.len = 2 /\ p.seq = NumberAt((m + 1) - 3)
        /\ Path!Receiver!SeqEnd(p) = NumberAt((m + 1) - 2)
    BY <2>1, PathPackets
  <2>3. s = NumberAt((m + 1) - 3)
    <3>1. s = NumberAt(IF m <= 2 THEN 0 ELSE m - 2)
      BY <2>1 DEF InStep
    <3>2. (IF m <= 2 THEN 0 ELSE m - 2) = (m + 1) - 3
      BY <2>1
    <3> QED
      BY <3>1, <3>2
  <2>4. ~Path!Receiver!Before(p.seq, s) /\ p.len > 0 /\ p.seq = s
    <3>1. PICK k : k = (m + 1) - 3
      OBVIOUS
    <3>2. k \in Int /\ p.seq = NumberAt(k) /\ s = NumberAt(k)
      BY <2>2, <2>3, <3>1
    <3>3. ~Path!Receiver!Before(NumberAt(k), NumberAt(k))
      BY <3>2, Neighbours
    <3> QED
      BY <2>2, <3>2, <3>3
  <2>5. w2 = Append(w, x) /\ h2 = FALSE /\ s2 = NumberAt((m + 1) - 2)
    BY <1>2, <2>2, <2>4 DEF Handles
  <2>6. ~(m + 1 <= 2)
    BY <2>1
  <2> QED
    BY <2>5, <2>6
<1>8. m = 0 \/ m = 1 \/ m >= 2
  OBVIOUS
<1> QED
  BY <1>5, <1>6, <1>7, <1>8, Zenon

LEMMA GetsAhead ==
  ASSUME PathConstants, NEW g \in Seq(Accepts), NEW w \in Seq(Accepts), NEW m \in Nat,
         m < Len(g), Len(g) <= Path!Total, NEW s, NEW h, NEW n, InStep(g, w, m, s, h),
         Exchanged(g, m + 1), NEW p, p = Path!Packet(g[m + 1].id),
         NEW x \in Accepts, x.id = m + 1, NEW held, NEW y, NEW w2, NEW s2, NEW h2, NEW n2,
         Handles(p, m + 1, w, s, h, n, held, x, y, w2, s2, h2, n2)
  PROVE  /\ FirstEarly(g, w2, m + 1, s2, h2) \/ HoldsOne(g, w2, m + 1, s2, h2, n2)
         /\ w2 \in Seq(Accepts)
<1>1. /\ Path!Total = Segments + 3 /\ Segments \in Nat /\ Len(g) \in Nat
      /\ m + 1 >= 2 /\ (m + 1) + 1 <= Len(g) /\ (m + 1) + 2 <= Path!Total
      /\ g[m + 1].id = (m + 1) + 1
  BY PathPackets DEF PathConstants, Exchanged
<1>2. h = FALSE /\ PassedInOrder(g, w, m, m)
  BY DEF InStep
<1>3. g[m + 1].id = m + 2 /\ m + 2 \in 3..(Path!Total - 1) /\ m \in 1..(Path!Total - 1)
  BY <1>1
<1>4. /\ ~p.syn /\ p.len = 2 /\ p.seq = NumberAt((m + 2) - 3)
      /\ Path!Receiver!SeqEnd(p) = NumberAt((m + 2) - 2)
  BY <1>3, PathPackets
<1>5. s = NumberAt(IF m <= 2 THEN 0 ELSE m - 2)
  BY <1>3 DEF InStep
<1>6. p.len > 0
  BY <1>4
<1>7. CASE m = 1
  <2>1. (m + 2) - 3 = 0 /\ (m + 2) - 2 = 1 /\ m <= 2 /\ m + 1 = 2 /\ 0 \in Int
    BY <1>7
  <2>2. p.seq = s /\ ~Path!Receiver!Before(p.seq, s) /\ Path!Receiver!SeqEnd(p) = NumberAt(1)
    BY <1>4, <1>5, <2>1, Neighbours
  <2>3. w2 = Append(w, x) /\ h2 = FALSE /\ s2 = NumberAt(1)
    BY <1>2, <1>4, <1>6, <2>2 DEF Handles
  <2>4. PassedInOrder(g, Append(w, x), 2, 3) /\ Append(w, x) \in Seq(Accepts)
    <3>1. /\ PassedInOrder(g, w, 1, 1) /\ x.id \in 1..2 /\ x.id = 2 /\ g[x.id].id = 3
          /\ 2 <= Len(g)
      BY <1>1, <1>2, <1>3, <1>7
    <3>2. PassedInOrder(g, Append(w, x), 2, 3)
      BY <3>1, PassedOneMore
    <3> QED
      BY <3>2
  <2>5. Exchanged(g, 2)
    BY <2>1
  <2> QED
    BY <2>1, <2>3, <2>4, <2>5 DEF FirstEarly
<1>8. CASE m >= 2
  <2>1. /\ (IF m <= 2 THEN 0 ELSE m - 2) = m - 2 /\ (m + 2) - 3 = (m - 2) + 1
        /\ m - 2 \in Int /\ m + 1 >= 3 /\ (m + 1) - 3 = m - 2 /\ (m + 1) - 1 = m
    BY <1>8
  <2>2. s = NumberAt(m - 2) /\ p.seq = NumberAt((m - 2) + 1)
    BY <1>4, <1>5, <2>1
  <2>3. p.seq # s /\ ~Path!Receiver!Before(p.seq, s)
    BY <2>1, <2>2, Neighbours
  <2>4. w2 = w /\ s2 = s /\ h2 = TRUE /\ n2 = m + 1
    BY <1>2, <1>4, <1>6, <2>3 DEF Handles
  <2>5. PassedInOrder(g, w, m + 1, m)
    <3>1. m + 1 \in Nat /\ m <= m + 1
      OBVIOUS
    <3> QED
      BY <1>2, <3>1, PassedLater
  <2> QED
    BY <2>1, <2>2, <2>4, <2>5 DEF HoldsOne
<1> QED
  BY <1>3, <1>7, <1>8

LEMMA CatchesUp ==
  ASSUME PathConstants, NEW g \in Seq(Accepts), NEW w \in Seq(Accepts), NEW m \in Nat,
         m < Len(g), Len(g) <= Path!Total, NEW s, NEW h, NEW n,
         FirstEarly(g, w, m, s, h) \/ HoldsOne(g, w, m, s, h, n),
         NEW p, p = Path!Packet(g[m + 1].id),
         NEW x \in Accepts, x.id = m + 1, NEW y \in Accepts, y.id = n,
         NEW held, h = TRUE => held = Path!Packet(g[n].id), NEW w2, NEW s2, NEW h2, NEW n2,
         Handles(p, m + 1, w, s, h, n, held, x, y, w2, s2, h2, n2)
  PROVE  InStep(g, w2, m + 1, s2, h2) /\ w2 \in Seq(Accepts)
<1>1. /\ Path!Total = Segments + 3 /\ Segments \in Nat /\ Len(g) \in Nat
  BY PathPackets DEF PathConstants
<1>2. CASE FirstEarly(g, w, m, s, h)
  <2>1. /\ h = FALSE /\ m = 2 /\ m + 1 = 3 /\ g[3].id = 2 /\ 4 <= Path!Total /\ s = NumberAt(1)
        /\ PassedInOrder(g, w, 2, 3) /\ 3 <= Len(g)
    BY <1>1, <1>2 DEF FirstEarly, Exchanged
  <2>2. ~p.syn /\ p.len = 0 /\ Path!Packet(2).len = 0
    BY <2>1, PathPackets
  <2>3. w2 = Append(w, x) /\ s2 = s /\ h2 = FALSE
    BY <2>1, <2>2 DEF Handles
  <2>4. PassedInOrder(g, Append(w, x), 3, 3) /\ Append(w, x) \in Seq(Accepts)
    <3>1. x.id \in 1..3 /\ x.id = 3 /\ g[x.id].id = 2 /\ g[x.id].id <= 3
      BY <2>1
    <3>2. PassedInOrder(g, Append(w, x), 3, 3)
      BY <2>1, <2>2, <3>1, PassedOneMore
    <3> QED
      BY <3>2
  <2>5. ~(3 <= 2) /\ 3 - 2 = 1 /\ g[3].id <= 3
    BY <2>1
  <2> QED
    BY <2>1, <2>3, <2>4, <2>5 DEF InStep
<1>3. CASE HoldsOne(g, w, m, s, h, n)
  <2>1. /\ h = TRUE /\ m >= 3 /\ n = m /\ s = NumberAt(m - 3) /\ PassedInOrder(g, w, m, m - 1)
        /\ g[m].id = m + 1 /\ g[m + 1].id = m /\ m + 1 <= Len(g) /\ m + 2 <= Path!Total
    BY <1>3 DEF HoldsOne, Exchanged
  <2>2. m \in 3..(Path!Total - 1) /\ m + 1 \in 3..(Path!Total - 1)
    BY <1>1, <2>1
  <2>3. /\ ~p.syn /\ p.len = 2 /\ p.seq = NumberAt(m - 3)
        /\ Path!Receiver!SeqEnd(p) = NumberAt(m - 2)
        /\ held.seq = NumberAt((m + 1) - 3) /\ Path!Receiver!SeqEnd(held) = NumberAt((m + 1) - 2)
    BY <2>1, <2>2, PathPackets
  <2>4. /\ m - 3 \in Int /\ m - 2 \in Int /\ (m + 1) - 3 = (m - 3) + 1
        /\ (m + 1) - 2 = (m - 2) + 1 /\ p.len > 0
    BY <2>3
  <2>5. ~Path!Receiver!Before(p.seq, s) /\ InFront(p, held)
    <3>1. ~Path!Receiver!Before(p.seq, s)
      BY <2>1, <2>3, <2>4, Neighbours
    <3>2. /\ Path!Receiver!Before(NumberAt(m - 3), NumberAt((m - 3) + 1))
          /\ Path!Receiver!Before(NumberAt(m - 2), NumberAt((m - 2) + 1))
      BY <2>4, Neighbours
    <3> QED
      BY <2>3, <2>4, <3>1, <3>2 DEF InFront
  <2>6. /\ w2 = Append(Append(w, x), y) /\ s2 = NumberAt((m + 1) - 2) /\ h2 = FALSE
    BY <2>1, <2>3, <2>4, <2>5 DEF Handles
  <2>7. PICK v : v = Append(w, x)
    OBVIOUS
  <2>8. PassedInOrder(g, v, m + 1, m) /\ v \in Seq(Accepts)
    <3>1. /\ m + 1 \in Nat /\ m <= m + 1 /\ m + 1 <= Len(g) /\ m - 1 \in Int /\ m \in Int
          /\ m - 1 <= m /\ x.id \in 1..(m + 1) /\ g[x.id].id <= m /\ g[x.id].id > m - 1
      BY <2>1
    <3>2. PassedInOrder(g, Append(w, x), m + 1, m)
      BY <2>1, <3>1, PassedOneMore
    <3> QED
      BY <2>7, <3>2
  <2>9. PassedInOrder(g, Append(v, y), m + 1, m + 1) /\ Append(v, y) \in Seq(Accepts)
    <3>1. /\ m + 1 \in Nat /\ m + 1 <= m + 1 /\ m + 1 <= Len(g) /\ m + 1 \in Int /\ m \in Int
          /\ m <= m + 1 /\ y.id \in 1..(m + 1) /\ g[y.id].id <= m + 1 /\ g[y.id].id > m
      BY <2>1
    <3>2. PassedInOrder(g, Append(v, y), m + 1, m + 1)
      BY <2>8, <3>1, PassedOneMore
    <3> QED
      BY <2>8, <3>2
  <2>10. ~(m + 1 <= 2) /\ g[m + 1].id <= m + 1 /\ w2 = Append(v, y)
    BY <2>1, <2>6, <2>7
  <2> QED
    BY <2>6, <2>9, <2>10 DEF InStep
<1> QED
  BY <1>2, <1>3

LEMMA DeliverReceives ==
  ASSUME PathConstants, SenderInv, ReceiverInv, Path!Deliver
  PROVE  ReceiverInv'
<1>1. PICK g, w, m, s, h, n, p, x, y, held :
        /\ g = path_sent /\ w = passed /\ m = Len(path_rx) /\ s = path_next
        /\ h = path_reorder /\ n = path_saved /\ p = Path!Packet(path_sent[Len(path_rx) + 1].id)
        /\ x = Path!Receiver!Accept(Len(path_rx) + 1) /\ y = Path!Receiver!Accept(path_saved)
        /\ held = path_rx[path_saved]
  OBVIOUS
<1>2. /\ g \in Seq(Accepts) /\ w \in Seq(Accepts) /\ m \in Nat /\ m < Len(g) /\ Len(g) \in Nat
      /\ Len(g) <= Path!Total /\ SentInOrder(g) /\ n \in Nat /\ Received(g, w, m, s, h, n)
      /\ path_rx \in Seq({Path!Packet(k) : k \in Nat}) /\ path_sent' = g
      /\ \A i \in 1..m : path_rx[i] = Path!Packet(g[i].id)
  <2>1. /\ path_sent \in Seq(Accepts) /\ SentInOrder(path_sent)
        /\ path_tx \in Seq(BOOLEAN) /\ Len(path_tx) <= Path!Total
        /\ Len(path_sent) = Len(path_tx) \/ Len(path_sent) = Len(path_tx) - 1
    BY DEF SenderInv
  <2>2. Len(path_tx) \in Nat /\ Len(path_sent) \in Nat /\ Path!Total \in Nat
    BY <2>1, LenProperties DEF Path!Total, PathConstants
  <2>3. Len(path_sent) <= Path!Total
    BY <2>1, <2>2
  <2>4. Len(path_rx) \in Nat
    BY LenProperties DEF ReceiverInv
  <2>5. Len(path_rx) < Len(path_sent) /\ path_sent' = path_sent
    BY DEF Path!Deliver, Path!sender_vars
  <2> QED
    BY <1>1, <2>1, <2>2, <2>3, <2>4, <2>5 DEF ReceiverInv
<1>3. x \in Accepts /\ x.id = m + 1 /\ y \in Accepts /\ y.id = n
  BY <1>1, <1>2 DEF Path!Receiver!Accept, Accepts
<1>4. m + 1 \in 1..Len(g) /\ g[m + 1].id \in Nat
  <2>1. m + 1 \in 1..Len(g)
    BY <1>2
  <2>2. g[m + 1] \in Accepts
    BY <1>2, <2>1, ElementOfSeq
  <2> QED
    BY <2>1, <2>2 DEF Accepts
<1>5. /\ path_rx' \in Seq({Path!Packet(k) : k \in Nat}) /\ Len(path_rx') = m + 1
      /\ \A i \in 1..(m + 1) : path_rx'[i] = Path!Packet(g[i].id)
  <2>1. path_rx' = Append(path_rx, p)
    BY <1>1 DEF Path!Deliver, Path!Receiver!reorder_queue_enqueue_packet
  <2>2. p \in {Path!Packet(k) : k \in Nat}
    BY <1>1, <1>4
  <2>3. /\ Append(path_rx, p) \in Seq({Path!Packet(k) : k \in Nat})
        /\ Len(Append(path_rx, p)) = m + 1 /\ Append(path_rx, p)[m + 1] = p
        /\ \A i \in 1..m : Append(path_rx, p)[i] = path_rx[i]
    BY <1>1, <1>2, <2>2, AppendProperties
  <2>4. \A i \in 1..(m + 1) : i \in 1..m \/ i = m + 1
    BY <1>2
  <2> QED
    BY <1>1, <1>2, <2>1, <2>3, <2>4
<1>6. Handles(p, m + 1, w, s, h, n, held, x, y, passed', path_next', path_reorder', path_saved')
  BY <1>1, DeliverHandles DEF Path!Deliver
<1>7. path_reorder' \in BOOLEAN /\ path_saved' \in Nat
  <2>1. /\ path_reorder' = path_reorder \/ path_reorder' = TRUE \/ path_reorder' = FALSE
        /\ path_saved' = path_saved \/ path_saved' = Path!Receiver!This
    BY DEF Path!Deliver, Path!Receiver!reorder_queue_enqueue_packet, Path!Receiver!EnqueueSyn,
           Path!Receiver!EnqueueEmpty, Path!Receiver!EnqueueOld, Path!Receiver!EnqueueNext,
           Path!Receiver!EnqueueSave, Path!Receiver!EnqueuePair
  <2>2. path_reorder \in BOOLEAN /\ Path!Receiver!This \in Nat
    BY <1>1, <1>2 DEF ReceiverInv, Path!Receiver!This
  <2> QED
    BY <1>1, <1>2, <2>1, <2>2
<1>8. p = Path!Packet(g[m + 1].id)
  BY <1>1
<1>9. Received(g, passed', m + 1, path_next', path_reorder', path_saved') /\ passed' \in Seq(Accepts)
  <2>1. PICK w2, s2, h2, n2 : /\ w2 = passed' /\ s2 = path_next' /\ h2 = path_reorder'
                              /\ n2 = path_saved'
    OBVIOUS
  <2>2. Handles(p, m + 1, w, s, h, n, held, x, y, w2, s2, h2, n2)
    BY <1>6, <2>1
  <2>3. CASE InStep(g, w, m, s, h)
    <3>1. ~Exchanged(g, (m + 1) - 1)
      <4>1. (m + 1) - 1 = m /\ (m >= 1 => g[m].id <= m)
        BY <1>2, <2>3 DEF InStep
      <4> QED
        BY <1>2, <4>1 DEF Exchanged
    <3>2. g[m + 1].id = m + 1 \/ Exchanged(g, m + 1)
      BY <1>2, <1>4, <3>1 DEF SentInOrder
    <3>3. CASE g[m + 1].id = m + 1
      <4>1. InStep(g, w2, m + 1, s2, h2) /\ w2 \in Seq(Accepts)
        BY <1>2, <1>3, <1>8, <2>2, <2>3, <3>3, InStepOn
      <4> QED
        BY <2>1, <4>1 DEF Received
    <3>4. CASE Exchanged(g, m + 1)
      <4>1. /\ FirstEarly(g, w2, m + 1, s2, h2) \/ HoldsOne(g, w2, m + 1, s2, h2, n2)
            /\ w2 \in Seq(Accepts)
        BY <1>2, <1>3, <1>8, <2>2, <2>3, <3>4, GetsAhead
      <4> QED
        BY <2>1, <4>1 DEF Received
    <3> QED
      BY <3>2, <3>3, <3>4
  <2>4. CASE FirstEarly(g, w, m, s, h) \/ HoldsOne(g, w, m, s, h, n)
    <3>1. h = TRUE => held = Path!Packet(g[n].id)
      <4>1. h = TRUE => n = m /\ m \in 1..m
        BY <1>2, <2>4 DEF FirstEarly, HoldsOne
      <4> QED
        BY <1>1, <1>2, <4>1
    <3>2. InStep(g, w2, m + 1, s2, h2) /\ w2 \in Seq(Accepts)
      BY <1>2, <1>3, <1>8, <2>2, <2>4, <3>1, CatchesUp
    <3> QED
      BY <2>1, <3>2 DEF Received
  <2> QED
    BY <1>2, <2>3, <2>4 DEF Received
<1>10. m + 1 <= Len(g)
  BY <1>4
<1> QED
  BY <1>2, <1>5, <1>7, <1>9, <1>10 DEF ReceiverInv

(* Both handlers together: the receiver's handler undoes what the sender's *)
(* handler does to the order, for any number of segments, also if the      *)
(* data goes around the sequence space many times.                         *)
THEOREM EndToEndOrderCorrect ==
  ASSUME PathConstants
  PROVE  Spec => []EndToEndOrder
<1>1. Init => SenderInv /\ ReceiverInv
  <2>1. SUFFICES ASSUME Init PROVE SenderInv /\ ReceiverInv
    OBVIOUS
  <2>2. Path!Sender!Init /\ Path!Receiver!Init
    BY <2>1 DEF Init, Path!Init
  <2>3. /\ path_tx = <<>> /\ path_sent = <<>> /\ aside = 0
        /\ path_rx = <<>> /\ passed = <<>> /\ path_reorder = FALSE /\ path_saved = 0
    BY <2>2 DEF Path!Sender!Init, Path!Receiver!Init
  <2>4. SenderInv
    <3>1. Path!Total \in Nat
      BY DEF Path!Total, PathConstants
    <3>2. /\ path_tx \in Seq(BOOLEAN) /\ Len(path_tx) = 0
          /\ path_sent \in Seq(Accepts) /\ Len(path_sent) = 0
      BY <2>3
    <3>3. SentInOrder(path_sent)
      BY <3>2 DEF SentInOrder
    <3> QED
      BY <2>3, <3>1, <3>2, <3>3 DEF SenderInv
  <2>5. ReceiverInv
    <3>1. /\ path_rx \in Seq({Path!Packet(n) : n \in Nat}) /\ Len(path_rx) = 0
          /\ passed \in Seq(Accepts) /\ Len(passed) = 0 /\ Len(path_sent) = 0
      BY <2>3
    <3>2. PassedInOrder(path_sent, passed, 0, 0)
      BY <3>1 DEF PassedInOrder
    <3>3. InStep(path_sent, passed, 0, path_next, path_reorder)
      BY <2>3, <3>2 DEF InStep
    <3>4. Received(path_sent, passed, Len(path_rx), path_next, path_reorder, path_saved)
      BY <3>1, <3>3 DEF Received
    <3>5. path_reorder \in BOOLEAN /\ path_saved \in Nat
      BY <2>3
    <3> QED
      BY <3>1, <3>4, <3>5 DEF ReceiverInv
  <2> QED
    BY <2>4, <2>5
<1>2. SenderInv /\ ReceiverInv /\ [Next]_vars => (SenderInv /\ ReceiverInv)'
  <2>1. SUFFICES ASSUME SenderInv, ReceiverInv, [Next]_vars PROVE (SenderInv /\ ReceiverInv)'
    OBVIOUS
  <2>2. CASE UNCHANGED path_vars
    BY <2>1, <2>2 DEF path_vars, SenderInv, ReceiverInv
  <2>3. CASE Path!Transmit
    <3>1. SenderInv' /\ Extends(path_sent, path_sent')
      BY <2>1, <2>3, TransmitSends DEF PathConstants
    <3>2. /\ path_rx' = path_rx /\ passed' = passed /\ path_next' = path_next
          /\ path_saved' = path_saved /\ path_reorder' = path_reorder
      BY <2>3 DEF Path!Transmit, Path!receiver_vars
    <3>3. PICK g, f, m : g = path_sent /\ f = path_sent' /\ m = Len(path_rx)
      OBVIOUS
    <3>4. /\ g \in Seq(Accepts) /\ f \in Seq(Accepts) /\ Extends(g, f) /\ m \in Nat
          /\ m <= Len(g) /\ Len(g) \in Nat /\ Len(f) \in Nat
      BY <2>1, <3>1, <3>3, LenProperties DEF SenderInv, ReceiverInv
    <3>5. Received(f, passed, m, path_next, path_reorder, path_saved)
      BY <2>1, <3>3, <3>4, ReceivedLater DEF ReceiverInv
    <3>6. m <= Len(f) /\ \A i \in 1..m : f[i] = g[i]
      BY <3>4 DEF Extends
    <3>7. \A i \in 1..m : path_rx[i] = Path!Packet(f[i].id)
      BY <2>1, <3>3, <3>6 DEF ReceiverInv
    <3>8. ReceiverInv'
      BY <2>1, <3>2, <3>3, <3>5, <3>6, <3>7 DEF ReceiverInv
    <3> QED
      BY <3>1, <3>8
  <2>4. CASE Path!Deliver
    <3>1. SenderInv'
      BY <2>1, <2>4 DEF Path!Deliver, Path!sender_vars, SenderInv
    <3> QED
      BY <2>1, <2>4, <3>1, DeliverReceives
  <2> QED
    BY <2>1, <2>2, <2>3, <2>4
       DEF Next, vars, DupackStep, PairStep, SwapStep, RaceStep, DropStep, PathTransmit, PathDeliver
<1>3. SenderInv /\ ReceiverInv => EndToEndOrder
  <2>1. SUFFICES ASSUME ReceiverInv,
                        NEW i \in 1..Len(passed), NEW j \in 1..Len(passed), i < j,
                        Path!Packet(Path!PassedPacket(i)).len > 0,
                        Path!Packet(Path!PassedPacket(j)).len > 0
                 PROVE  Path!PassedPacket(i) < Path!PassedPacket(j)
    BY DEF EndToEndOrder, Path!EndToEndOrder
  <2>2. \E m, k : PassedInOrder(path_sent, passed, m, k)
    BY <2>1 DEF ReceiverInv, Received, InStep, FirstEarly, HoldsOne
  <2> QED
    BY <2>1, <2>2 DEF PassedInOrder, Path!PassedPacket
<1> QED
  BY <1>1, <1>2, <1>3, PTL DEF Spec
=============================================================================
