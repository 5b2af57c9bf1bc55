------------------------- MODULE VideoBufferProofs -------------------------
(***************************************************************************)
(* Proofs about VideoBuffer, for every size of the buffer, every window,   *)
(* every width of the sequence numbers and every number of sessions and    *)
(* messages: the count of free places is right, there is always one, and   *)
(* the pictures are shown in order.                                        *)
(***************************************************************************)
EXTENDS VideoBuffer, SeqNbProofs, SequenceTheorems, FiniteSetTheorems,
        WellFoundedInduction

Buffers == [place : [Places -> FeedMessages \cup {Empty}], free : 0 .. NB_CACHED_MESSAGES]

Counted(b) == b.free = Cardinality(Places \ Occupied(b))

\* The states in which there is a message in hand, and where there is none.
StatesOK ==
    /\ session > 0 => first \in LiveSeqNbs /\ next \in LiveSeqNbs
    /\ sys = "SessionReady" => session > 0 /\ watching = session /\ expected \in LiveSeqNbs
    /\ feedState = "MESS_idle" => rcv = NoMessage
    /\ feedState # "MESS_idle" => sys = "SessionReady" /\ rcv \in FeedMessages

TypeInv == TypeOK /\ StatesOK /\ FreePlacesCounted

\* A message of the drone's latest session bears the number of its index.
Numbered(m) ==
    /\ m.session <= session
    /\ m.session = session => /\ m.index <= count
                              /\ m.seq = addMultSeqNb(first, m.index - 1)

MessagesOK ==
    /\ session > 0 => next = addMultSeqNb(first, count)
    /\ \A m \in net : Numbered(m)
    /\ \A i \in Occupied(buf) : Numbered(buf.place[i])
    /\ feedState # "MESS_idle" => Numbered(rcv)

\* What was shown of the session that is watched comes before the index i.
ShownBelow(i) == \A n \in DOMAIN shown : shown[n][1] = watching => shown[n][2] < i

\* The number expected is that of the first index not yet taken in.
ExpectedOK ==
    sys = "SessionReady" =>
        /\ feedState # "MESS_react" =>
              \E i \in 1 .. count + 1 : expected = addMultSeqNb(first, i - 1) /\ ShownBelow(i)
        /\ feedState = "MESS_verify" => diffSeqNb(expected, rcv.seq) < MAX_MISSED_SEQNBS
        /\ feedState = "MESS_react" =>
              /\ rcv.session = watching
              /\ expected = addMultSeqNb(first, rcv.index)
              /\ ShownBelow(rcv.index)

IInv ==
    /\ TypeInv
    /\ MessagesOK
    /\ ExpectedOK
    /\ \A n \in DOMAIN shown : shown[n][1] <= watching
    /\ ShownInOrder

-----------------------------------------------------------------------------
(* The places of the buffer. *)

\* The well-ordering of the natural numbers, from the library's theorems on
\* well-founded relations.
LEMMA Least ==
    ASSUME NEW S \in SUBSET Nat, S # {}
    PROVE  \E x \in S : \A y \in S : x <= y
<1>1. PICK x \in S : \A y \in S : <<y, x>> \notin OpToRel(<, Nat)
  BY NatLessThanWellFounded, WFMin
<1>2. \A y \in S : ~(y < x)
  BY <1>1 DEF OpToRel
<1>3. QED
  BY <1>2

LEMMA MinIsIn ==
    ASSUME NEW S \in SUBSET Places, S # {}
    PROVE  Min(S) \in S
<1>1. PICK x \in S : \A y \in S : x <= y
  <2>1. S \in SUBSET Nat
    BY DEF Places
  <2>2. QED
    BY <2>1, Least
<1>2. QED
  BY <1>1 DEF Min

LEMMA MaxIsIn ==
    ASSUME NEW S \in SUBSET Places, S # {}
    PROVE  Max(S) \in S
<1>1. PICK x \in S : \A y \in S : x >= y
  <2>1. NB_CACHED_MESSAGES \in Nat
    BY VideoBufferAssumption
  <2>2. S \in SUBSET (0 .. NB_CACHED_MESSAGES)
    BY <2>1 DEF Places
  <2> DEFINE T == {NB_CACHED_MESSAGES - x : x \in S}
  <2>3. T \in SUBSET Nat /\ T # {}
    <3>1. \A x \in S : NB_CACHED_MESSAGES - x \in Nat
      BY <2>1, <2>2
    <3>2. QED
      BY <3>1
  <2>4. PICK t \in T : \A y \in T : t <= y
    BY <2>3, Least
  <2>5. PICK x \in S : t = NB_CACHED_MESSAGES - x
    BY <2>4
  <2>6. ASSUME NEW y \in S PROVE x >= y
    <3>1. NB_CACHED_MESSAGES - x <= NB_CACHED_MESSAGES - y
      BY <2>4, <2>5
    <3>2. x \in Nat /\ y \in Nat
      BY <2>1, <2>2
    <3>3. QED
      BY <2>1, <3>1, <3>2
  <2>7. QED
    BY <2>6
<1>2. QED
  BY <1>1 DEF Max

LEMMA PlacesFacts ==
    /\ IsFiniteSet(Places) /\ Cardinality(Places) = NB_CACHED_MESSAGES
    /\ NB_CACHED_MESSAGES \in Nat /\ NB_CACHED_MESSAGES > 0
    /\ Places \subseteq Nat
    /\ Empty \notin FeedMessages /\ NoMessage \notin FeedMessages
<1>1. NB_CACHED_MESSAGES \in Nat \ {0}
  BY VideoBufferAssumption
<1>2. IsFiniteSet(Places) /\ Cardinality(Places) = NB_CACHED_MESSAGES
  BY <1>1, FS_Interval DEF Places
<1>3. Empty \notin FeedMessages /\ NoMessage \notin FeedMessages
  BY DEF Empty, NoMessage, FeedMessages
<1>4. QED
  BY <1>1, <1>2, <1>3 DEF Places

\* The count of a buffer is at most its size, and nothing is free that is not
\* among the places.
LEMMA CountBounds ==
    ASSUME NEW b, Counted(b)
    PROVE  b.free \in 0 .. NB_CACHED_MESSAGES
<1>1. IsFiniteSet(Places \ Occupied(b))
  BY PlacesFacts, FS_Subset
<1>2. /\ Cardinality(Places \ Occupied(b)) <= Cardinality(Places)
      /\ Cardinality(Places \ Occupied(b)) \in Nat
  BY <1>1, PlacesFacts, FS_Subset, FS_CardinalityType
<1>3. QED
  BY <1>2, PlacesFacts DEF Counted

\* A buffer as it is between polls, its count apart.
Good(b) ==
    /\ b \in Buffers /\ Counted(b)
    /\ \A i \in Occupied(b) : Numbered(b.place[i])

Near(m) == diffSeqNb(expected, m.seq) < MAX_MISSED_SEQNBS

\* Emptying places changes the count by as many as were occupied.
LEMMA Emptied ==
    ASSUME NEW b \in [place : [Places -> FeedMessages \cup {Empty}], free : Nat],
           Counted(b), NEW bad \in SUBSET Occupied(b)
    PROVE  LET c == [place |-> [i \in Places |-> IF i \in bad THEN Empty ELSE b.place[i]],
                     free  |-> b.free + Cardinality(bad)]
           IN  /\ Occupied(c) = Occupied(b) \ bad
               /\ Counted(c) /\ c \in Buffers
<1> DEFINE place == [i \in Places |-> IF i \in bad THEN Empty ELSE b.place[i]]
           c == [place |-> place, free |-> b.free + Cardinality(bad)]
           F == Places \ Occupied(b)
<1>1. Occupied(c) = Occupied(b) \ bad
  BY DEF Occupied
<1>2. bad \subseteq Places /\ IsFiniteSet(bad) /\ IsFiniteSet(F)
  BY PlacesFacts, FS_Subset DEF Occupied
<1>3. Places \ Occupied(c) = F \cup bad /\ F \cap bad = {}
  BY <1>1, <1>2
<1>4. Cardinality(F \cup bad) = Cardinality(F) + Cardinality(bad)
  <2>1. Cardinality(F \cup bad) = Cardinality(F) + Cardinality(bad) - Cardinality(F \cap bad)
    BY <1>2, FS_Union
  <2>2. Cardinality(F \cap bad) = 0
    BY <1>3, FS_EmptySet
  <2>3. Cardinality(F) \in Nat /\ Cardinality(bad) \in Nat
    BY <1>2, FS_CardinalityType
  <2>4. QED
    BY <2>1, <2>2, <2>3
<1>5. Counted(c)
  BY <1>3, <1>4 DEF Counted
<1>6. c.free \in 0 .. NB_CACHED_MESSAGES
  BY <1>5, CountBounds
<1>7. place \in [Places -> FeedMessages \cup {Empty}]
  OBVIOUS
<1>8. QED
  BY <1>1, <1>5, <1>6, <1>7 DEF Buffers

LEMMA RemoveFacts ==
    ASSUME NEW b \in Buffers, Counted(b)
    PROVE  LET c == removeBadMessages(b)
           IN  /\ c \in Buffers /\ Counted(c) /\ c.free >= b.free
               /\ Occupied(c) \subseteq Occupied(b)
               /\ \A i \in Occupied(c) :
                    /\ c.place[i] = b.place[i]
                    /\ ~(diffSeqNb(expected, c.place[i].seq) >= MAX_MISSED_SEQNBS)
<1> DEFINE bad == {i \in Occupied(b) :
                     diffSeqNb(expected, b.place[i].seq) >= MAX_MISSED_SEQNBS}
           c == removeBadMessages(b)
<1>1. c = [place |-> [i \in Places |-> IF i \in bad THEN Empty ELSE b.place[i]],
           free |-> b.free + Cardinality(bad)]
  BY DEF removeBadMessages
<1>2. b \in [place : [Places -> FeedMessages \cup {Empty}], free : Nat] /\ b.free \in Nat
  BY PlacesFacts DEF Buffers
<1>3. bad \in SUBSET Occupied(b)
  OBVIOUS
<1>4. Occupied(c) = Occupied(b) \ bad /\ Counted(c) /\ c \in Buffers
  <2> DEFINE e == [place |-> [i \in Places |-> IF i \in bad THEN Empty ELSE b.place[i]],
                   free |-> b.free + Cardinality(bad)]
  <2> HIDE DEF bad
  <2>1. Occupied(e) = Occupied(b) \ bad /\ Counted(e) /\ e \in Buffers
    BY <1>2, <1>3, Emptied
  <2> HIDE DEF c, e
  <2>2. c = e
    BY <1>1 DEF e
  <2>3. QED
    BY <2>1, <2>2
<1>5. c.free >= b.free
  <2>1. IsFiniteSet(bad)
    BY PlacesFacts, FS_Subset DEF Occupied
  <2>2. Cardinality(bad) \in Nat
    BY <2>1, FS_CardinalityType
  <2>3. c.free = b.free + Cardinality(bad)
    BY <1>1
  <2> HIDE DEF c, bad
  <2>4. QED
    BY <1>2, <2>2, <2>3
<1>6. ASSUME NEW i \in Occupied(c)
      PROVE  /\ c.place[i] = b.place[i]
             /\ ~(diffSeqNb(expected, c.place[i].seq) >= MAX_MISSED_SEQNBS)
  <2>1. i \in Places /\ i \in Occupied(b) /\ i \notin bad
    BY <1>4 DEF Occupied
  <2>2. c.place[i] = b.place[i]
    BY <1>1, <2>1
  <2>3. QED
    BY <2>1, <2>2
<1>7. QED
  BY <1>4, <1>5, <1>6

\* Taking a message out of its place.
LEMMA TakeFacts ==
    ASSUME NEW b \in Buffers, Counted(b), NEW i \in Occupied(b)
    PROVE  LET o == Take(b, i)
           IN  /\ o.message = b.place[i] /\ o.message \in FeedMessages
               /\ o.buf \in Buffers /\ Counted(o.buf) /\ o.buf.free > 0
               /\ Occupied(o.buf) \subseteq Occupied(b)
               /\ \A j \in Occupied(o.buf) : o.buf.place[j] = b.place[j]
<1> DEFINE c == [place |-> [j \in Places |-> IF j \in {i} THEN Empty ELSE b.place[j]],
                 free  |-> b.free + Cardinality({i})]
<1>1. b \in [place : [Places -> FeedMessages \cup {Empty}], free : Nat] /\ b.free \in Nat
  BY PlacesFacts DEF Buffers
<1>2. Occupied(c) = Occupied(b) \ {i} /\ Counted(c) /\ c \in Buffers
  <2>1. {i} \in SUBSET Occupied(b)
    OBVIOUS
  <2>2. QED
    BY <1>1, <2>1, Emptied
<1>3. Cardinality({i}) = 1
  BY FS_Singleton
<1>4. /\ Take(b, i).message = b.place[i]
      /\ Take(b, i).buf = [place |-> [b.place EXCEPT ![i] = Empty], free |-> b.free + 1]
  BY DEF Take, Outcome
<1>5. [b.place EXCEPT ![i] = Empty] = [j \in Places |-> IF j \in {i} THEN Empty ELSE b.place[j]]
  BY <1>1
<1>6. Take(b, i).buf = c
  BY <1>3, <1>4, <1>5
<1>7. b.place[i] \in FeedMessages
  BY <1>1 DEF Occupied
<1>8. c.free > 0
  BY <1>1, <1>3
<1>9. \A j \in Occupied(c) : c.place[j] = b.place[j]
  BY <1>2 DEF Occupied
<1> HIDE DEF c
<1>10. QED
  BY <1>2, <1>4, <1>6, <1>7, <1>8, <1>9

LEMMA DiffIsInt ==
    ASSUME expected \in SeqNbs, NEW m \in FeedMessages
    PROVE  diffSeqNb(expected, m.seq) \in Int /\ MAX_MISSED_SEQNBS \in Int
<1>1. m.seq \in LiveSeqNbs
  BY DEF FeedMessages
<1>2. expected \in Int /\ m.seq \in Int /\ MaxSeqNb \in Int /\ MAX_MISSED_SEQNBS \in Int
  BY <1>1, SeqNbAssumption DEF SeqNbs, LiveSeqNbs
<1>3. QED
  BY <1>2 DEF diffSeqNb, Minus

\* A buffer that is flushed stays good, has no fewer free places, and gives a
\* message from within the window or none.
LEMMA FlushFacts ==
    ASSUME expected \in SeqNbs, NEW b, Good(b), NEW m, NEW force \in {0, 1},
           NEW o, o = flushVideoBuffer(m, b, force)
    PROVE  /\ Good(o.buf) /\ o.buf.free >= b.free
           /\ \/ /\ o.message \in FeedMessages /\ Numbered(o.message) /\ Near(o.message)
                 /\ o.buf.free > 0
              \/ /\ o.message = m
                 /\ o.buf = removeBadMessages(b)
                 /\ force # 0 => Occupied(removeBadMessages(b)) = {}
<1>0. PICK c : c = removeBadMessages(b)
  OBVIOUS
<1> DEFINE turn == {i \in Occupied(c) : c.place[i].seq = expected}
<1>1. /\ c \in Buffers /\ Counted(c) /\ c.free >= b.free
      /\ \A i \in Occupied(c) : /\ c.place[i] = b.place[i] /\ i \in Occupied(b)
                                /\ ~(diffSeqNb(expected, c.place[i].seq) >= MAX_MISSED_SEQNBS)
  BY <1>0, RemoveFacts DEF Good
<1>2. Good(c)
  BY <1>1 DEF Good
<1>3. c.free \in Int /\ b.free \in Int
  BY <1>1, PlacesFacts DEF Good, Buffers
<1>4. ASSUME NEW i \in Occupied(c), o = Take(c, i)
      PROVE  /\ Good(o.buf) /\ o.buf.free >= b.free
             /\ o.message \in FeedMessages /\ Numbered(o.message) /\ Near(o.message)
             /\ o.buf.free > 0
  <2>1. /\ Take(c, i).message = c.place[i] /\ Take(c, i).message \in FeedMessages
        /\ Take(c, i).buf \in Buffers /\ Counted(Take(c, i).buf) /\ Take(c, i).buf.free > 0
        /\ Occupied(Take(c, i).buf) \subseteq Occupied(c)
        /\ \A j \in Occupied(Take(c, i).buf) : Take(c, i).buf.place[j] = c.place[j]
    BY <1>1, TakeFacts
  <2>2. Take(c, i).buf.free = c.free + 1
    BY DEF Take, Outcome
  <2>3. Numbered(c.place[i]) /\ Good(Take(c, i).buf)
    BY <1>2, <2>1 DEF Good
  <2>4. Near(c.place[i])
    <3>1. ~(diffSeqNb(expected, c.place[i].seq) >= MAX_MISSED_SEQNBS)
      BY <1>1
    <3>2. diffSeqNb(expected, c.place[i].seq) \in Int /\ MAX_MISSED_SEQNBS \in Int
      BY <2>1, DiffIsInt
    <3>3. QED
      BY <3>1, <3>2 DEF Near
  <2>5. c.free + 1 >= b.free
    BY <1>1, <1>3
  <2>6. QED
    BY <1>4, <2>1, <2>2, <2>3, <2>4, <2>5
<1>5. Occupied(c) \in SUBSET Places /\ turn \in SUBSET Places /\ turn \subseteq Occupied(c)
  BY DEF Occupied
<1>6. CASE turn # {}
  <2>1. o = Take(c, Min(turn))
    BY <1>0, <1>6 DEF flushVideoBuffer
  <2>2. Min(turn) \in Occupied(c)
    BY <1>5, <1>6, MinIsIn
  <2>3. QED
    BY <1>4, <2>1, <2>2
<1>7. CASE turn = {} /\ force # 0 /\ Occupied(c) # {}
  <2>1. o = Take(c, Max(Occupied(c)))
    BY <1>0, <1>7 DEF flushVideoBuffer
  <2>2. Max(Occupied(c)) \in Occupied(c)
    BY <1>5, <1>7, MaxIsIn
  <2>3. QED
    BY <1>4, <2>1, <2>2
<1>8. CASE turn = {} /\ ~(force # 0 /\ Occupied(c) # {})
  <2>1. o = Outcome(m, c)
    BY <1>0, <1>8 DEF flushVideoBuffer
  <2>2. o.message = m /\ o.buf = c
    BY <2>1 DEF Outcome
  <2>3. QED
    BY <1>0, <1>1, <1>2, <1>8, <2>2
<1>9. QED
  BY <1>6, <1>7, <1>8

\* A message that is not the expected one finds a place, and leaves one.
LEMMA BufferedFacts ==
    ASSUME expected \in SeqNbs, Good(buf), buf.free > 0, NEW m \in FeedMessages, Numbered(m),
           NEW o, o = Buffered(m)
    PROVE  /\ Good(o.buf) /\ o.buf.free > 0
           /\ \/ o.message = NoMessage
              \/ o.message \in FeedMessages /\ Numbered(o.message) /\ Near(o.message)
<1>a. PICK c : c = removeBadMessages(buf)
  OBVIOUS
<1>b. PICK gap : gap = Min(Places \ Occupied(c))
  OBVIOUS
<1>c. PICK d : d = [place |-> [c.place EXCEPT ![gap] = m], free |-> c.free - 1]
  OBVIOUS
<1>d. PICK forced : forced = flushVideoBuffer(m, d, 1)
  OBVIOUS
<1>1. /\ c \in Buffers /\ Counted(c) /\ c.free >= buf.free
      /\ \A i \in Occupied(c) : c.place[i] = buf.place[i] /\ i \in Occupied(buf)
  BY <1>a, RemoveFacts DEF Good
<1>2. c.free \in Nat /\ buf.free \in Nat /\ c.free > 0
  BY <1>1, PlacesFacts DEF Good, Buffers
<1>3. gap \in Places /\ gap \notin Occupied(c)
  <2>1. Places \ Occupied(c) # {}
    BY <1>1, <1>2, FS_EmptySet DEF Counted
  <2>2. QED
    BY <1>b, <2>1, MinIsIn
<1>4. d.place \in [Places -> FeedMessages \cup {Empty}]
      /\ d.place[gap] = m /\ \A i \in Places : i # gap => d.place[i] = c.place[i]
  BY <1>1, <1>3, <1>c DEF Buffers
<1>5. Occupied(d) = Occupied(c) \cup {gap}
  BY <1>3, <1>4, PlacesFacts DEF Occupied
<1>6. Counted(d) /\ d.free \in Nat
  <2>1. Places \ Occupied(d) = (Places \ Occupied(c)) \ {gap}
    BY <1>5
  <2>2. IsFiniteSet(Places \ Occupied(c))
    BY PlacesFacts, FS_Subset
  <2>3. Cardinality(Places \ Occupied(d)) = Cardinality(Places \ Occupied(c)) - 1
    BY <1>3, <2>1, <2>2, FS_RemoveElement
  <2>4. d.free = c.free - 1
    BY <1>c
  <2>5. QED
    BY <1>1, <1>2, <2>3, <2>4 DEF Counted
<1>7. Good(d)
  <2>1. d \in Buffers
    <3>1. d.free \in 0 .. NB_CACHED_MESSAGES
      BY <1>6, CountBounds
    <3>2. d = [place |-> d.place, free |-> d.free]
      BY <1>c
    <3>3. QED
      BY <1>4, <3>1, <3>2 DEF Buffers
  <2>2. \A i \in Occupied(d) : d.place[i] = m \/ (d.place[i] = buf.place[i] /\ i \in Occupied(buf))
    BY <1>1, <1>3, <1>4, <1>5 DEF Occupied
  <2>3. QED
    BY <1>6, <2>1, <2>2 DEF Good
<1>8. /\ Good(forced.buf) /\ forced.buf.free >= d.free
      /\ \/ /\ forced.message \in FeedMessages /\ Numbered(forced.message)
            /\ Near(forced.message) /\ forced.buf.free > 0
         \/ /\ forced.message = m
            /\ forced.buf = removeBadMessages(d) /\ Occupied(removeBadMessages(d)) = {}
  BY <1>7, <1>d, FlushFacts
<1>9. o = IF d.free = 0 /\ Occupied(removeBadMessages(d)) # {}
          THEN forced ELSE Outcome(NoMessage, IF d.free = 0 THEN forced.buf ELSE d)
  <2>1. ~(c.free = 0)
    BY <1>2
  <2>2. QED
    BY <2>1, <1>a, <1>b, <1>c, <1>d, Zenon DEF Buffered
<1>10. CASE d.free = 0 /\ Occupied(removeBadMessages(d)) # {}
  <2>1. o = forced
    BY <1>9, <1>10
  <2>2. QED
    BY <1>8, <1>10, <2>1
<1>11. CASE d.free = 0 /\ Occupied(removeBadMessages(d)) = {}
  <2>1. o.message = NoMessage /\ o.buf = forced.buf
    BY <1>9, <1>11 DEF Outcome
  <2>2. forced.buf.free > 0
    <3>1. CASE forced.buf = removeBadMessages(d)
      <4>1. Occupied(forced.buf) = {}
        BY <1>11, <3>1
      <4>2. Cardinality(Places \ Occupied(forced.buf)) > 0
        BY <4>1, PlacesFacts
      <4>3. QED
        BY <1>8, <4>2 DEF Good, Counted
    <3>2. QED
      BY <1>8, <3>1
  <2>3. QED
    BY <1>8, <2>1, <2>2
<1>12. CASE d.free # 0
  <2>1. o = Outcome(NoMessage, d)
    BY <1>9, <1>12
  <2>2. o.message = NoMessage /\ o.buf = d
    BY <2>1 DEF Outcome
  <2>3. QED
    BY <1>6, <1>7, <1>12, <2>2
<1>13. QED
  BY <1>10, <1>11, <1>12

\* What a poll can yield: in any case a good buffer with a place to spare, and
\* as a valid message one within the window.
LEMMA PollFacts ==
    ASSUME TypeInv, MessagesOK, NEW o \in pollAndDecode
    PROVE  /\ Good(o.buf) /\ o.buf.free > 0
           /\ \/ o.message = NoMessage
              \/ o.message \in FeedMessages /\ Numbered(o.message)
           /\ sys = "SessionReady" /\ o.message.status = "Message_valid" => Near(o.message)
<1>1. Good(buf) /\ buf.free > 0 /\ expected \in SeqNbs
  BY DEF TypeInv, FreePlacesCounted, MessagesOK, Good, Counted, TypeOK, Buffers
<1>2. NoMessage.status # "Message_valid"
  BY DEF NoMessage
<1>3. CASE o = flushVideoBuffer(NoMessage, buf, 0)
  <2>1. /\ Good(o.buf) /\ o.buf.free >= buf.free
        /\ \/ /\ o.message \in FeedMessages /\ Numbered(o.message) /\ Near(o.message)
              /\ o.buf.free > 0
           \/ o.message = NoMessage
    BY <1>1, <1>3, FlushFacts
  <2>2. o.buf.free \in Int /\ buf.free \in Int
    BY <1>1, <2>1, PlacesFacts DEF Good, Buffers
  <2>3. QED
    BY <1>1, <1>2, <2>1, <2>2
<1>4. ASSUME NEW m \in net, o = checkReceivedMessage(m)
      PROVE  /\ Good(o.buf) /\ o.buf.free > 0
             /\ \/ o.message = NoMessage
                \/ o.message \in FeedMessages /\ Numbered(o.message)
             /\ sys = "SessionReady" /\ o.message.status = "Message_valid" => Near(o.message)
  <2>1. PICK x \in FeedMessages :
           /\ x = Checked(m) /\ x.seq = m.seq /\ x.session = m.session /\ x.index = m.index
    <3>1. PICK status \in {"Message_valid", "Message_checks_failed"} :
             Checked(m) = [m EXCEPT !.status = status]
      BY DEF Checked
    <3>2. m \in FeedMessages
      BY DEF TypeInv, TypeOK
    <3>3. QED
      BY <3>1, <3>2 DEF FeedMessages
  <2>2. Numbered(x)
    BY <2>1 DEF MessagesOK, Numbered
  <2>3. CASE m.seq = expected
    <3>1. o.message = x /\ o.buf = buf
      BY <1>4, <2>1, <2>3 DEF checkReceivedMessage, Outcome
    <3>2. sys = "SessionReady" => Near(x)
      <4>1. SUFFICES ASSUME expected \in LiveSeqNbs
                     PROVE  Near(x)
        BY DEF TypeInv, StatesOK
      <4>2. diffSeqNb(expected, expected) = 0
        BY <4>1, SeqNbAssumption DEF diffSeqNb, Minus, LiveSeqNbs
      <4>3. QED
        BY <2>1, <2>3, <4>2, SeqNbAssumption DEF Near
    <3>3. QED
      BY <1>1, <2>2, <3>1, <3>2
  <2>4. CASE m.seq # expected
    <3>1. o = Buffered(x)
      BY <1>4, <2>1, <2>4 DEF checkReceivedMessage
    <3>2. QED
      BY <1>1, <1>2, <2>2, <3>1, BufferedFacts
  <2>5. QED
    BY <2>3, <2>4
<1>5. QED
  BY <1>3, <1>4 DEF pollAndDecode

-----------------------------------------------------------------------------
(* The numbers of a session. *)

LEMMA NumberFacts ==
    ASSUME NEW f \in LiveSeqNbs
    PROVE  /\ addMultSeqNb(f, 0) = f
           /\ \A j \in 0 .. MaxFeed :
                /\ addMultSeqNb(f, j) \in LiveSeqNbs
                /\ addOneSeqNb(addMultSeqNb(f, j)) = addMultSeqNb(f, j + 1)
                /\ addMultSeqNb(addMultSeqNb(f, j), 1) = addMultSeqNb(f, j + 1)
<1> USE SeqNbAssumption, VideoBufferAssumption DEF LiveSeqNbs
<1>1. addMultSeqNb(f, 0) = f
  BY DEF addMultSeqNb, Plus
<1>2. ASSUME NEW j \in 0 .. MaxFeed
      PROVE  /\ addMultSeqNb(f, j) \in LiveSeqNbs
             /\ addOneSeqNb(addMultSeqNb(f, j)) = addMultSeqNb(f, j + 1)
             /\ addMultSeqNb(addMultSeqNb(f, j), 1) = addMultSeqNb(f, j + 1)
  <2>1. addMultSeqNb(f, j) \in LiveSeqNbs
    BY DEF addMultSeqNb, Plus
  <2>2. addMultSeqNb(addMultSeqNb(f, j), 1) = addMultSeqNb(f, j + 1)
    BY AddMultComposes
  <2>3. addOneSeqNb(addMultSeqNb(f, j)) = addMultSeqNb(addMultSeqNb(f, j), 1)
    BY <2>1, AddOneIsAddMult DEF SeqNbs
  <2>4. QED
    BY <2>1, <2>2, <2>3
<1>3. QED
  BY <1>1, <1>2

\* Within a session, a number within the window of the expected one is not that
\* of an earlier message: those are almost a whole cycle ahead.
LEMMA WindowIsAhead ==
    ASSUME NEW f \in LiveSeqNbs, NEW i \in 0 .. MaxFeed, NEW j \in 0 .. MaxFeed,
           diffSeqNb(addMultSeqNb(f, i), addMultSeqNb(f, j)) < MAX_MISSED_SEQNBS
    PROVE  i <= j
BY SeqNbAssumption, VideoBufferAssumption
   DEF LiveSeqNbs, addMultSeqNb, diffSeqNb, Plus, Minus

LEMMA NumberedGrows ==
    ASSUME NEW m \in FeedMessages, Numbered(m), count \in Nat, count' \in Nat,
           UNCHANGED <<session, first>>, count <= count'
    PROVE  Numbered(m)'
<1>1. m.index \in Int
  BY DEF FeedMessages
<1>2. QED
  BY <1>1 DEF Numbered

-----------------------------------------------------------------------------
(* The steps.  First those of the drone. *)

LEMMA TypeFacts ==
    ASSUME TypeInv
    PROVE  /\ Good(buf) <=> \A i \in Occupied(buf) : Numbered(buf.place[i])
           /\ buf \in Buffers /\ buf.free > 0
           /\ \A i \in Occupied(buf) : buf.place[i] \in FeedMessages
           /\ MaxFeed \in Nat /\ MaxSessions \in Nat
           /\ session \in Nat /\ watching \in Nat /\ watching <= session /\ count \in Nat
<1>1. MaxFeed \in Nat /\ MaxSessions \in Nat
  BY VideoBufferAssumption
<1>2. /\ session \in Nat /\ watching \in Nat /\ watching <= session /\ count \in Nat
      /\ buf \in Buffers /\ buf.free > 0 /\ Counted(buf)
  BY <1>1 DEF TypeInv, TypeOK, Buffers, FreePlacesCounted, Counted
<1>3. \A i \in Occupied(buf) : buf.place[i] \in FeedMessages
  BY <1>2 DEF Occupied, Buffers
<1>4. QED
  BY <1>1, <1>2, <1>3 DEF Good

LEMMA SendStep ==
    ASSUME IInv, SendFeed
    PROVE  IInv'
<1>1. /\ session > 0 /\ count < MaxFeed /\ count' = count + 1
      /\ net' = net \cup {[session |-> session, seq |-> next, index |-> count + 1,
                           status |-> "Message_valid"]}
      /\ next' = addOneSeqNb(next)
      /\ UNCHANGED <<session, first, sys, watching, expected, feedState, rcv, buf, shown>>
  BY DEF SendFeed, sysVars
<1>2. TypeInv /\ MessagesOK /\ ExpectedOK
  BY DEF IInv
<1>3. /\ MaxFeed \in Nat /\ count \in Nat /\ count' \in 0 .. MaxFeed /\ session \in 1 .. MaxSessions
      /\ first \in LiveSeqNbs /\ next \in LiveSeqNbs
  BY <1>1, <1>2, TypeFacts DEF TypeInv, TypeOK, StatesOK
<1>4. PICK m0 \in FeedMessages :
         /\ m0.session = session /\ m0.seq = next /\ m0.index = count + 1
         /\ net' = net \cup {m0}
  <2>1. [session |-> session, seq |-> next, index |-> count + 1,
         status |-> "Message_valid"] \in FeedMessages
    BY <1>1, <1>3 DEF FeedMessages
  <2>2. QED
    BY <1>1, <2>1
<1>5. /\ next = addMultSeqNb(first, count) /\ next' = addMultSeqNb(first, count + 1)
      /\ next' \in LiveSeqNbs
  <2>1. next = addMultSeqNb(first, count)
    BY <1>1, <1>2 DEF MessagesOK
  <2>2. next' = addMultSeqNb(first, count + 1)
    BY <1>1, <1>3, <2>1, NumberFacts
  <2>3. next' \in LiveSeqNbs
    BY <1>1, <1>3, AddOneIsLive DEF LiveSeqNbs, SeqNbs
  <2>4. QED
    BY <2>1, <2>2, <2>3
<1>6. TypeInv'
  <2>1. TypeOK'
    BY <1>1, <1>2, <1>3, <1>4, <1>5 DEF TypeInv, TypeOK, SeqNbs, LiveSeqNbs, Occupied
  <2>2. StatesOK'
    BY <1>1, <1>2, <1>3, <1>5 DEF TypeInv, StatesOK
  <2>3. FreePlacesCounted'
    BY <1>1, <1>2 DEF TypeInv, FreePlacesCounted, Occupied
  <2>4. QED
    BY <2>1, <2>2, <2>3 DEF TypeInv
<1>7. MessagesOK'
  <2>1. \A m \in FeedMessages : Numbered(m) => Numbered(m)'
    BY <1>1, <1>3, NumberedGrows
  <2>2. Numbered(m0)'
    <3>1. count + 1 <= count' /\ (count + 1) - 1 = count
      BY <1>1, <1>3
    <3>2. QED
      BY <1>1, <1>3, <1>4, <1>5, <3>1 DEF Numbered
  <2>3. \A m \in net : Numbered(m)'
    BY <1>2, <2>1 DEF MessagesOK, TypeInv, TypeOK
  <2>4. \A i \in Occupied(buf) : Numbered(buf.place[i])'
    <3>1. ASSUME NEW i \in Occupied(buf)
          PROVE  Numbered(buf.place[i])'
      <4>1. PICK m \in FeedMessages : m = buf.place[i]
        BY <1>2, TypeFacts
      <4>2. Numbered(m)'
        BY <1>2, <2>1, <4>1 DEF MessagesOK
      <4>3. buf'.place[i] = m
        BY <1>1, <4>1
      <4>4. QED
        BY <4>2, <4>3 DEF Numbered
    <3>2. QED
      BY <3>1
  <2>5. feedState # "MESS_idle" => Numbered(rcv)'
    <3>1. SUFFICES ASSUME feedState # "MESS_idle"
                   PROVE  Numbered(rcv)'
      OBVIOUS
    <3>2. PICK m \in FeedMessages : m = rcv
      BY <1>2, <3>1 DEF TypeInv, StatesOK
    <3>3. Numbered(m)'
      BY <1>2, <2>1, <3>1, <3>2 DEF MessagesOK
    <3>4. QED
      BY <1>1, <3>2, <3>3 DEF Numbered
  <2>6. QED
    BY <1>1, <1>3, <1>4, <1>5, <2>2, <2>3, <2>4, <2>5 DEF MessagesOK, Occupied
<1>8. ExpectedOK'
  <2>1. \A i \in 1 .. count + 1 : i \in 1 .. count' + 1
    BY <1>1, <1>3
  <2>2. QED
    BY <1>1, <1>2, <2>1 DEF ExpectedOK, ShownBelow
<1>9. QED
  BY <1>1, <1>6, <1>7, <1>8 DEF IInv, ShownInOrder, Earlier

LEMMA DroneEntersStep ==
    ASSUME IInv, DroneEnters
    PROVE  IInv'
<1>1. /\ sys = "KEP" /\ session < MaxSessions /\ session' = session + 1 /\ count' = 0
      /\ first' \in InitSeqNbs /\ next' = first'
      /\ UNCHANGED <<net, sys, watching, expected, feedState, rcv, buf, shown>>
  BY DEF DroneEnters, sysVars
<1>2. TypeInv /\ MessagesOK
  BY DEF IInv
<1>3. /\ MaxSessions \in Nat /\ session \in Nat /\ watching \in Nat /\ watching <= session
      /\ MaxFeed \in Nat /\ feedState = "MESS_idle"
  BY <1>1, <1>2, TypeFacts DEF TypeInv, StatesOK
<1>4. first' \in LiveSeqNbs /\ next' \in LiveSeqNbs
  BY <1>1, VideoBufferAssumption
<1>5. TypeInv'
  <2>1. session' \in 0 .. MaxSessions /\ watching' \in 0 .. session' /\ count' \in 0 .. MaxFeed
    BY <1>1, <1>3
  <2>2. TypeOK'
    BY <1>1, <1>2, <1>4, <2>1 DEF TypeInv, TypeOK, SeqNbs, LiveSeqNbs, Occupied
  <2>3. StatesOK'
    BY <1>1, <1>2, <1>4 DEF TypeInv, StatesOK
  <2>4. FreePlacesCounted'
    BY <1>1, <1>2 DEF TypeInv, FreePlacesCounted, Occupied
  <2>5. QED
    BY <2>2, <2>3, <2>4 DEF TypeInv
<1>6. MessagesOK'
  <2>1. ASSUME NEW m \in FeedMessages, Numbered(m)
        PROVE  Numbered(m)'
    <3>1. m.session \in Int /\ m.session <= session
      BY <2>1 DEF FeedMessages, Numbered
    <3>2. QED
      BY <1>1, <1>3, <3>1 DEF Numbered
  <2>2. (\A m \in net : Numbered(m))'
    BY <1>1, <1>2, <2>1 DEF MessagesOK, TypeInv, TypeOK
  <2>3. (\A i \in Occupied(buf) : Numbered(buf.place[i]))'
    <3>1. ASSUME NEW i \in Occupied(buf)
          PROVE  Numbered(buf.place[i])'
      <4>1. PICK m \in FeedMessages : m = buf.place[i]
        BY <1>2, TypeFacts
      <4>2. Numbered(m)'
        BY <1>2, <2>1, <4>1 DEF MessagesOK
      <4>3. buf'.place[i] = m
        BY <1>1, <4>1
      <4>4. QED
        BY <4>2, <4>3 DEF Numbered
    <3>2. QED
      BY <1>1, <3>1 DEF Occupied
  <2>4. (session > 0 => next = addMultSeqNb(first, count))'
    BY <1>1, <1>4, NumberFacts
  <2>5. QED
    BY <1>1, <1>3, <2>2, <2>3, <2>4 DEF MessagesOK
<1>7. ExpectedOK'
  BY <1>1 DEF ExpectedOK
<1>8. QED
  BY <1>1, <1>5, <1>6, <1>7 DEF IInv, ShownInOrder, Earlier

(* Then those of the base station.  They leave the drone's state alone. *)

\* What is left to show of a step that leaves the messages on the network.
LEMMA BaseStep ==
    ASSUME IInv, UNCHANGED droneVars, TypeInv', ExpectedOK',
           Good(buf'), feedState' # "MESS_idle" => Numbered(rcv'),
           (\A n \in DOMAIN shown : shown[n][1] <= watching)', ShownInOrder'
    PROVE  IInv'
<1>1. Good(buf') => (\A i \in Occupied(buf) : Numbered(buf.place[i]))'
  BY DEF Good, Occupied, Numbered, droneVars
<1>2. MessagesOK'
  BY <1>1 DEF IInv, MessagesOK, Numbered, droneVars
<1>3. QED
  BY <1>2 DEF IInv

LEMMA BaseEntersStep ==
    ASSUME IInv, BaseEnters
    PROVE  IInv'
<1>1. /\ sys = "KEP" /\ watching < session /\ sys' = "SessionReady" /\ watching' = session
      /\ expected' = first /\ UNCHANGED droneVars /\ UNCHANGED <<feedState, rcv, buf, shown>>
  BY DEF BaseEnters
<1>2. TypeInv /\ MessagesOK
  BY DEF IInv
<1>3. UNCHANGED <<session, first, next, count, net>>
  BY <1>1 DEF droneVars
<1>4. /\ session \in Nat /\ watching \in Nat /\ session > 0 /\ count \in Nat
      /\ feedState = "MESS_idle" /\ first \in LiveSeqNbs
  <2>1. session \in Nat /\ watching \in Nat /\ session > 0 /\ count \in Nat
    BY <1>1, <1>2, TypeFacts
  <2>2. QED
    BY <1>1, <1>2, <2>1 DEF TypeInv, StatesOK
<1>5. TypeInv'
  <2>1. watching' \in 0 .. session'
    BY <1>1, <1>3, <1>4
  <2>2. TypeOK'
    BY <1>1, <1>2, <1>3, <2>1 DEF TypeInv, TypeOK, Occupied
  <2>3. StatesOK'
    BY <1>1, <1>2, <1>3, <1>4 DEF TypeInv, StatesOK
  <2>4. FreePlacesCounted'
    BY <1>1, <1>2 DEF TypeInv, FreePlacesCounted, Occupied
  <2>5. QED
    BY <2>2, <2>3, <2>4 DEF TypeInv
<1>6. ASSUME NEW n \in DOMAIN shown
      PROVE  shown[n][1] < session
  <2>1. shown[n][1] \in Int /\ shown[n][1] <= watching
    BY <1>2 DEF TypeInv, TypeOK, IInv
  <2>2. QED
    BY <1>1, <1>4, <2>1
<1>7. ExpectedOK'
  <2>1. ShownBelow(1)'
    <3>1. ASSUME NEW n \in DOMAIN shown
          PROVE  shown[n][1] # session
      <4>1. shown[n][1] \in Int
        BY <1>2 DEF TypeInv, TypeOK
      <4>2. QED
        BY <1>4, <1>6, <4>1
    <3>2. QED
      BY <1>1, <3>1 DEF ShownBelow
  <2>2. 1 \in 1 .. count' + 1 /\ 1 - 1 = 0
    BY <1>3, <1>4
  <2>3. addMultSeqNb(first', 1 - 1) = expected'
    BY <1>1, <1>3, <1>4, <2>2, NumberFacts
  <2>4. (\E i \in 1 .. count + 1 : expected = addMultSeqNb(first, i - 1) /\ ShownBelow(i))'
    BY <2>1, <2>2, <2>3
  <2>5. QED
    BY <1>1, <1>4, <2>4 DEF ExpectedOK
<1>8. (\A n \in DOMAIN shown : shown[n][1] <= watching)'
  <2>1. \A n \in DOMAIN shown : shown[n][1] \in Int
    BY <1>2 DEF TypeInv, TypeOK
  <2>2. QED
    BY <1>1, <1>4, <1>6, <2>1
<1>9. Good(buf')
  BY <1>1, <1>2, TypeFacts DEF MessagesOK
<1>10. ShownInOrder'
  BY <1>1 DEF IInv, ShownInOrder, Earlier
<1>11. QED
  BY <1>1, <1>4, <1>5, <1>7, <1>8, <1>9, <1>10, BaseStep

LEMMA ClearStep ==
    ASSUME IInv, ClearSession
    PROVE  IInv'
<1>1. /\ sys' = "KEP" /\ feedState' = "MESS_idle" /\ rcv' = NoMessage
      /\ UNCHANGED droneVars /\ UNCHANGED <<watching, expected, buf, shown>>
  BY DEF ClearSession
<1>2. TypeInv /\ MessagesOK
  BY DEF IInv
<1>3. TypeInv'
  <2>1. TypeOK'
    BY <1>1, <1>2 DEF droneVars, TypeInv, TypeOK, Occupied
  <2>2. StatesOK'
    BY <1>1, <1>2 DEF droneVars, TypeInv, StatesOK
  <2>3. FreePlacesCounted'
    BY <1>1, <1>2 DEF TypeInv, FreePlacesCounted, Occupied
  <2>4. QED
    BY <2>1, <2>2, <2>3 DEF TypeInv
<1>4. Good(buf')
  BY <1>1, <1>2, TypeFacts DEF MessagesOK
<1>5. ExpectedOK' /\ ShownInOrder' /\ (\A n \in DOMAIN shown : shown[n][1] <= watching)'
  BY <1>1 DEF ExpectedOK, IInv, ShownInOrder, Earlier
<1>6. QED
  BY <1>1, <1>3, <1>4, <1>5, BaseStep

\* A poll leaves a buffer that is right, whatever becomes of its message.
LEMMA PolledBuffer ==
    ASSUME TypeInv, MessagesOK, NEW o \in pollAndDecode, buf' = o.buf
    PROVE  /\ Good(buf') /\ FreePlacesCounted'
           /\ buf' \in [place : [Places -> FeedMessages \cup {Empty}], free : 0 .. NB_CACHED_MESSAGES]
<1>1. Good(o.buf) /\ o.buf.free > 0
  BY PollFacts
<1>2. Occupied(buf)' = Occupied(o.buf)
  BY DEF Occupied
<1>3. QED
  BY <1>1, <1>2 DEF Good, Counted, FreePlacesCounted, Buffers

LEMMA KepPollStep ==
    ASSUME IInv, KepPoll
    PROVE  IInv'
<1>1. /\ sys = "KEP" /\ UNCHANGED droneVars
      /\ UNCHANGED <<sys, watching, expected, feedState, rcv, shown>>
  BY DEF KepPoll, sysVars
<1>2. TypeInv /\ MessagesOK
  BY DEF IInv
<1>3. PICK o \in pollAndDecode : buf' = o.buf
  BY DEF KepPoll
<1>4. /\ Good(buf') /\ FreePlacesCounted'
      /\ buf' \in [place : [Places -> FeedMessages \cup {Empty}], free : 0 .. NB_CACHED_MESSAGES]
  BY <1>2, <1>3, PolledBuffer
<1>5. feedState = "MESS_idle"
  BY <1>1, <1>2 DEF TypeInv, StatesOK
<1>6. TypeInv'
  <2>1. TypeOK'
    BY <1>1, <1>2, <1>4 DEF droneVars, TypeInv, TypeOK
  <2>2. StatesOK'
    BY <1>1, <1>2 DEF droneVars, TypeInv, StatesOK
  <2>3. QED
    BY <1>4, <2>1, <2>2 DEF TypeInv
<1>7. ExpectedOK' /\ ShownInOrder' /\ (\A n \in DOMAIN shown : shown[n][1] <= watching)'
  BY <1>1 DEF ExpectedOK, IInv, ShownInOrder, Earlier
<1>8. QED
  BY <1>1, <1>4, <1>5, <1>6, <1>7, BaseStep

LEMMA IdleStep ==
    ASSUME IInv, MESS_idle_Res
    PROVE  IInv'
<1>1. /\ sys = "SessionReady" /\ feedState = "MESS_idle" /\ UNCHANGED droneVars
      /\ UNCHANGED <<sys, watching, expected, shown>>
  BY DEF MESS_idle_Res, sysVars
<1>2. TypeInv /\ MessagesOK /\ ExpectedOK
  BY DEF IInv
<1>3. PICK o \in pollAndDecode :
         /\ buf' = o.buf
         /\ IF o.message.status = "Message_valid"
            THEN rcv' = o.message /\ feedState' = "MESS_verify"
            ELSE rcv' = NoMessage /\ feedState' = "MESS_idle"
  BY DEF MESS_idle_Res
<1>4. /\ Good(buf') /\ FreePlacesCounted'
      /\ buf' \in [place : [Places -> FeedMessages \cup {Empty}], free : 0 .. NB_CACHED_MESSAGES]
  BY <1>2, <1>3, PolledBuffer
<1>5. o.message.status = "Message_valid" =>
         o.message \in FeedMessages /\ Numbered(o.message) /\ Near(o.message)
  <2>1. NoMessage.status # "Message_valid"
    BY DEF NoMessage
  <2>2. QED
    BY <1>1, <1>2, <2>1, PollFacts
<1>6. \/ feedState' = "MESS_idle" /\ rcv' = NoMessage
      \/ feedState' = "MESS_verify" /\ rcv' \in FeedMessages /\ Numbered(rcv') /\ Near(rcv')
  BY <1>3, <1>5
<1>7. TypeInv'
  <2>1. TypeOK'
    BY <1>1, <1>2, <1>4, <1>6 DEF droneVars, TypeInv, TypeOK
  <2>2. StatesOK'
    BY <1>1, <1>2, <1>6 DEF droneVars, TypeInv, StatesOK
  <2>3. QED
    BY <1>4, <2>1, <2>2 DEF TypeInv
<1>8. ExpectedOK'
  <2>1. (\E i \in 1 .. count + 1 : expected = addMultSeqNb(first, i - 1) /\ ShownBelow(i))'
    BY <1>1, <1>2 DEF ExpectedOK, ShownBelow, droneVars
  <2>2. feedState' = "MESS_verify" => diffSeqNb(expected', rcv'.seq) < MAX_MISSED_SEQNBS
    BY <1>1, <1>6 DEF Near
  <2>3. QED
    BY <1>6, <2>1, <2>2 DEF ExpectedOK
<1>9. ShownInOrder' /\ (\A n \in DOMAIN shown : shown[n][1] <= watching)'
  BY <1>1 DEF IInv, ShownInOrder, Earlier
<1>10. QED
  BY <1>1, <1>4, <1>6, <1>7, <1>8, <1>9, BaseStep

\* A message that is accepted is ahead of all that were shown.
LEMMA VerifyStep ==
    ASSUME IInv, MESS_verify_Res
    PROVE  IInv'
<1>1. /\ feedState = "MESS_verify" /\ UNCHANGED droneVars
      /\ UNCHANGED <<sys, watching, buf, shown>>
  BY DEF MESS_verify_Res, sysVars
<1>2. TypeInv /\ MessagesOK /\ ExpectedOK
  BY DEF IInv
<1>3. /\ sys = "SessionReady" /\ watching = session /\ first \in LiveSeqNbs
      /\ expected \in LiveSeqNbs /\ rcv \in FeedMessages /\ Numbered(rcv)
      /\ session \in Nat /\ count \in 0 .. MaxFeed /\ MaxFeed \in Nat
  BY <1>1, <1>2, TypeFacts DEF TypeInv, StatesOK, MessagesOK, TypeOK
<1>4. PICK i \in 1 .. count + 1 : expected = addMultSeqNb(first, i - 1) /\ ShownBelow(i)
  BY <1>1, <1>2, <1>3 DEF ExpectedOK
<1>5. Good(buf') /\ FreePlacesCounted'
  BY <1>1, <1>2, TypeFacts DEF MessagesOK, TypeInv, FreePlacesCounted, Occupied
<1>6. ShownInOrder' /\ (\A n \in DOMAIN shown : shown[n][1] <= watching)'
  BY <1>1 DEF IInv, ShownInOrder, Earlier
<1>7. CASE Verified(rcv) /\ expected' = addMultSeqNb(rcv.seq, 1) /\ feedState' = "MESS_react"
           /\ rcv' = rcv
  <2>1. /\ rcv.session = session /\ rcv.index \in 1 .. MaxFeed /\ rcv.index <= count
        /\ rcv.seq = addMultSeqNb(first, rcv.index - 1)
    BY <1>3, <1>7 DEF Verified, Numbered, FeedMessages
  <2>2. rcv.index - 1 \in 0 .. MaxFeed /\ i - 1 \in 0 .. MaxFeed /\ rcv.index \in 0 .. MaxFeed
        /\ (rcv.index - 1) + 1 = rcv.index
    BY <1>3, <2>1
  <2>3. expected' = addMultSeqNb(first, rcv.index) /\ expected' \in LiveSeqNbs
    BY <1>3, <1>7, <2>1, <2>2, NumberFacts
  <2>4. i <= rcv.index
    <3>1. diffSeqNb(addMultSeqNb(first, i - 1), addMultSeqNb(first, rcv.index - 1))
            < MAX_MISSED_SEQNBS
      BY <1>1, <1>2, <1>3, <1>4, <2>1 DEF ExpectedOK
    <3>2. i - 1 <= rcv.index - 1
      BY <1>3, <2>2, <3>1, WindowIsAhead
    <3>3. QED
      BY <2>1, <3>2
  <2>5. ShownBelow(rcv.index)
    <3>1. ASSUME NEW n \in DOMAIN shown, shown[n][1] = watching
          PROVE  shown[n][2] < rcv.index
      <4>1. shown[n][2] \in Int
        BY <1>2 DEF TypeInv, TypeOK
      <4>2. shown[n][2] < i
        BY <1>4, <3>1 DEF ShownBelow
      <4>3. QED
        BY <2>1, <2>4, <4>1, <4>2
    <3>2. QED
      BY <3>1 DEF ShownBelow
  <2>6. ExpectedOK'
    BY <1>1, <1>3, <1>7, <2>1, <2>3, <2>5 DEF ExpectedOK, ShownBelow, droneVars
  <2>7. TypeInv'
    <3>1. TypeOK'
      BY <1>1, <1>2, <1>7, <2>3 DEF droneVars, TypeInv, TypeOK, Occupied, LiveSeqNbs, SeqNbs
    <3>2. StatesOK'
      BY <1>1, <1>2, <1>3, <1>7, <2>3 DEF droneVars, TypeInv, StatesOK
    <3>3. QED
      BY <1>5, <3>1, <3>2 DEF TypeInv
  <2>8. QED
    BY <1>1, <1>3, <1>5, <1>6, <1>7, <2>6, <2>7, BaseStep
<1>8. CASE rcv' = NoMessage /\ feedState' = "MESS_idle" /\ expected' = expected
  <2>1. ExpectedOK'
    BY <1>1, <1>4, <1>8 DEF ExpectedOK, ShownBelow, droneVars
  <2>2. TypeInv'
    <3>1. TypeOK'
      BY <1>1, <1>2, <1>8 DEF droneVars, TypeInv, TypeOK, Occupied
    <3>2. StatesOK'
      BY <1>1, <1>2, <1>8 DEF droneVars, TypeInv, StatesOK
    <3>3. QED
      BY <1>5, <3>1, <3>2 DEF TypeInv
  <2>3. QED
    BY <1>1, <1>5, <1>6, <1>8, <2>1, <2>2, BaseStep
<1>9. QED
  BY <1>7, <1>8 DEF MESS_verify_Res

LEMMA ReactStep ==
    ASSUME IInv, MESS_react_Res
    PROVE  IInv'
<1>1. /\ feedState = "MESS_react" /\ shown' = Append(shown, <<rcv.session, rcv.index>>)
      /\ rcv' = NoMessage /\ feedState' = "MESS_idle" /\ UNCHANGED droneVars
      /\ UNCHANGED <<sys, watching, expected, buf>>
  BY DEF MESS_react_Res, sysVars
<1>2. TypeInv /\ MessagesOK /\ ExpectedOK
  BY DEF IInv
<1>3. /\ sys = "SessionReady" /\ watching = session /\ first \in LiveSeqNbs
      /\ rcv \in FeedMessages /\ Numbered(rcv)
      /\ session \in Nat /\ count \in Nat /\ MaxFeed \in Nat
  BY <1>1, <1>2, TypeFacts DEF TypeInv, StatesOK, MessagesOK
<1>4. /\ rcv.session = watching /\ expected = addMultSeqNb(first, rcv.index)
      /\ ShownBelow(rcv.index)
  BY <1>1, <1>2, <1>3 DEF ExpectedOK
<1>5. rcv.session \in 1 .. MaxSessions /\ rcv.index \in 1 .. MaxFeed /\ rcv.index <= count
  BY <1>3, <1>4 DEF FeedMessages, Numbered
<1>6. PICK e \in (1 .. MaxSessions) \X (1 .. MaxFeed) :
         e[1] = watching /\ e[2] = rcv.index /\ shown' = Append(shown, e)
  BY <1>1, <1>4, <1>5
<1>7. /\ shown \in Seq((1 .. MaxSessions) \X (1 .. MaxFeed))
      /\ shown' \in Seq((1 .. MaxSessions) \X (1 .. MaxFeed))
      /\ Len(shown) \in Nat
      /\ \A n \in DOMAIN shown : n \in 1 .. Len(shown) /\ shown[n][1] \in Int /\ shown[n][2] \in Int
      /\ \A n \in DOMAIN shown' : \/ n \in DOMAIN shown /\ shown'[n] = shown[n]
                                  \/ n = Len(shown) + 1 /\ shown'[n] = e
  <2>1. shown \in Seq((1 .. MaxSessions) \X (1 .. MaxFeed))
    BY <1>2 DEF TypeInv, TypeOK
  <2>2. QED
    BY <1>6, <2>1
<1>8. ShownInOrder'
  <2>1. ASSUME NEW m \in DOMAIN shown', NEW n \in DOMAIN shown', m < n
        PROVE  Earlier(shown'[m], shown'[n])
    <3>1. CASE n \in DOMAIN shown /\ shown'[n] = shown[n]
      <4>1. n \in 1 .. Len(shown) /\ m # Len(shown) + 1
        BY <1>7, <2>1, <3>1
      <4>2. m \in DOMAIN shown /\ shown'[m] = shown[m]
        BY <1>7, <4>1
      <4>3. QED
        BY <2>1, <3>1, <4>2 DEF IInv, ShownInOrder
    <3>2. CASE n = Len(shown) + 1 /\ shown'[n] = e
      <4>1. m \in DOMAIN shown /\ shown'[m] = shown[m]
        <5>1. m # Len(shown) + 1
          BY <1>7, <2>1, <3>2
        <5>2. QED
          BY <1>7, <5>1
      <4>2. shown[m][1] <= watching /\ (shown[m][1] = watching => shown[m][2] < rcv.index)
        BY <1>4, <4>1 DEF IInv, ShownBelow
      <4>3. shown[m][1] \in Int /\ watching \in Int
        BY <1>3, <1>7, <4>1
      <4>4. shown[m][1] < watching \/ (shown[m][1] = watching /\ shown[m][2] < rcv.index)
        BY <4>2, <4>3
      <4>5. QED
        BY <1>6, <3>2, <4>1, <4>4 DEF Earlier
    <3>3. QED
      BY <1>7, <3>1, <3>2
  <2>2. QED
    BY <2>1 DEF ShownInOrder, Earlier
<1>9. (\A n \in DOMAIN shown : shown[n][1] <= watching)'
  <2>1. watching <= watching
    BY <1>3
  <2>2. QED
    BY <1>1, <1>6, <1>7, <2>1 DEF IInv
<1>10. ExpectedOK'
  <2>1. rcv.index + 1 \in 1 .. count + 1 /\ (rcv.index + 1) - 1 = rcv.index
    BY <1>3, <1>5
  <2>2. PICK i \in 1 .. count + 1 : i = rcv.index + 1 /\ expected = addMultSeqNb(first, i - 1)
    BY <1>4, <2>1
  <2>3. ShownBelow(i)'
    <3>1. ASSUME NEW n \in DOMAIN shown', shown'[n][1] = watching
          PROVE  shown'[n][2] < i
      <4>1. CASE n \in DOMAIN shown /\ shown'[n] = shown[n]
        <5>1. shown[n][2] < rcv.index
          BY <1>4, <3>1, <4>1 DEF ShownBelow
        <5>2. shown[n][2] \in Int /\ rcv.index \in Int /\ i = rcv.index + 1
          BY <1>5, <1>7, <2>2, <4>1
        <5>3. QED
          BY <4>1, <5>1, <5>2
      <4>2. CASE shown'[n] = e
        BY <1>5, <1>6, <2>2, <4>2
      <4>3. QED
        BY <1>7, <4>1, <4>2
    <3>2. QED
      BY <1>1, <3>1 DEF ShownBelow
  <2>4. (\E j \in 1 .. count + 1 : expected = addMultSeqNb(first, j - 1) /\ ShownBelow(j))'
    BY <1>1, <2>2, <2>3 DEF droneVars
  <2>5. QED
    BY <1>1, <2>4 DEF ExpectedOK
<1>11. Good(buf') /\ FreePlacesCounted'
  BY <1>1, <1>2, TypeFacts DEF MessagesOK, TypeInv, FreePlacesCounted, Occupied
<1>12. TypeInv'
  <2>1. TypeOK'
    BY <1>1, <1>2, <1>7 DEF droneVars, TypeInv, TypeOK, Occupied
  <2>2. StatesOK'
    BY <1>1, <1>2 DEF droneVars, TypeInv, StatesOK
  <2>3. QED
    BY <1>11, <2>1, <2>2 DEF TypeInv
<1>13. QED
  BY <1>1, <1>8, <1>9, <1>10, <1>11, <1>12, BaseStep

LEMMA IInvInit ==
    ASSUME Init
    PROVE  IInv
<1>1. /\ session = 0 /\ first = 0 /\ next = 0 /\ count = 0 /\ net = {} /\ sys = "KEP"
      /\ watching = 0 /\ expected \in SeqNbs /\ feedState = "MESS_idle" /\ rcv = NoMessage
      /\ buf = [place |-> [i \in Places |-> Empty], free |-> NB_CACHED_MESSAGES]
      /\ shown = <<>>
  BY DEF Init
<1>2. 0 \in SeqNbs /\ MaxSessions \in Nat /\ MaxFeed \in Nat
  BY SeqNbAssumption, VideoBufferAssumption DEF SeqNbs
<1>3. Occupied(buf) = {}
  BY <1>1 DEF Occupied
<1>4. FreePlacesCounted
  <2>1. Places \ {} = Places /\ buf.free = NB_CACHED_MESSAGES
    BY <1>1
  <2>2. QED
    BY <1>3, <2>1, PlacesFacts DEF FreePlacesCounted
<1>5. TypeOK
  BY <1>1, <1>2, PlacesFacts DEF TypeOK
<1>6. QED
  BY <1>1, <1>3, <1>4, <1>5
     DEF IInv, TypeInv, StatesOK, MessagesOK, ExpectedOK, ShownInOrder

LEMMA IInvStep ==
    ASSUME IInv, [Next]_vars
    PROVE  IInv'
<1>1. CASE UNCHANGED vars
  <2>1. UNCHANGED <<session, first, next, count, net, sys, watching, expected, feedState, rcv,
                    buf, shown>>
    BY <1>1 DEF vars, droneVars, sysVars
  <2>2. TypeInv'
    BY <2>1 DEF IInv, TypeInv, TypeOK, StatesOK, FreePlacesCounted, Occupied
  <2>3. MessagesOK'
    BY <2>1 DEF IInv, MessagesOK, Numbered, Occupied
  <2>4. ExpectedOK'
    BY <2>1 DEF IInv, ExpectedOK, ShownBelow
  <2>5. QED
    BY <2>1, <2>2, <2>3, <2>4 DEF IInv, ShownInOrder, Earlier
<1>2. QED
  BY <1>1, SendStep, DroneEntersStep, BaseEntersStep, ClearStep, KepPollStep, IdleStep,
     VerifyStep, ReactStep DEF Next

LEMMA Invariance == Spec => []IInv
<1>1. Init => IInv
  BY IInvInit
<1>2. IInv /\ [Next]_vars => IInv'
  BY IInvStep
<1>3. QED
  BY <1>1, <1>2, PTL DEF Spec

-----------------------------------------------------------------------------
(* The theorems. *)

\* No number, count or place of the buffer leaves its range, in a session or
\* while a key is established.
THEOREM TypeCorrect == Spec => []TypeOK
<1>1. IInv => TypeOK
  BY DEF IInv, TypeInv
<1>2. QED
  BY <1>1, Invariance, PTL

\* However messages arrive and sessions follow one another, nbFreePlaces counts
\* the places that are free, and a message that arrives finds one: the copy that
\* "should never" fail never does, and the buffer never throws everything away.
THEOREM PlaceToSpare == Spec => []FreePlacesCounted
<1>1. IInv => FreePlacesCounted
  BY DEF IInv, TypeInv
<1>2. QED
  BY <1>1, Invariance, PTL

\* Pictures are shown in the order they were taken in, none twice, although the
\* buffer gives up messages out of turn and keeps some of an earlier session, as
\* long as no session takes so many messages that its numbers come round.
THEOREM InOrder == Spec => []ShownInOrder
<1>1. IInv => ShownInOrder
  BY DEF IInv
<1>2. QED
  BY <1>1, Invariance, PTL
=============================================================================
