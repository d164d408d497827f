------------------------- MODULE InputMethod_proofs -------------------------
(***************************************************************************)
(* Proofs about InputMethod for any number of keys: no release passes its  *)
(* press, and no key stays down at the page for want of an answer.         *)
(***************************************************************************)
EXTENDS InputMethod, TLAPS

(***************************************************************************)
(* A press is held back only behind releases that wait, so the release of  *)
(* a held press is further from the head of its queue than the press is    *)
(* from the head of its own; answers take one of each.                     *)
(***************************************************************************)
Behind(q) ==
  /\ q.keyDowns # <<>> => Len(q.keyDowns) < Len(q.keyUps)
  /\ \A i \in 1..Len(q.keyUps) :
        \/ q.keyUps[i] \in q.pressed
        \/ \E j \in 1..Len(q.keyDowns) :
              j < i /\ q.keyDowns[j].key = q.keyUps[i]

\* The same between HandleKeyUpQueue and HandleKeyDownQueue.
Level(q) ==
  /\ q.keyDowns # <<>> => Len(q.keyDowns) <= Len(q.keyUps)
  /\ \A i \in 1..Len(q.keyUps) :
        \/ q.keyUps[i] \in q.pressed
        \/ \E j \in 1..Len(q.keyDowns) :
              j <= i /\ q.keyDowns[j].key = q.keyUps[i]

\* Keys whose release waits, was sent or was dropped.
Known(q) == Owed(q) \union q.released \union q.lost
HeldKeys(q) == {q.keyDowns[i].key : i \in DOMAIN q.keyDowns}
Accounted(q) == q.pressed \union HeldKeys(q) \subseteq Known(q)

\* Answers to come, and presses that will bring one.
ToCome(q) == Len(q.unanswered) + Len(q.keyDowns)

\* For each release that waits there is an answer to come that will send it,
\* or the round kept for a modifier; and a press is not held back when no
\* answer is to come, but for that round.
Coming(q, kept) ==
  /\ Len(q.keyUps) <= ToCome(q) + (IF kept THEN 1 ELSE 0)
  /\ q.unanswered = <<>> /\ ~kept => q.keyDowns = <<>>

Orderly(q) == q \in Queues /\ Behind(q) /\ q.early = {} /\ Accounted(q)

InputInv ==
  /\ InputTypeOK /\ Behind(queues) /\ PressedFirst /\ Accounted(queues)
  /\ Coming(queues, isModifier)
-----------------------------------------------------------------------------
\* The steps of the operators on queues.

LEMMA ToComeAdds ==
  ASSUME NEW q, NEW r, NEW m \in {0, 1}, NEW n \in {0, 1},
         Len(q.unanswered) \in Nat, Len(q.keyDowns) \in Nat,
         Len(r.unanswered) = Len(q.unanswered) + m,
         Len(r.keyDowns) = Len(q.keyDowns) + n
  PROVE  ToCome(r) = ToCome(q) + m + n /\ ToCome(q) \in Nat
<1> DEFINE u == Len(q.unanswered)
           d == Len(q.keyDowns)
<1>1. u \in Nat /\ d \in Nat
  OBVIOUS
<1>2. ToCome(q) = u + d /\ ToCome(r) = (u + m) + (d + n)
  BY DEF ToCome
<1> HIDE DEF u, d
<1> QED
  BY <1>1, <1>2

LEMMA SpokenKeeps ==
  ASSUME NEW q \in Queues, NEW says \in Says
  PROVE  /\ Spoken(q, says) \in Queues
         /\ Spoken(q, says).keyUps = q.keyUps
         /\ Spoken(q, says).keyDowns = q.keyDowns
         /\ Spoken(q, says).unanswered = q.unanswered
         /\ Spoken(q, says).pressed = q.pressed
         /\ Spoken(q, says).early = q.early
         /\ Spoken(q, says).released = q.released
         /\ Spoken(q, says).lost = q.lost
<1>1. CASE says = "nothing"
  BY <1>1 DEF Spoken
<1>2. CASE says = "commit"
  <2>1. Spoken(q, says) = [q EXCEPT !.texts = @ + 1] /\ q.texts + 1 \in Nat
    BY <1>2 DEF Spoken, Queues
  <2> QED
    BY <2>1 DEF Queues
<1>3. CASE says = "clear"
  <2> DEFINE e == [q EXCEPT !.ended = @ + 1, !.texts = 0]
  <2>1. Spoken(q, says) = e /\ q.ended + 1 \in Nat
    BY <1>3 DEF Spoken, Queues
  <2>2. /\ e \in Queues /\ e.keyUps = q.keyUps /\ e.keyDowns = q.keyDowns
        /\ e.unanswered = q.unanswered /\ e.pressed = q.pressed
        /\ e.early = q.early /\ e.released = q.released /\ e.lost = q.lost
    BY <2>1 DEF Queues
  <2> HIDE DEF e
  <2> QED
    BY <2>1, <2>2
<1>4. CASE says = "preedit"
  <2> DEFINE e == [q EXCEPT !.ended = @ + 1, !.texts = 0, !.preedits = @ + 1]
  <2>1. Spoken(q, says) = e /\ q.ended + 1 \in Nat /\ q.preedits + 1 \in Nat
    BY <1>4 DEF Spoken, Queues
  <2>2. /\ e \in Queues /\ e.keyUps = q.keyUps /\ e.keyDowns = q.keyDowns
        /\ e.unanswered = q.unanswered /\ e.pressed = q.pressed
        /\ e.early = q.early /\ e.released = q.released /\ e.lost = q.lost
    BY <2>1 DEF Queues
  <2> HIDE DEF e
  <2> QED
    BY <2>1, <2>2
<1> QED
  BY <1>1, <1>2, <1>3, <1>4 DEF Says

LEMMA SpokenGood ==
  ASSUME NEW q, Orderly(q), NEW says \in Says
  PROVE  /\ Orderly(Spoken(q, says))
         /\ Spoken(q, says).keyUps = q.keyUps
         /\ Spoken(q, says).keyDowns = q.keyDowns
         /\ Spoken(q, says).unanswered = q.unanswered
         /\ ToCome(Spoken(q, says)) = ToCome(q)
<1>1. q \in Queues
  BY DEF Orderly
<1> DEFINE s == Spoken(q, says)
<1>2. /\ s \in Queues /\ s.keyUps = q.keyUps /\ s.keyDowns = q.keyDowns
      /\ s.unanswered = q.unanswered /\ s.pressed = q.pressed
      /\ s.early = q.early /\ s.released = q.released /\ s.lost = q.lost
  BY <1>1, SpokenKeeps
<1> HIDE DEF s
<1>3. Accounted(s)
  BY <1>2 DEF Orderly, Accounted, Known, HeldKeys, Owed
<1>4. Orderly(s) /\ ToCome(s) = ToCome(q)
  BY <1>2, <1>3 DEF Orderly, Behind, ToCome
<1> QED
  BY <1>2, <1>4 DEF s

LEMMA ForwardKeeps ==
  ASSUME NEW q \in Queues, NEW press \in Presses
  PROVE  /\ Forward(q, press) \in Queues
         /\ Forward(q, press).keyUps = q.keyUps
         /\ Forward(q, press).keyDowns = q.keyDowns
         /\ Forward(q, press).unanswered = Append(q.unanswered, press)
         /\ Forward(q, press).pressed = q.pressed \union {press.key}
         /\ Forward(q, press).early = q.early
         /\ Forward(q, press).released = q.released
         /\ Forward(q, press).lost = q.lost
<1>1. /\ Append(q.unanswered, press) \in Seq(Presses)
      /\ q.pressed \union {press.key} \in SUBSET Keys
  BY DEF Queues, Presses
<1> QED
  BY <1>1 DEF Forward, Queues

LEMMA AppendedKey ==
  ASSUME NEW q, NEW r, NEW key, q.keyUps \in Seq(Keys), key \in Keys,
         r.keyUps = Append(q.keyUps, key)
  PROVE  key \in Owed(r) /\ Owed(q) \subseteq Owed(r)
<1>1. /\ Len(q.keyUps) + 1 \in DOMAIN r.keyUps
      /\ r.keyUps[Len(q.keyUps) + 1] = key
  OBVIOUS
<1>2. \A i \in DOMAIN q.keyUps : i \in DOMAIN r.keyUps
                                 /\ r.keyUps[i] = q.keyUps[i]
  OBVIOUS
<1> QED
  BY <1>1, <1>2 DEF Owed

LEMMA SendGood ==
  ASSUME NEW q, Orderly(q), NEW press \in Presses
  PROVE  /\ Orderly(SendNow(q, press))
         /\ Len(SendNow(q, press).keyUps) = Len(q.keyUps) + 1
         /\ SendNow(q, press).unanswered # <<>>
         /\ ToCome(SendNow(q, press)) = ToCome(q) + 1
<1> DEFINE f == Forward(q, press)
           s == SendNow(q, press)
<1>1. /\ q \in Queues /\ f \in Queues /\ press.key \in Keys
      /\ f.keyUps = q.keyUps /\ f.keyDowns = q.keyDowns
      /\ f.unanswered = Append(q.unanswered, press)
      /\ f.pressed = q.pressed \union {press.key} /\ f.early = q.early
      /\ f.released = q.released /\ f.lost = q.lost
  BY ForwardKeeps DEF Orderly, Presses
<1> HIDE DEF f
<1>2. /\ q.keyUps \in Seq(Keys) /\ q.keyDowns \in Seq(Presses)
      /\ q.unanswered \in Seq(Presses)
      /\ Append(q.keyUps, press.key) \in Seq(Keys)
  BY <1>1 DEF Queues
<1>3. s = [f EXCEPT !.keyUps = Append(q.keyUps, press.key)]
  BY <1>1 DEF f, SendNow
<1>4. /\ s \in Queues
      /\ s.keyUps = Append(q.keyUps, press.key)
      /\ s.keyDowns = q.keyDowns
      /\ s.unanswered = Append(q.unanswered, press)
      /\ s.pressed = q.pressed \union {press.key} /\ s.early = q.early
      /\ s.released = q.released /\ s.lost = q.lost
  <2> DEFINE e == [f EXCEPT !.keyUps = Append(q.keyUps, press.key)]
  <2>1. /\ e \in Queues
        /\ e.keyUps = Append(q.keyUps, press.key)
        /\ e.keyDowns = f.keyDowns /\ e.unanswered = f.unanswered
        /\ e.pressed = f.pressed /\ e.early = f.early
        /\ e.released = f.released /\ e.lost = f.lost
    BY <1>1, <1>2 DEF Queues
  <2> HIDE DEF e, s
  <2> QED
    BY <1>1, <1>3, <2>1 DEF e
<1> HIDE DEF s
<1>5. /\ Len(s.keyUps) = Len(q.keyUps) + 1
      /\ s.keyUps[Len(q.keyUps) + 1] = press.key
      /\ \A i \in 1..Len(q.keyUps) : s.keyUps[i] = q.keyUps[i]
      /\ Len(s.unanswered) = Len(q.unanswered) + 1
      /\ Len(q.keyUps) \in Nat /\ Len(q.unanswered) \in Nat
      /\ Len(q.keyDowns) \in Nat
  BY <1>1, <1>2, <1>4
<1>6. ASSUME NEW i \in 1..Len(s.keyUps)
      PROVE  \/ s.keyUps[i] \in s.pressed
             \/ \E j \in 1..Len(s.keyDowns) :
                   j < i /\ s.keyDowns[j].key = s.keyUps[i]
  <2>1. CASE i = Len(q.keyUps) + 1
    BY <1>4, <1>5, <2>1
  <2>2. CASE i \in 1..Len(q.keyUps)
    BY <1>4, <1>5, <2>2 DEF Orderly, Behind
  <2> QED
    BY <1>5, <2>1, <2>2
<1>7. Behind(s)
  BY <1>4, <1>5, <1>6 DEF Orderly, Behind
<1>8. Orderly(s)
  <2>1. press.key \in Owed(s) /\ Owed(q) \subseteq Owed(s)
    BY <1>1, <1>2, <1>4, AppendedKey
  <2>2. HeldKeys(s) = HeldKeys(q)
    BY <1>4 DEF HeldKeys
  <2>3. Accounted(s)
    BY <1>4, <2>1, <2>2 DEF Orderly, Accounted, Known
  <2> QED
    BY <1>4, <1>7, <2>3 DEF Orderly
<1>9. ToCome(s) = ToCome(q) + 1
  <2>1. Len(s.keyDowns) = Len(q.keyDowns) + 0
    BY <1>4, <1>5
  <2> QED
    BY <1>5, <2>1, ToComeAdds
<1>10. s.unanswered # <<>>
  BY <1>2, <1>4
<1> QED
  BY <1>5, <1>8, <1>9, <1>10 DEF s

LEMMA HoldGood ==
  ASSUME NEW q, Orderly(q), NEW press \in Presses, MustHold(q)
  PROVE  /\ Orderly(Hold(q, press))
         /\ Len(Hold(q, press).keyUps) = Len(q.keyUps) + 1
         /\ Hold(q, press).unanswered = q.unanswered
         /\ ToCome(Hold(q, press)) = ToCome(q) + 1
<1> DEFINE h == Hold(q, press)
<1>1. /\ q \in Queues /\ press.key \in Keys
      /\ q.keyUps \in Seq(Keys) /\ q.keyDowns \in Seq(Presses)
      /\ q.unanswered \in Seq(Presses)
  BY DEF Orderly, Queues, Presses
<1>2. /\ h \in Queues
      /\ h.keyUps = Append(q.keyUps, press.key)
      /\ h.keyDowns = Append(q.keyDowns, press)
      /\ h.unanswered = q.unanswered
      /\ h.pressed = q.pressed /\ h.early = q.early
      /\ h.released = q.released /\ h.lost = q.lost
  <2>1. /\ Append(q.keyUps, press.key) \in Seq(Keys)
        /\ Append(q.keyDowns, press) \in Seq(Presses)
    BY <1>1
  <2> QED
    BY <1>1, <2>1 DEF Hold, Queues
<1> HIDE DEF h
<1>3. Len(q.keyDowns) < Len(q.keyUps)
  BY <1>1 DEF Orderly, Behind, MustHold
<1>4. /\ Len(h.keyUps) = Len(q.keyUps) + 1
      /\ Len(h.keyDowns) = Len(q.keyDowns) + 1
      /\ Len(q.keyUps) \in Nat /\ Len(q.keyDowns) \in Nat
      /\ Len(q.unanswered) \in Nat
  BY <1>1, <1>2
<1>5. ASSUME NEW i \in 1..Len(h.keyUps)
      PROVE  \/ h.keyUps[i] \in h.pressed
             \/ \E j \in 1..Len(h.keyDowns) :
                   j < i /\ h.keyDowns[j].key = h.keyUps[i]
  <2>1. CASE i = Len(q.keyUps) + 1
    <3>1. h.keyUps[i] = press.key /\ h.keyDowns[Len(q.keyDowns) + 1] = press
      BY <1>1, <1>2, <2>1
    <3> QED
      BY <1>3, <1>4, <2>1, <3>1
  <2>2. CASE i \in 1..Len(q.keyUps)
    <3>1. h.keyUps[i] = q.keyUps[i]
      BY <1>1, <1>2, <2>2
    <3>2. \A j \in 1..Len(q.keyDowns) : h.keyDowns[j] = q.keyDowns[j]
      BY <1>1, <1>2
    <3> QED
      BY <1>2, <1>4, <2>2, <3>1, <3>2 DEF Orderly, Behind
  <2> QED
    BY <1>4, <2>1, <2>2
<1>6. Behind(h)
  BY <1>3, <1>4, <1>5 DEF Behind
<1>7. Orderly(h)
  <2>1. press.key \in Owed(h) /\ Owed(q) \subseteq Owed(h)
    BY <1>1, <1>2, AppendedKey
  <2>2. HeldKeys(h) \subseteq HeldKeys(q) \union {press.key}
    <3>1. \A i \in DOMAIN h.keyDowns :
            \/ i \in DOMAIN q.keyDowns /\ h.keyDowns[i] = q.keyDowns[i]
            \/ h.keyDowns[i] = press
      BY <1>1, <1>2
    <3> QED
      BY <3>1 DEF HeldKeys
  <2>3. Accounted(h)
    BY <1>2, <2>1, <2>2 DEF Orderly, Accounted, Known
  <2> QED
    BY <1>2, <1>6, <2>3 DEF Orderly
<1>8. ToCome(h) = ToCome(q) + 1
  <2>1. Len(h.unanswered) = Len(q.unanswered) + 0
    BY <1>2, <1>4
  <2> QED
    BY <1>4, <2>1, ToComeAdds
<1> QED
  BY <1>2, <1>4, <1>7, <1>8 DEF h

LEMMA ClearedGood ==
  ASSUME NEW q, Orderly(q)
  PROVE  /\ Orderly(Cleared(q))
         /\ Cleared(q).keyUps = <<>> /\ Cleared(q).keyDowns = <<>>
         /\ ToCome(Cleared(q)) \in Nat
<1>1. /\ Cleared(q) \in Queues
      /\ Cleared(q).keyUps = <<>> /\ Cleared(q).keyDowns = <<>>
      /\ Cleared(q).early = q.early /\ Cleared(q).pressed = q.pressed
      /\ Cleared(q).released = q.released
      /\ Cleared(q).lost = q.lost \union Owed(q)
  <2>1. /\ 0 \in Nat /\ <<>> \in Seq(Keys) /\ <<>> \in Seq(Presses)
        /\ q \in Queues
    BY DEF Orderly
  <2>2. Owed(q) \in SUBSET Keys
    BY <2>1 DEF Owed, Queues
  <2>3. q.lost \union Owed(q) \in SUBSET Keys
    BY <2>1, <2>2 DEF Queues
  <2>4. Cleared(q) \in Queues
    BY <2>1, <2>3 DEF Cleared, Queues
  <2> QED
    BY <2>1, <2>4 DEF Cleared, Queues
<1>2. Cleared(q).unanswered \in Seq(Presses)
  BY <1>1 DEF Queues
<1>3. Accounted(Cleared(q))
  BY <1>1 DEF Orderly, Accounted, Known, HeldKeys
<1> QED
  BY <1>1, <1>2, <1>3 DEF Orderly, Behind, ToCome
-----------------------------------------------------------------------------
\* The work of one answer.

LEMMA TextKeeps ==
  ASSUME NEW q \in Queues
  PROVE  /\ HandleTextQueues(q) \in Queues
         /\ HandleTextQueues(q).keyUps = q.keyUps
         /\ HandleTextQueues(q).keyDowns = q.keyDowns
         /\ HandleTextQueues(q).unanswered = q.unanswered
         /\ HandleTextQueues(q).pressed = q.pressed
         /\ HandleTextQueues(q).early = q.early
         /\ HandleTextQueues(q).released = q.released
         /\ HandleTextQueues(q).lost = q.lost
<1>1. LessOne(q.ended) \in Nat /\ LessOne(q.preedits) \in Nat
  BY DEF LessOne, Queues
<1>2. (IF q.ended = 0 THEN 0 ELSE q.texts) \in Nat
  BY DEF Queues
<1> HIDE DEF LessOne
<1> QED
  BY <1>1, <1>2 DEF HandleTextQueues, Queues

LEMMA KeyUpLevel ==
  ASSUME NEW q, Orderly(q)
  PROVE  /\ HandleKeyUpQueue(q) \in Queues /\ HandleKeyUpQueue(q).early = {}
         /\ Level(HandleKeyUpQueue(q)) /\ Accounted(HandleKeyUpQueue(q))
         /\ ToCome(HandleKeyUpQueue(q)) = ToCome(q)
         /\ \/ q.keyUps = <<>> /\ HandleKeyUpQueue(q).keyUps = <<>>
            \/ Len(HandleKeyUpQueue(q).keyUps) = Len(q.keyUps) - 1
<1>0. /\ q \in Queues /\ q.keyUps \in Seq(Keys) /\ q.keyDowns \in Seq(Presses)
      /\ q.unanswered \in Seq(Presses)
  BY DEF Orderly, Queues
<1>1. CASE q.keyUps = <<>>
  <2>1. HandleKeyUpQueue(q) = q
    BY <1>1 DEF HandleKeyUpQueue
  <2>2. q.keyDowns = <<>>
    BY <1>0, <1>1 DEF Orderly, Behind
  <2> QED
    BY <1>1, <2>1, <2>2 DEF Orderly, Level
<1>2. CASE q.keyUps # <<>>
  <2> DEFINE r == HandleKeyUpQueue(q)
  <2>1. Head(q.keyUps) = q.keyUps[1] /\ 1 \in 1..Len(q.keyUps)
    BY <1>0, <1>2
  <2>2. Head(q.keyUps) \in q.pressed
    BY <2>1, <1>0 DEF Orderly, Behind
  <2>3. /\ r \in Queues
        /\ r.keyUps = Tail(q.keyUps) /\ r.keyDowns = q.keyDowns
        /\ r.unanswered = q.unanswered /\ r.pressed = q.pressed
        /\ r.early = q.early \union ({Head(q.keyUps)} \ q.pressed)
        /\ r.released = q.released \union {Head(q.keyUps)}
        /\ r.lost = q.lost
    <3>1. Tail(q.keyUps) \in Seq(Keys)
      BY <1>0, <1>2
    <3>2. /\ q.early \union ({Head(q.keyUps)} \ q.pressed) \in SUBSET Keys
          /\ q.released \union {Head(q.keyUps)} \in SUBSET Keys
      BY <1>0, <2>1, <2>2 DEF Queues
    <3> QED
      BY <1>2, <3>1, <3>2, <1>0 DEF HandleKeyUpQueue, Queues
  <2> HIDE DEF r
  <2>4. r.early = {}
    BY <2>2, <2>3 DEF Orderly
  <2>5. /\ Len(r.keyUps) = Len(q.keyUps) - 1 /\ Len(r.keyUps) \in Nat
        /\ Len(r.keyDowns) \in Nat
        /\ \A i \in 1..Len(r.keyUps) : r.keyUps[i] = q.keyUps[i + 1]
    BY <1>0, <1>2, <2>3
  <2>6. Level(r)
    <3>1. ASSUME NEW i \in 1..Len(r.keyUps)
          PROVE  \/ r.keyUps[i] \in r.pressed
                 \/ \E j \in 1..Len(r.keyDowns) :
                       j <= i /\ r.keyDowns[j].key = r.keyUps[i]
      <4>1. i + 1 \in 1..Len(q.keyUps) /\ r.keyUps[i] = q.keyUps[i + 1]
        BY <2>5
      <4>2. \/ q.keyUps[i + 1] \in q.pressed
            \/ \E j \in 1..Len(q.keyDowns) :
                  j < i + 1 /\ q.keyDowns[j].key = q.keyUps[i + 1]
        BY <4>1 DEF Orderly, Behind
      <4> QED
        BY <2>3, <2>5, <4>1, <4>2
    <3>2. r.keyDowns # <<>> => Len(r.keyDowns) <= Len(r.keyUps)
      BY <1>0, <2>3, <2>5 DEF Orderly, Behind
    <3> QED
      BY <3>1, <3>2 DEF Level
  <2>7. ToCome(r) = ToCome(q)
    BY <2>3 DEF ToCome
  <2>8. Accounted(r)
    <3>1. \A i \in DOMAIN q.keyUps : i = 1 \/ (i - 1 \in DOMAIN r.keyUps
                                               /\ r.keyUps[i - 1] = q.keyUps[i])
      BY <1>0, <1>2, <2>3
    <3>2. Owed(q) \subseteq Owed(r) \union r.released
      BY <2>1, <2>3, <3>1 DEF Owed
    <3>3. HeldKeys(r) = HeldKeys(q)
      BY <2>3 DEF HeldKeys
    <3> QED
      BY <2>3, <3>2, <3>3 DEF Orderly, Accounted, Known
  <2> QED
    BY <2>3, <2>4, <2>5, <2>6, <2>7, <2>8 DEF r
<1> QED
  BY <1>1, <1>2

LEMMA KeyDownGood ==
  ASSUME NEW q \in Queues, q.early = {}, Level(q), Accounted(q)
  PROVE  /\ Orderly(HandleKeyDownQueue(q))
         /\ HandleKeyDownQueue(q).unanswered = <<>> =>
              HandleKeyDownQueue(q).keyDowns = <<>>
         /\ HandleKeyDownQueue(q).keyUps = q.keyUps
         /\ ToCome(HandleKeyDownQueue(q)) = ToCome(q)
<1>0. /\ q.keyUps \in Seq(Keys) /\ q.keyDowns \in Seq(Presses)
      /\ q.unanswered \in Seq(Presses)
  BY DEF Queues
<1>1. CASE q.keyDowns = <<>>
  <2>1. HandleKeyDownQueue(q) = q /\ Len(q.keyDowns) = 0
    BY <1>1 DEF HandleKeyDownQueue
  <2> QED
    BY <1>1, <2>1 DEF Orderly, Behind, Level
<1>2. CASE q.keyDowns # <<>>
  <2> DEFINE f == Forward(q, Head(q.keyDowns))
             n == HandleKeyDownQueue(q)
  <2>1. Head(q.keyDowns) \in Presses /\ Head(q.keyDowns) = q.keyDowns[1]
    BY <1>0, <1>2
  <2>2. /\ f \in Queues
        /\ f.keyUps = q.keyUps /\ f.keyDowns = q.keyDowns
        /\ f.unanswered = Append(q.unanswered, Head(q.keyDowns))
        /\ f.pressed = q.pressed \union {Head(q.keyDowns).key}
        /\ f.early = q.early /\ f.released = q.released /\ f.lost = q.lost
    BY <2>1, ForwardKeeps
  <2>3. n = [f EXCEPT !.keyDowns = Tail(@)]
    BY <1>2 DEF HandleKeyDownQueue
  <2> HIDE DEF f, n
  <2>4. /\ n \in Queues
        /\ n.keyUps = q.keyUps /\ n.keyDowns = Tail(q.keyDowns)
        /\ n.unanswered = Append(q.unanswered, Head(q.keyDowns))
        /\ n.pressed = q.pressed \union {Head(q.keyDowns).key}
        /\ n.early = q.early /\ n.released = q.released /\ n.lost = q.lost
    <3>1. Tail(q.keyDowns) \in Seq(Presses)
      BY <1>0, <1>2
    <3> QED
      BY <2>2, <2>3, <3>1 DEF Queues
  <2>5. /\ Len(n.keyDowns) = Len(q.keyDowns) - 1 /\ Len(n.keyDowns) \in Nat
        /\ Len(n.keyUps) \in Nat
        /\ Len(n.unanswered) = Len(q.unanswered) + 1
        /\ Len(q.unanswered) \in Nat /\ Len(q.keyDowns) \in Nat
        /\ \A j \in 1..Len(n.keyDowns) : n.keyDowns[j] = q.keyDowns[j + 1]
    BY <1>0, <1>2, <2>1, <2>4
  <2>6. ASSUME NEW i \in 1..Len(n.keyUps)
        PROVE  \/ n.keyUps[i] \in n.pressed
               \/ \E j \in 1..Len(n.keyDowns) :
                     j < i /\ n.keyDowns[j].key = n.keyUps[i]
    <3>1. CASE q.keyUps[i] \in q.pressed
      BY <2>4, <3>1
    <3>2. ASSUME NEW j \in 1..Len(q.keyDowns), j <= i,
                 q.keyDowns[j].key = q.keyUps[i]
          PROVE  \/ n.keyUps[i] \in n.pressed
                 \/ \E k \in 1..Len(n.keyDowns) :
                       k < i /\ n.keyDowns[k].key = n.keyUps[i]
      <4>1. CASE j = 1
        BY <2>1, <2>4, <3>2, <4>1
      <4>2. CASE j # 1
        <5>1. j - 1 \in 1..Len(n.keyDowns) /\ j - 1 < i
          BY <2>5, <3>2, <4>2
        <5>2. n.keyDowns[j - 1] = q.keyDowns[j]
          BY <2>5, <5>1
        <5> QED
          BY <2>4, <3>2, <5>1, <5>2
      <4> QED
        BY <4>1, <4>2
    <3> QED
      BY <2>4, <3>1, <3>2 DEF Level
  <2>7. n.keyDowns # <<>> => Len(n.keyDowns) < Len(n.keyUps)
    BY <1>2, <2>4, <2>5 DEF Level
  <2>8. Orderly(n)
    <3>1. \A i \in DOMAIN n.keyDowns : i + 1 \in DOMAIN q.keyDowns
                                       /\ n.keyDowns[i] = q.keyDowns[i + 1]
      BY <1>0, <1>2, <2>4
    <3>2. /\ HeldKeys(n) \subseteq HeldKeys(q)
          /\ Head(q.keyDowns).key \in HeldKeys(q)
      BY <1>0, <1>2, <2>1, <3>1 DEF HeldKeys
    <3>3. Known(n) = Known(q)
      BY <2>4 DEF Known, Owed
    <3>4. Accounted(n)
      BY <2>4, <3>2, <3>3 DEF Accounted
    <3> QED
      BY <2>4, <2>6, <2>7, <3>4 DEF Orderly, Behind
  <2>9. ToCome(n) = ToCome(q)
    <3>1. /\ Len(q.keyDowns) = Len(n.keyDowns) + 1
          /\ Len(q.unanswered) + 1 = Len(n.unanswered)
          /\ Len(q.unanswered) \in Nat
      BY <2>5
    <3> DEFINE u == Len(q.unanswered)
               d == Len(n.keyDowns)
    <3>2. ToCome(n) = (u + 1) + d /\ ToCome(q) = u + (d + 1)
      BY <3>1 DEF ToCome
    <3>3. u \in Nat /\ d \in Nat
      BY <2>5
    <3> HIDE DEF u, d
    <3> QED
      BY <3>2, <3>3
  <2>10. n.unanswered # <<>>
    BY <1>0, <2>4
  <2> QED
    BY <2>4, <2>8, <2>9, <2>10 DEF n
<1> QED
  BY <1>1, <1>2

\* One answer takes one release, if any is owed, and no answer to come is lost.
LEMMA RoundGood ==
  ASSUME NEW q, Orderly(q)
  PROVE  /\ Orderly(Round(q))
         /\ Round(q).unanswered = <<>> => Round(q).keyDowns = <<>>
         /\ ToCome(Round(q)) = ToCome(q)
         /\ \/ q.keyUps = <<>> /\ Round(q).keyUps = <<>>
            \/ Len(Round(q).keyUps) = Len(q.keyUps) - 1
<1> DEFINE t == HandleTextQueues(q)
           u == HandleKeyUpQueue(t)
<1>1. Orderly(t) /\ t.keyUps = q.keyUps /\ ToCome(t) = ToCome(q)
  <2>1. q \in Queues
    BY DEF Orderly
  <2>2. /\ t \in Queues /\ t.keyUps = q.keyUps /\ t.keyDowns = q.keyDowns
        /\ t.unanswered = q.unanswered /\ t.pressed = q.pressed
        /\ t.early = q.early /\ t.released = q.released /\ t.lost = q.lost
    BY <2>1, TextKeeps
  <2> HIDE DEF t
  <2>3. Accounted(t)
    BY <2>2 DEF Orderly, Accounted, Known, HeldKeys, Owed
  <2> QED
    BY <2>2, <2>3 DEF Orderly, Behind, ToCome
<1>2. /\ u \in Queues /\ u.early = {} /\ Level(u) /\ Accounted(u)
      /\ ToCome(u) = ToCome(q)
      /\ \/ q.keyUps = <<>> /\ u.keyUps = <<>>
         \/ Len(u.keyUps) = Len(q.keyUps) - 1
  BY <1>1, KeyUpLevel
<1> QED
  BY <1>2, KeyDownGood DEF Round
-----------------------------------------------------------------------------
LEMMA InputInitInv == InputInit => InputInv
<1> SUFFICES ASSUME InputInit PROVE InputInv
  OBVIOUS
<1>1. queues \in Queues
  BY DEF InputInit, Queues
<1>2. presses \in 0..MaxKeys
  BY KeysAssumption DEF InputInit
<1>3. Behind(queues) /\ Accounted(queues) /\ Coming(queues, isModifier)
  BY DEF InputInit, Behind, Accounted, HeldKeys, Coming, ToCome
<1>4. isModifier \in BOOLEAN
  BY DEF InputInit
<1>5. PressedFirst
  BY DEF InputInit, PressedFirst
<1> QED
  BY <1>1, <1>2, <1>3, <1>4, <1>5 DEF InputInv, InputTypeOK

\* What an action has to leave, besides its own variables' types.
LEMMA GoodInv ==
  ASSUME InputInv, Orderly(queues'), presses' \in 0..MaxKeys,
         isModifier' \in BOOLEAN, Coming(queues', isModifier')
  PROVE  InputInv'
<1>1. InputTypeOK' /\ Behind(queues)' /\ PressedFirst' /\ Accounted(queues)'
  BY DEF Orderly, Behind, PressedFirst, InputTypeOK, Accounted, Known, HeldKeys,
         Owed
<1>2. Coming(queues, isModifier)'
  BY DEF Coming, ToCome
<1> QED
  BY <1>1, <1>2 DEF InputInv

LEMMA InvGood ==
  ASSUME InputInv
  PROVE  /\ Orderly(queues) /\ queues.unanswered \in Seq(Presses)
         /\ queues.keyUps \in Seq(Keys)
         /\ Len(queues.keyUps) \in Nat /\ Len(queues.keyDowns) \in Nat
         /\ Len(queues.unanswered) \in Nat /\ ToCome(queues) \in Nat
         /\ Coming(queues, isModifier)
<1>1. queues \in Queues
  BY DEF InputInv, InputTypeOK
<1>2. Orderly(queues)
  BY <1>1 DEF InputInv, Orderly, PressedFirst
<1>3. /\ Len(queues.keyUps) \in Nat /\ Len(queues.keyDowns) \in Nat
      /\ Len(queues.unanswered) \in Nat /\ queues.unanswered \in Seq(Presses)
      /\ queues.keyUps \in Seq(Keys)
  BY <1>1 DEF Queues
<1>4. ToCome(queues) \in Nat
  <2>1. /\ Len(queues.unanswered) = Len(queues.unanswered) + 0
        /\ Len(queues.keyDowns) = Len(queues.keyDowns) + 0
    BY <1>3
  <2> QED
    BY <1>3, <2>1, ToComeAdds
<1> QED
  BY <1>2, <1>3, <1>4 DEF InputInv

\* Without an answer to come, and without a kept round, no release waits.
LEMMA NothingOwed ==
  ASSUME NEW q, q.keyUps \in Seq(Keys), NEW kept \in BOOLEAN, ~kept,
         Coming(q, kept), q.unanswered = <<>>
  PROVE  q.keyUps = <<>>
<1>1. Len(q.keyDowns) = 0 /\ Len(q.unanswered) = 0
  BY DEF Coming
<1>2. Len(q.keyUps) <= 0
  BY <1>1 DEF Coming, ToCome
<1> QED
  BY <1>2

LEMMA InputNextInv ==
  ASSUME InputInv, [InputNext]_inputVars
  PROVE  InputInv'
<1>0. /\ queues \in Queues /\ presses \in 0..MaxKeys
      /\ isModifier \in BOOLEAN
  BY DEF InputInv, InputTypeOK
<1>1. ASSUME NEW says \in {"commit", "preedit"}, OnText(says) PROVE InputInv'
  <2>1. says \in Says
    BY <1>1 DEF Says
  <2>2. NextPress(FALSE) \in Presses /\ presses' \in 0..MaxKeys
    BY <1>0, <1>1, KeysAssumption DEF OnText, NextPress, Presses, Keys
  <2>3. /\ Orderly(Spoken(queues, says))
        /\ Spoken(queues, says).keyUps = queues.keyUps
        /\ ToCome(Spoken(queues, says)) = ToCome(queues)
    BY <2>1, InvGood, SpokenGood
  <2>4. /\ Orderly(queues') /\ Len(queues'.keyUps) = Len(queues.keyUps) + 1
        /\ ToCome(queues') = ToCome(queues) + 1 /\ queues'.unanswered # <<>>
    BY <1>1, <2>2, <2>3, SendGood DEF OnText
  <2>5. isModifier' = isModifier
    BY <1>1 DEF OnText
  <2>6. Coming(queues', isModifier')
    BY <1>0, <2>4, <2>5, InvGood DEF Coming
  <2> QED
    BY <1>0, <2>2, <2>4, <2>5, <2>6, GoodInv
<1>2. CASE OnPreeditEmpty
  <2>1. "clear" \in Says
    BY DEF Says
  <2>2. /\ Orderly(queues') /\ queues'.keyUps = queues.keyUps
        /\ queues'.keyDowns = queues.keyDowns
        /\ queues'.unanswered = queues.unanswered
        /\ ToCome(queues') = ToCome(queues)
    BY <1>2, <2>1, InvGood, SpokenGood DEF OnPreeditEmpty
  <2>3. UNCHANGED <<presses, isModifier>>
    BY <1>2 DEF OnPreeditEmpty
  <2>4. Coming(queues', isModifier')
    BY <2>2, <2>3, InvGood DEF Coming
  <2> QED
    BY <1>0, <2>2, <2>3, <2>4, GoodInv
<1>3. ASSUME NEW return \in BOOLEAN, NEW mods \in BOOLEAN, NEW first \in Says,
             NEW second \in Says, HandleKeyDown(return, mods, first, second)
      PROVE  InputInv'
  <2> DEFINE q == IF return THEN Cleared(queues) ELSE queues
             t == SpokenTwice(q, first, second)
  <2>1. NextPress(mods) \in Presses /\ presses' \in 0..MaxKeys
    BY <1>0, <1>3, KeysAssumption DEF HandleKeyDown, NextPress, Presses, Keys
  <2>2. /\ Orderly(q) /\ ToCome(q) \in Nat /\ q.keyUps \in Seq(Keys)
        /\ Len(q.keyUps) \in Nat /\ Coming(q, isModifier)
    <3>1. CASE return
      <4>1. /\ Orderly(Cleared(queues)) /\ Cleared(queues).keyUps = <<>>
            /\ ToCome(Cleared(queues)) \in Nat
            /\ Cleared(queues).keyDowns = <<>>
        BY InvGood, ClearedGood
      <4>2. Coming(Cleared(queues), isModifier)
        BY <1>0, <4>1 DEF Coming
      <4>3. <<>> \in Seq(Keys) /\ Len(<<>>) \in Nat
        OBVIOUS
      <4> QED
        BY <3>1, <4>1, <4>2, <4>3
    <3>2. CASE ~return
      <4> QED
        BY <3>2, InvGood
    <3> QED
      BY <3>1, <3>2
  <2> HIDE DEF q
  <2>3. /\ Orderly(t) /\ t.keyUps = q.keyUps /\ ToCome(t) = ToCome(q)
        /\ t.keyDowns = q.keyDowns /\ t.unanswered = q.unanswered
    BY <2>2, SpokenGood DEF SpokenTwice
  <2>4. queues' = Down(t, NextPress(mods))
    BY <1>3 DEF HandleKeyDown, q
  <2> HIDE DEF t
  <2>5. /\ Orderly(queues') /\ Len(queues'.keyUps) = Len(q.keyUps) + 1
        /\ ToCome(queues') = ToCome(q) + 1
        /\ queues'.unanswered # <<>>
             \/ (MustHold(t) /\ queues'.unanswered = q.unanswered)
    BY <2>1, <2>3, <2>4, SendGood, HoldGood DEF Down
  <2>6. isModifier' = isModifier
    BY <1>3 DEF HandleKeyDown
  <2>7. queues'.unanswered = <<>> => isModifier
    <3>1. MustHold(t) => q.keyUps # <<>>
      BY <2>3 DEF MustHold
    <3> QED
      BY <1>0, <2>2, <2>5, <3>1, NothingOwed
  <2>8. Coming(queues', isModifier')
    BY <1>0, <2>2, <2>5, <2>6, <2>7 DEF Coming
  <2> QED
    BY <1>0, <2>1, <2>5, <2>6, <2>8, GoodInv
<1>4. CASE CancelComposition
  <2>1. /\ Orderly(queues') /\ queues'.keyUps = <<>> /\ ToCome(queues') \in Nat
        /\ queues'.keyDowns = <<>>
    BY <1>4, InvGood, ClearedGood DEF CancelComposition
  <2>2. UNCHANGED <<presses, isModifier>>
    BY <1>4 DEF CancelComposition
  <2>3. Coming(queues', isModifier')
    BY <1>0, <2>1, <2>2 DEF Coming
  <2> QED
    BY <1>0, <2>1, <2>2, <2>3, GoodInv
<1>5. CASE OnDidHandleKeyEvent
  <2> DEFINE mods == Head(queues.unanswered).mods
             q == [queues EXCEPT !.unanswered = Tail(@)]
  <2>1. /\ q \in Queues /\ q.keyUps = queues.keyUps
        /\ q.keyDowns = queues.keyDowns /\ q.pressed = queues.pressed
        /\ q.early = queues.early /\ q.unanswered = Tail(queues.unanswered)
        /\ q.released = queues.released /\ q.lost = queues.lost
    <3>1. Tail(queues.unanswered) \in Seq(Presses)
      BY <1>5, InvGood DEF OnDidHandleKeyEvent
    <3> QED
      BY <1>0, <3>1 DEF Queues
  <2>2. Len(q.unanswered) = Len(queues.unanswered) - 1
    BY <1>5, <2>1, InvGood DEF OnDidHandleKeyEvent
  <2>3. /\ \/ mods /\ ~isModifier /\ isModifier' = TRUE /\ queues' = q
           \/ isModifier /\ isModifier' = FALSE /\ queues' = Round(Round(q))
           \/ ~isModifier /\ queues' = Round(q) /\ isModifier' = isModifier
        /\ presses' = presses
    BY <1>5 DEF OnDidHandleKeyEvent
  <2> HIDE DEF q, mods
  <2>4. Orderly(q) /\ ToCome(q) = ToCome(queues) - 1
    <3>1. Orderly(q)
      BY <2>1, InvGood DEF Orderly, Behind, Accounted, Known, HeldKeys, Owed
    <3>2. ToCome(q) = ToCome(queues) - 1
      <4>1. /\ Len(queues.unanswered) = Len(q.unanswered) + 1
            /\ Len(queues.keyDowns) = Len(q.keyDowns) + 0
            /\ Len(q.unanswered) \in Nat /\ Len(q.keyDowns) \in Nat
        BY <2>1, <2>2, InvGood
      <4>2. ToCome(queues) = ToCome(q) + 1 + 0 /\ ToCome(q) \in Nat
        BY <4>1, ToComeAdds
      <4> QED
        BY <4>2
    <3> QED
      BY <3>1, <3>2
  <2>5. /\ Orderly(Round(q)) /\ ToCome(Round(q)) = ToCome(q)
        /\ Round(q).unanswered = <<>> => Round(q).keyDowns = <<>>
        /\ \/ q.keyUps = <<>> /\ Round(q).keyUps = <<>>
           \/ Len(Round(q).keyUps) = Len(q.keyUps) - 1
    BY <2>4, RoundGood
  <2>6. /\ Orderly(Round(Round(q))) /\ ToCome(Round(Round(q))) = ToCome(q)
        /\ Round(Round(q)).unanswered = <<>> =>
             Round(Round(q)).keyDowns = <<>>
        /\ \/ Round(q).keyUps = <<>> /\ Round(Round(q)).keyUps = <<>>
           \/ Len(Round(Round(q)).keyUps) = Len(Round(q).keyUps) - 1
    BY <2>5, RoundGood
  <2>7. Len(<<>>) = 0 /\ ToCome(queues) \in Nat
        /\ Len(queues.keyUps) \in Nat
        /\ (queues.unanswered # <<>> => ToCome(queues) >= 1)
    <3>1. /\ Len(queues.unanswered) \in Nat /\ Len(queues.keyDowns) \in Nat
          /\ Len(queues.keyUps) \in Nat /\ queues.unanswered \in Seq(Presses)
          /\ ToCome(queues) \in Nat
      BY InvGood
    <3>2. queues.unanswered # <<>> => Len(queues.unanswered) >= 1
      BY <3>1
    <3> DEFINE u == Len(queues.unanswered)
               d == Len(queues.keyDowns)
    <3>3. ToCome(queues) = u + d /\ u \in Nat /\ d \in Nat
      BY <3>1 DEF ToCome
    <3>4. queues.unanswered # <<>> => u >= 1
      BY <3>2
    <3> HIDE DEF u, d
    <3>5. u >= 1 => ToCome(queues) >= 1
      BY <3>3
    <3> QED
      BY <3>1, <3>4, <3>5
  <2>8. ToCome(q) \in Nat
    BY <2>4, <2>7, <1>5, InvGood DEF OnDidHandleKeyEvent
  <2>9. CASE isModifier' = TRUE /\ ~isModifier /\ queues' = q
    <3>1. Len(queues.keyUps) <= ToCome(queues)
      BY <2>9, InvGood DEF Coming
    <3>2. Coming(queues', isModifier')
      BY <2>1, <2>4, <2>7, <2>8, <2>9, <3>1 DEF Coming
    <3> QED
      BY <1>0, <2>3, <2>4, <2>9, <3>2, GoodInv
  <2>10. CASE isModifier /\ isModifier' = FALSE /\ queues' = Round(Round(q))
    <3>1. Len(queues'.keyUps) <= ToCome(queues')
      <4>1. Len(q.keyUps) \in Nat /\ Len(q.keyUps) <= ToCome(q) + 2
        <5>1. Len(queues.keyUps) <= ToCome(queues) + 1
          BY <2>10, InvGood DEF Coming
        <5>2. Len(q.keyUps) = Len(queues.keyUps)
          BY <2>1
        <5> QED
          BY <2>4, <2>7, <2>8, <5>1, <5>2
      <4>2. Len(Round(q).keyUps) = 0 \/ Len(Round(q).keyUps) = Len(q.keyUps) - 1
        BY <2>5, <2>7
      <4>3. \/ Len(queues'.keyUps) = 0
            \/ Len(queues'.keyUps) = Len(Round(q).keyUps) - 1
        BY <2>6, <2>7, <2>10
      <4>4. ToCome(queues') = ToCome(q)
        BY <2>6, <2>10
      <4> QED
        BY <2>8, <4>1, <4>2, <4>3, <4>4
    <3>2. Orderly(queues') /\ ToCome(queues') \in Nat
      BY <2>6, <2>8, <2>10
    <3>3. isModifier' = FALSE /\ presses' \in 0..MaxKeys
      BY <1>0, <2>3, <2>10
    <3>4. Coming(queues', isModifier')
      BY <2>6, <2>10, <3>1, <3>2, <3>3 DEF Coming
    <3> QED
      BY <3>2, <3>3, <3>4, GoodInv
  <2>11. CASE ~isModifier /\ queues' = Round(q) /\ isModifier' = isModifier
    <3>1. Len(queues'.keyUps) <= ToCome(queues')
      BY <2>1, <2>4, <2>5, <2>7, <2>8, <2>11, InvGood DEF Coming
    <3>2. Orderly(queues') /\ ToCome(queues') \in Nat
      BY <2>5, <2>8, <2>11
    <3>3. isModifier' = FALSE /\ presses' \in 0..MaxKeys
      BY <1>0, <2>3, <2>11
    <3>4. Coming(queues', isModifier')
      BY <2>5, <2>11, <3>1, <3>2, <3>3 DEF Coming
    <3> QED
      BY <3>2, <3>3, <3>4, GoodInv
  <2> QED
    BY <2>3, <2>9, <2>10, <2>11
<1>6. CASE UNCHANGED inputVars
  <2>1. queues' = queues /\ isModifier' = isModifier /\ presses' = presses
    BY <1>6 DEF inputVars
  <2> QED
    BY <1>0, <2>1, InvGood, GoodInv
<1> QED
  BY <1>1, <1>2, <1>3, <1>4, <1>5, <1>6 DEF InputNext

LEMMA InputInvHolds == InputSpec => []InputInv
<1> QED
  BY InputInitInv, InputNextInv, PTL DEF InputSpec
-----------------------------------------------------------------------------
(***************************************************************************)
(* The queues of HandleEvasEvent, OnDidHandleKeyEvent and the input        *)
(* method's callbacks keep their types.                                    *)
(***************************************************************************)
THEOREM InputTypes == InputSpec => []InputTypeOK
<1>1. InputInv => InputTypeOK
  BY DEF InputInv
<1> QED
  BY <1>1, InputInvHolds, PTL

(***************************************************************************)
(* HandleKeyUpQueue never releases a key that HandleKeyDownQueue still     *)
(* holds back: the page sees a key pressed before it sees it released.     *)
(***************************************************************************)
THEOREM PressesComeFirst == InputSpec => []PressedFirst
<1>1. InputInv => PressedFirst
  BY DEF InputInv
<1> QED
  BY <1>1, InputInvHolds, PTL

(***************************************************************************)
(* A key that ForwardKeyboardEvent showed the page down has its release in *)
(* keyupev_queue_, unless ClearQueues dropped it, and both queues are      *)
(* empty when the page has answered everything, unless OnDidHandleKeyEvent *)
(* keeps a round for a modifier.                                           *)
(***************************************************************************)
THEOREM NoKeyStaysDown == InputSpec => []KeysComeUp
<1>1. ASSUME InputInv PROVE KeysComeUp
  <2>1. queues.pressed \ queues.released
          \subseteq Owed(queues) \union queues.lost
    BY <1>1 DEF InputInv, Accounted, Known
  <2>2. queues.unanswered = <<>> /\ ~isModifier =>
          queues.keyUps = <<>> /\ queues.keyDowns = <<>>
    BY <1>1, InvGood, NothingOwed DEF Coming, InputInv, InputTypeOK
  <2> QED
    BY <2>1, <2>2 DEF KeysComeUp
<1> QED
  BY <1>1, InputInvHolds, PTL
=============================================================================
