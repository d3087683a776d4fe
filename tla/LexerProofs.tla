------------------------------ MODULE LexerProofs -----------------------------
(***************************************************************************)
(* Proofs about Lexer.  First what the loops do, whatever they are; then   *)
(* one lemma for each match function, which says where it ends on the bytes*)
(* of the text; then the invariant, one step for each action.              *)
(***************************************************************************)
EXTENDS LexerProperties, FiniteSetTheorems, SequenceTheorems, WellFoundedInduction, TLAPS

-----------------------------------------------------------------------------
(* The least of a set of numbers.                                          *)
Smaller == {s \in Nat \X Nat : s[1] < s[2]}

LEMMA LeastExists ==
  ASSUME NEW T \in SUBSET Nat, T # {}
  PROVE  \E k \in T : \A j \in T : k <= j
<1>1. IsWellFoundedOn(Smaller, Nat)
  BY NatLessThanWellFounded DEF Smaller, OpToRel
<1>2. PICK n \in T : \A k \in T : ~(<<k, n>> \in Smaller)
  BY <1>1, WFMin
<1>3. \A k \in T : n <= k
  <2> TAKE k \in T
  <2>1. k \in Nat /\ n \in Nat
    OBVIOUS
  <2>2. ~(k < n)
    BY <1>2, <2>1 DEF Smaller
  <2> QED
    BY <2>1, <2>2
<1> QED
  BY <1>3

LEMMA LeastFacts ==
  ASSUME NEW T \in SUBSET Nat, NEW other
  PROVE  /\ T = {} => Least(T, other) = other
         /\ T # {} => Least(T, other) \in T /\ \A k \in T : Least(T, other) <= k
<1>1. CASE T = {}
  BY <1>1 DEF Least
<1>2. CASE T # {}
  BY <1>2, LeastExists DEF Least
<1> QED
  BY <1>1, <1>2

LEMMA LeastIs ==
  ASSUME NEW T \in SUBSET Nat, NEW other, NEW k \in T, \A j \in T : k <= j
  PROVE  Least(T, other) = k
<1>1. Least(T, other) \in T /\ Least(T, other) <= k
  BY LeastFacts
<1>2. k <= Least(T, other) /\ k \in Nat /\ Least(T, other) \in Nat
  BY <1>1
<1> QED
  BY <1>1, <1>2
-----------------------------------------------------------------------------
(* A loop whose rounds make a size grow that cannot pass a bound comes to  *)
(* its end, and what every round keeps holds there.  from is the function  *)
(* of Until; it exists, since one that is right from a size on can be made *)
(* right for the sizes just below.                                         *)
LoopBody(states, stop, move, f) == [s \in states |-> IF s \in stop THEN s ELSE f[move[s]]]

LEMMA LoopExists ==
  ASSUME NEW states, NEW stop, NEW move, NEW size \in [states -> Nat], NEW bound \in Nat,
         \A s \in states \ stop : move[s] \in states /\ size[s] < size[move[s]] /\ size[s] < bound
  PROVE  \E f : f = LoopBody(states, stop, move, f)
<1> DEFINE Right(n, g) == \A s \in states : bound <= size[s] + n => g[s] = IF s \in stop THEN s ELSE g[move[s]]
           Bad == {n \in Nat : ~\E g \in [states -> states] : Right(n, g)}
<1>1. \E g \in [states -> states] : Right(0, g)
  <2>1. [s \in states |-> s] \in [states -> states]
    OBVIOUS
  <2>2. Right(0, [s \in states |-> s])
    <3> SUFFICES ASSUME NEW s \in states, bound <= size[s] + 0 PROVE s \in stop
      OBVIOUS
    <3>1. size[s] \in Nat
      OBVIOUS
    <3> QED
      BY <3>1
  <2> QED
    BY <2>1, <2>2
<1>2. ASSUME NEW n \in Nat, NEW g \in [states -> states], Right(n, g)
      PROVE  \E h \in [states -> states] : Right(n + 1, h)
  <2> DEFINE h == [s \in states |-> IF s \in stop THEN s ELSE g[move[s]]]
  <2>1. h \in [states -> states]
    OBVIOUS
  <2>2. ASSUME NEW s \in states, bound <= size[s] + (n + 1), s \notin stop
        PROVE  h[s] = h[move[s]]
    <3>1. move[s] \in states /\ size[s] < size[move[s]] /\ size[s] \in Nat /\ size[move[s]] \in Nat
      BY <2>2
    <3>2. bound <= size[move[s]] + n
      BY <2>2, <3>1
    <3>3. g[move[s]] = IF move[s] \in stop THEN move[s] ELSE g[move[move[s]]]
      BY <1>2, <3>1, <3>2
    <3> QED
      BY <2>2, <3>1, <3>3
  <2>3. Right(n + 1, h)
    BY <2>1, <2>2
  <2> QED
    BY <2>1, <2>3
<1> HIDE DEF Right
<1>3. Bad = {}
  <2> SUFFICES ASSUME Bad # {} PROVE FALSE
    OBVIOUS
  <2>1. Bad \in SUBSET Nat
    OBVIOUS
  <2>2. PICK n \in Bad : \A k \in Bad : n <= k
    BY <2>1, LeastExists
  <2>3. n # 0 /\ n \in Nat
    BY <1>1
  <2>4. n - 1 \in Nat /\ n - 1 \notin Bad /\ (n - 1) + 1 = n
    BY <2>2, <2>3
  <2> QED
    BY <1>2, <2>4
<1>4. PICK g \in [states -> states] : Right(bound, g)
  BY <1>3
<1>5. \A s \in states : g[s] = LoopBody(states, stop, move, g)[s]
  <2> TAKE s \in states
  <2>1. size[s] \in Nat
    OBVIOUS
  <2> QED
    BY <1>4, <2>1 DEF Right, LoopBody
<1>6. g = LoopBody(states, stop, move, g)
  BY <1>5 DEF LoopBody
<1> QED
  BY <1>6

LEMMA LoopEnds ==
  ASSUME NEW states, NEW stop, NEW move, NEW size \in [states -> Nat], NEW bound \in Nat,
         \A s \in states \ stop : move[s] \in states /\ size[s] < size[move[s]] /\ size[s] < bound,
         NEW good \in SUBSET states, \A s \in good \ stop : move[s] \in good,
         NEW state \in good
  PROVE  Until(states, stop, move, state) \in good \cap stop
<1> DEFINE from == CHOOSE f : f = LoopBody(states, stop, move, f)
<1>1. from = LoopBody(states, stop, move, from)
  BY LoopExists
<1>2. Until(states, stop, move, state) = from[state]
  BY DEF Until, LoopBody
<1> HIDE DEF from
<1>3. \A s \in states : from[s] = IF s \in stop THEN s ELSE from[move[s]]
  <2>1. \A s \in states : LoopBody(states, stop, move, from)[s] = IF s \in stop THEN s ELSE from[move[s]]
    BY DEF LoopBody
  <2> QED
    BY <1>1, <2>1
<1> DEFINE Left(s) == IF size[s] < bound THEN bound - size[s] ELSE 0
           Bad == {s \in good : from[s] \notin good \cap stop}
           Lefts == {Left(s) : s \in Bad}
<1>4. \A s \in states : Left(s) \in Nat
  <2> TAKE s \in states
  <2>1. size[s] \in Nat
    OBVIOUS
  <2> QED
    BY <2>1
<1>5. Bad = {}
  <2> SUFFICES ASSUME Bad # {} PROVE FALSE
    OBVIOUS
  <2>1. Lefts \in SUBSET Nat /\ Lefts # {}
    BY <1>4
  <2>2. PICK k \in Lefts : \A j \in Lefts : k <= j
    BY <2>1, LeastExists
  <2>3. PICK s \in Bad : k = Left(s)
    BY <2>2
  <2>4. s \in good /\ s \in states /\ s \notin stop
    BY <1>3, <2>3
  <2>5. move[s] \in good /\ move[s] \in states /\ from[s] = from[move[s]]
    BY <1>3, <2>4
  <2>6. move[s] \in Bad
    BY <2>3, <2>5
  <2>7. size[s] < size[move[s]] /\ size[s] < bound /\ size[s] \in Nat /\ size[move[s]] \in Nat
    BY <2>4, <2>5
  <2>8. Left(move[s]) < Left(s) /\ Left(s) \in Nat /\ Left(move[s]) \in Nat
    BY <2>7
  <2> QED
    BY <2>2, <2>3, <2>6, <2>8
<1> QED
  BY <1>2, <1>5
-----------------------------------------------------------------------------
(* A text is bytes, and a place moves on by one character.                 *)
LEMMA TextFacts ==
  ASSUME text \in Texts
  PROVE  /\ text \in Seq(STRING) /\ Len(text) \in Nat /\ DOMAIN text = 1 .. Len(text)
         /\ \A k \in 1 .. Len(text) : text[k] # "letter"
<1>1. text \in Seq(STRING) /\ "letter" \notin {text[k] : k \in DOMAIN text}
  BY TablesAssumption
<1> QED
  BY <1>1, LenProperties

LEMMA AdvanceMoves ==
  ASSUME text \in Texts, NEW p \in Place
  PROVE  /\ Advance(p) \in Place
         /\ Eof(p) => Advance(p) = p
         /\ ~Eof(p) => /\ p.offset < Len(text) /\ p.offset + 1 \in 1 .. Len(text)
                       /\ Advance(p).offset = p.offset + SizeAt(p.offset)
                       /\ SizeAt(p.offset) \in {1, 2}
<1>1. Len(text) \in Nat /\ p.offset \in Nat /\ p.line \in Nat /\ p.column \in Nat
      /\ p = [offset |-> p.offset, line |-> p.line, column |-> p.column]
  BY TextFacts DEF Place
<1>2. SizeAt(p.offset) \in {1, 2}
  BY DEF SizeAt
<1>3. CASE Eof(p)
  BY <1>3 DEF Advance
<1>4. CASE ~Eof(p)
  <2>1. p.offset < Len(text) /\ p.offset + 1 \in 1 .. Len(text)
    BY <1>1, <1>4 DEF Eof
  <2>2. CASE Peek(p) = "nl"
    <3>1. Advance(p) = [offset |-> p.offset + 1, line |-> p.line + 1, column |-> 1]
      BY <1>4, <2>2 DEF Advance
    <3>2. SizeAt(p.offset) = 1
      BY <2>1, <2>2, <1>1 DEF Peek, CharAt, SizeAt
    <3>3. Advance(p).offset = p.offset + 1 /\ p.offset + 1 \in Nat /\ p.line + 1 \in Nat /\ 1 \in Nat
      BY <1>1, <3>1
    <3>4. Advance(p) \in Place
      BY <3>1, <3>3 DEF Place
    <3> QED
      BY <1>2, <1>4, <2>1, <3>2, <3>3, <3>4
  <2>3. CASE Peek(p) # "nl"
    <3>1. Advance(p) = [offset |-> p.offset + SizeAt(p.offset), line |-> p.line, column |-> p.column + 1]
      BY <1>1, <1>4, <2>3 DEF Advance
    <3>2. /\ Advance(p).offset = p.offset + SizeAt(p.offset)
          /\ p.offset + SizeAt(p.offset) \in Nat /\ p.column + 1 \in Nat
      BY <1>1, <1>2, <3>1
    <3>3. Advance(p) \in Place
      BY <1>1, <3>1, <3>2 DEF Place
    <3> QED
      BY <1>2, <1>4, <2>1, <3>2, <3>3
  <2> QED
    BY <2>2, <2>3
<1> QED
  BY <1>3, <1>4

(* advance_n goes from one place to the next.                              *)
Trail(p, n, g) == g \in [0 .. n -> Place] /\ g[0] = p /\ \A i \in 1 .. n : g[i] = Advance(g[i - 1])
TrailBody(p, n, f) == [i \in 0 .. n |-> IF i = 0 THEN p ELSE Advance(f[i - 1])]

LEMMA TrailExists ==
  ASSUME text \in Texts, NEW p \in Place
  PROVE  \A n \in Nat : \E g : Trail(p, n, g)
<1> DEFINE Bad == {n \in Nat : ~\E g : Trail(p, n, g)}
<1>1. Trail(p, 0, [i \in 0 .. 0 |-> p])
  BY DEF Trail
<1>2. ASSUME NEW n \in Nat, NEW g, Trail(p, n, g)
      PROVE  \E h : Trail(p, n + 1, h)
  <2> DEFINE h == [i \in 0 .. n + 1 |-> IF i = n + 1 THEN Advance(g[n]) ELSE g[i]]
  <2>1. \A i \in 0 .. n : g[i] \in Place /\ i \in 0 .. n + 1 /\ i # n + 1
    BY <1>2 DEF Trail
  <2>2. Advance(g[n]) \in Place
    BY <2>1, AdvanceMoves
  <2>3. h \in [0 .. n + 1 -> Place] /\ h[n + 1] = Advance(g[n]) /\ \A i \in 0 .. n : h[i] = g[i]
    <3>1. \A i \in 0 .. n + 1 : i # n + 1 => i \in 0 .. n
      OBVIOUS
    <3> QED
      BY <2>1, <2>2, <3>1
  <2> HIDE DEF h
  <2>4. ASSUME NEW i \in 1 .. n + 1 PROVE h[i] = Advance(h[i - 1])
    <3>1. i - 1 \in 0 .. n
      OBVIOUS
    <3>2. CASE i = n + 1
      <4>1. i - 1 = n
        BY <3>2
      <4> QED
        BY <2>3, <3>1, <3>2, <4>1
    <3>3. CASE i # n + 1
      <4>1. i \in 0 .. n /\ i \in 1 .. n
        BY <3>3
      <4>2. h[i] = g[i] /\ h[i - 1] = g[i - 1] /\ g[i] = Advance(g[i - 1])
        BY <1>2, <2>3, <3>1, <4>1 DEF Trail
      <4> QED
        BY <4>2
    <3> QED
      BY <3>2, <3>3
  <2>5. h[0] = p
    BY <1>2, <2>3 DEF Trail
  <2> QED
    BY <2>3, <2>4, <2>5 DEF Trail
<1>3. Bad = {}
  <2> SUFFICES ASSUME Bad # {} PROVE FALSE
    OBVIOUS
  <2>1. Bad \in SUBSET Nat
    OBVIOUS
  <2>2. PICK n \in Bad : \A k \in Bad : n <= k
    BY <2>1, LeastExists
  <2>3. n # 0 /\ n \in Nat
    BY <1>1, <2>2
  <2>4. n - 1 \in Nat /\ n - 1 \notin Bad /\ (n - 1) + 1 = n
    BY <2>2, <2>3
  <2> QED
    BY <1>2, <2>2, <2>4
<1> QED
  BY <1>3

LEMMA TrailTaken ==
  ASSUME text \in Texts, NEW p \in Place, NEW n \in Nat
  PROVE  \E g : Trail(p, n, g) /\ AdvanceN(p, n) = g[n]
<1> DEFINE after == CHOOSE f : f = TrailBody(p, n, f)
<1>1. \E f : f = TrailBody(p, n, f)
  <2>1. PICK g : Trail(p, n, g)
    BY TrailExists
  <2>2. DOMAIN g = 0 .. n /\ g = [i \in 0 .. n |-> g[i]]
    BY <2>1 DEF Trail
  <2>3. \A i \in 0 .. n : g[i] = TrailBody(p, n, g)[i]
    <3> TAKE i \in 0 .. n
    <3>1. i = 0 \/ i \in 1 .. n
      OBVIOUS
    <3> QED
      BY <2>1, <3>1 DEF Trail, TrailBody
  <2>4. TrailBody(p, n, g) = [i \in 0 .. n |-> TrailBody(p, n, g)[i]]
    BY DEF TrailBody
  <2> QED
    BY <2>2, <2>3, <2>4
<1>2. after = TrailBody(p, n, after)
  BY <1>1
<1>3. AdvanceN(p, n) = after[n]
  BY DEF AdvanceN, TrailBody
<1> HIDE DEF after
<1>4. /\ after = [i \in 0 .. n |-> after[i]]
      /\ \A i \in 0 .. n : after[i] = IF i = 0 THEN p ELSE Advance(after[i - 1])
  BY <1>2 DEF TrailBody
<1> DEFINE Bad == {i \in 0 .. n : after[i] \notin Place}
<1>5. Bad = {}
  <2> SUFFICES ASSUME Bad # {} PROVE FALSE
    OBVIOUS
  <2>1. Bad \in SUBSET Nat
    OBVIOUS
  <2>2. PICK i \in Bad : \A k \in Bad : i <= k
    BY <2>1, LeastExists
  <2>3. i # 0 /\ i \in 0 .. n
    BY <1>4, <2>2
  <2>4. i - 1 \in 0 .. n /\ i - 1 \notin Bad
    BY <2>2, <2>3
  <2>5. after[i - 1] \in Place /\ after[i] = Advance(after[i - 1])
    BY <1>4, <2>3, <2>4
  <2> QED
    BY <2>2, <2>5, AdvanceMoves
<1>6. Trail(p, n, after)
  <2>1. \A i \in 1 .. n : i \in 0 .. n /\ i # 0
    OBVIOUS
  <2>2. 0 \in 0 .. n
    OBVIOUS
  <2>3. after \in [0 .. n -> Place]
    BY <1>4, <1>5
  <2> QED
    BY <1>4, <2>1, <2>2, <2>3 DEF Trail
<1> QED
  BY <1>3, <1>6

LEMMA TrailUnique ==
  ASSUME NEW p, NEW m \in Nat, NEW n \in Nat, m <= n, NEW g, NEW h, Trail(p, m, g), Trail(p, n, h)
  PROVE  g[m] = h[m]
<1> DEFINE Bad == {i \in 0 .. m : g[i] # h[i]}
<1>1. Bad = {}
  <2> SUFFICES ASSUME Bad # {} PROVE FALSE
    OBVIOUS
  <2>1. Bad \in SUBSET Nat
    OBVIOUS
  <2>2. PICK i \in Bad : \A k \in Bad : i <= k
    BY <2>1, LeastExists
  <2>3. i # 0 /\ i \in 0 .. m
    BY <2>2 DEF Trail
  <2>4. i \in 1 .. m /\ i \in 1 .. n /\ i - 1 \in 0 .. m /\ i - 1 \notin Bad
    BY <2>2, <2>3
  <2>5. g[i] = Advance(g[i - 1]) /\ h[i] = Advance(h[i - 1]) /\ g[i - 1] = h[i - 1]
    BY <2>4 DEF Trail
  <2> QED
    BY <2>2, <2>5
<1> QED
  BY <1>1

LEMMA AdvanceNFacts ==
  ASSUME text \in Texts, NEW p \in Place
  PROVE  /\ AdvanceN(p, 0) = p
         /\ \A n \in Nat : AdvanceN(p, n) \in Place /\ AdvanceN(p, n + 1) = Advance(AdvanceN(p, n))
<1>1. ASSUME NEW n \in Nat PROVE \E g : Trail(p, n, g) /\ AdvanceN(p, n) = g[n]
  BY TrailTaken
<1>2. AdvanceN(p, 0) = p
  BY <1>1 DEF Trail
<1>3. ASSUME NEW n \in Nat
      PROVE  AdvanceN(p, n) \in Place /\ AdvanceN(p, n + 1) = Advance(AdvanceN(p, n))
  <2>1. PICK g : Trail(p, n, g) /\ AdvanceN(p, n) = g[n]
    BY <1>1
  <2>2. PICK h : Trail(p, n + 1, h) /\ AdvanceN(p, n + 1) = h[n + 1]
    BY <1>1
  <2>3. g[n] = h[n]
    BY <2>1, <2>2, TrailUnique
  <2>4. n + 1 \in 1 .. n + 1 /\ (n + 1) - 1 = n /\ n \in 0 .. n
    OBVIOUS
  <2>5. h[n + 1] = Advance(h[n]) /\ g[n] \in Place
    BY <2>1, <2>2, <2>4 DEF Trail
  <2> QED
    BY <2>1, <2>2, <2>3, <2>5
<1> QED
  BY <1>2, <1>3

LEMMA AdvanceTwice ==
  ASSUME text \in Texts, NEW p \in Place
  PROVE  /\ AdvanceN(p, 1) = Advance(p) /\ AdvanceN(p, 2) = Advance(Advance(p)) /\ PeekN(p, 0) = Peek(p)
         /\ PeekN(p, 1) = Peek(Advance(p)) /\ Advance(p) \in Place /\ Advance(Advance(p)) \in Place
<1>1. 0 + 1 = 1 /\ 1 + 1 = 2 /\ 0 \in Nat /\ 1 \in Nat
  OBVIOUS
<1>2. AdvanceN(p, 1) = Advance(p) /\ AdvanceN(p, 2) = Advance(AdvanceN(p, 1)) /\ AdvanceN(p, 0) = p
  <2>1. AdvanceN(p, 0) = p /\ AdvanceN(p, 0 + 1) = Advance(AdvanceN(p, 0)) /\ AdvanceN(p, 1 + 1) = Advance(AdvanceN(p, 1))
    BY <1>1, AdvanceNFacts
  <2> QED
    BY <1>1, <2>1
<1> QED
  BY <1>2, AdvanceMoves DEF PeekN-----------------------------------------------------------------------------
(* The loops over places: each round reads a character.  What Advance keeps*)
(* they keep, and a place they come to is one at which they stop.          *)
LEMMA PlaceLoop ==
  ASSUME text \in Texts, NEW stop, NEW move,
         \A q \in Place \ stop : ~Eof(q) /\ move[q] \in Place /\ q.offset < move[q].offset,
         NEW good \in SUBSET Place, \A q \in good \ stop : move[q] \in good, NEW p \in good
  PROVE  Until(Place, stop, move, p) \in good \cap stop
<1> DEFINE size == [q \in Place |-> q.offset]
<1>1. size \in [Place -> Nat] /\ Len(text) \in Nat
  BY TextFacts DEF Place
<1>2. ASSUME NEW q \in Place \ stop
      PROVE  move[q] \in Place /\ size[q] < size[move[q]] /\ size[q] < Len(text)
  <2>1. ~Eof(q) /\ move[q] \in Place /\ q.offset < move[q].offset
    OBVIOUS
  <2>2. q.offset \in Nat
    BY DEF Place
  <2> QED
    BY <1>1, <2>1, <2>2 DEF Eof
<1> HIDE DEF size
<1> QED
  BY <1>1, <1>2, LoopEnds

LEMMA CharacterLoop ==
  ASSUME text \in Texts, NEW stop, \A q \in Place \ stop : ~Eof(q),
         NEW good \in SUBSET Place, \A q \in good \ stop : Advance(q) \in good, NEW p \in good
  PROVE  Until(Place, stop, Characters, p) \in good \cap stop
<1>1. ASSUME NEW q \in Place \ stop
      PROVE  ~Eof(q) /\ Characters[q] \in Place /\ q.offset < Characters[q].offset
  <2>1. Characters[q] = Advance(q) /\ ~Eof(q) /\ q.offset \in Nat
    BY DEF Characters, Place
  <2>2. Advance(q) \in Place /\ Advance(q).offset = q.offset + SizeAt(q.offset) /\ SizeAt(q.offset) \in {1, 2}
    BY <2>1, AdvanceMoves
  <2> QED
    BY <2>1, <2>2
<1>2. \A q \in good \ stop : Characters[q] \in good
  BY DEF Characters
<1> QED
  BY <1>1, <1>2, PlaceLoop

LEMMA PeekAtEnd == ASSUME NEW q, Eof(q) PROVE Peek(q) = "nul"
BY DEF Eof, Peek, CharAt, Nothing

Kept(kept) == kept \in SUBSET Place /\ \A q \in kept : Advance(q) \in kept

LEMMA OnwardKept ==
  ASSUME text \in Texts, NEW n \in Nat
  PROVE  Kept({q \in Place : n < q.offset}) /\ Kept({q \in Place : n <= q.offset})
<1>1. ASSUME NEW q \in Place PROVE Advance(q) \in Place /\ q.offset \in Nat /\ q.offset <= Advance(q).offset
  <2>1. q.offset \in Nat /\ Advance(q) \in Place /\ Advance(q).offset \in Nat
    BY AdvanceMoves DEF Place
  <2>2. CASE Eof(q)
    BY <2>1, <2>2, AdvanceMoves
  <2>3. CASE ~Eof(q)
    <3>1. Advance(q).offset = q.offset + SizeAt(q.offset) /\ SizeAt(q.offset) \in {1, 2}
      BY <2>3, AdvanceMoves
    <3> QED
      BY <2>1, <3>1
  <2> QED
    BY <2>2, <2>3
<1>2. ASSUME NEW q \in Place, n < q.offset PROVE n < Advance(q).offset
  <2>1. q.offset \in Nat /\ Advance(q).offset \in Nat /\ q.offset <= Advance(q).offset
    BY <1>1 DEF Place
  <2> QED
    BY <1>2, <2>1
<1>3. ASSUME NEW q \in Place, n <= q.offset PROVE n <= Advance(q).offset
  <2>1. q.offset \in Nat /\ Advance(q).offset \in Nat /\ q.offset <= Advance(q).offset
    BY <1>1 DEF Place
  <2> QED
    BY <1>3, <2>1
<1> QED
  BY <1>1, <1>2, <1>3 DEF Kept

LEMMA AdvanceNKept ==
  ASSUME text \in Texts, NEW kept, Kept(kept), NEW p \in kept
  PROVE  \A n \in Nat : AdvanceN(p, n) \in kept
<1> DEFINE Bad == {n \in Nat : AdvanceN(p, n) \notin kept}
<1>1. p \in Place
  BY DEF Kept
<1>2. Bad = {}
  <2> SUFFICES ASSUME Bad # {} PROVE FALSE
    OBVIOUS
  <2>1. Bad \in SUBSET Nat
    OBVIOUS
  <2>2. PICK n \in Bad : \A k \in Bad : n <= k
    BY <2>1, LeastExists
  <2>3. n # 0 /\ n \in Nat
    BY <1>1, <2>2, AdvanceNFacts
  <2>4. n - 1 \in Nat /\ n - 1 \notin Bad /\ (n - 1) + 1 = n
    BY <2>2, <2>3
  <2>5. AdvanceN(p, n - 1) \in kept /\ AdvanceN(p, (n - 1) + 1) = Advance(AdvanceN(p, n - 1))
    BY <1>1, <2>4, AdvanceNFacts
  <2> QED
    BY <2>2, <2>4, <2>5 DEF Kept
<1> QED
  BY <1>2

LEMMA CharacterLoopsKeep ==
  ASSUME text \in Texts, NEW kept, Kept(kept), NEW p \in kept
  PROVE  /\ AfterLine(p) \in kept /\ BlockEnd(p) \in kept /\ AfterBlock(p) \in kept
         /\ DigitsEnd(p) \in kept /\ NumberEnd(p) \in kept /\ IdentifierEnd(p) \in kept
<1>1. kept \in SUBSET Place /\ \A q \in kept : Advance(q) \in kept
  BY DEF Kept
<1>2. AfterLine(p) \in kept
  <2> DEFINE stop == {q \in Place : Peek(q) = "nl" \/ Eof(q)}
  <2>1. \A q \in Place \ stop : ~Eof(q)
    OBVIOUS
  <2> HIDE DEF stop
  <2>2. Until(Place, stop, Characters, p) \in kept
    BY <1>1, <2>1, CharacterLoop
  <2> QED
    BY <2>2 DEF AfterLine, stop
<1>3. BlockEnd(p) \in kept
  <2> DEFINE stop == {q \in Place : Eof(q) \/ Pair(q, "*", "/")}
  <2>1. \A q \in Place \ stop : ~Eof(q)
    OBVIOUS
  <2> HIDE DEF stop
  <2>2. Until(Place, stop, Characters, p) \in kept
    BY <1>1, <2>1, CharacterLoop
  <2> QED
    BY <2>2 DEF BlockEnd, stop
<1>4. AfterBlock(p) \in kept
  <2>1. AdvanceN(BlockEnd(p), 2) \in kept
    BY <1>3, AdvanceNKept
  <2> QED
    BY <1>3, <2>1 DEF AfterBlock
<1>5. ASSUME NEW q \in kept PROVE DigitsEnd(q) \in kept
  <2> DEFINE stop == {r \in Place : Peek(r) \notin Digit}
  <2>1. \A r \in Place \ stop : ~Eof(r)
    BY PeekAtEnd DEF Digit
  <2> HIDE DEF stop
  <2>2. Until(Place, stop, Characters, q) \in kept
    BY <1>1, <2>1, CharacterLoop
  <2> QED
    BY <2>2 DEF DigitsEnd, stop
<1>6. NumberEnd(p) \in kept
  BY <1>1, <1>5 DEF NumberEnd
<1>7. IdentifierEnd(p) \in kept
  <2> DEFINE stop == {r \in Place : Peek(r) \notin Letter \cup Digit \cup {"underscore"}}
  <2>1. \A r \in Place \ stop : ~Eof(r)
    BY PeekAtEnd DEF Digit, Letter
  <2> HIDE DEF stop
  <2>2. Until(Place, stop, Characters, p) \in kept
    BY <1>1, <2>1, CharacterLoop
  <2> QED
    BY <2>2 DEF IdentifierEnd, stop
<1> QED
  BY <1>2, <1>3, <1>4, <1>5, <1>6, <1>7

(* A comment and an escaped character lead on.                             *)
LEMMA AdvanceOnward ==
  ASSUME text \in Texts, NEW p \in Place, ~Eof(p)
  PROVE  /\ Advance(p) \in {q \in Place : p.offset < q.offset}
         /\ AdvanceN(p, 2) \in {q \in Place : p.offset < q.offset}
<1>1. p.offset \in Nat /\ Advance(p) \in Place /\ Advance(p).offset = p.offset + SizeAt(p.offset) /\ SizeAt(p.offset) \in {1, 2}
  BY AdvanceMoves DEF Place
<1>2. Advance(p) \in {q \in Place : p.offset < q.offset}
  BY <1>1
<1>3. Advance(Advance(p)) \in {q \in Place : p.offset < q.offset}
  BY <1>1, <1>2, OnwardKept DEF Kept
<1> QED
  BY <1>2, <1>3, AdvanceTwice

LEMMA PairNotAtEnd == ASSUME NEW p, NEW first, NEW second, Pair(p, first, second), first # "nul" PROVE ~Eof(p)
BY PeekAtEnd DEF Pair

LEMMA CommentKept ==
  ASSUME text \in Texts, NEW kept, Kept(kept), NEW p \in kept
  PROVE  AfterComment(p) \in kept /\ (~Eof(p) => AfterComment(p) \in {q \in Place : p.offset < q.offset})
<1>1. AfterComment(p) \in kept
  <2>1. AdvanceN(p, 2) \in kept
    BY AdvanceNKept
  <2> QED
    BY <2>1, CharacterLoopsKeep DEF AfterComment
<1>2. ASSUME ~Eof(p) PROVE AfterComment(p) \in {q \in Place : p.offset < q.offset}
  <2>1. p \in Place /\ p.offset \in Nat
    BY DEF Kept, Place
  <2> DEFINE later == {q \in Place : p.offset < q.offset}
  <2>2. AdvanceN(p, 2) \in later
    BY <1>2, <2>1, AdvanceOnward
  <2>3. Kept(later)
    BY <2>1, OnwardKept
  <2> HIDE DEF later
  <2>4. AfterComment(p) \in later
    BY <2>2, <2>3, CharacterLoopsKeep DEF AfterComment
  <2> QED
    BY <2>4 DEF later
<1> QED
  BY <1>1, <1>2

(* What holds after the comments: whatever every comment keeps, and that   *)
(* none begins there.                                                      *)
Commented(p) == Pair(p, "/", "/") \/ Pair(p, "/", "*")

LEMMA CommentsLoop ==
  ASSUME text \in Texts, NEW good \in SUBSET Place,
         \A q \in good : Commented(q) => AfterComment(q) \in good, NEW p \in good
  PROVE  AfterComments(p) \in good /\ ~Commented(AfterComments(p))
<1> DEFINE stop == {q \in Place : ~Pair(q, "/", "/") /\ ~Pair(q, "/", "*")}
           move == [q \in Place |-> AfterComment(q)]
<1>1. \A q \in Place : (q \notin stop) = Commented(q)
  BY DEF Commented
<1>2. \A q \in Place : move[q] = AfterComment(q)
  OBVIOUS
<1>3. AfterComments(p) = Until(Place, stop, move, p)
  BY DEF AfterComments
<1> HIDE DEF stop, move
<1>4. ASSUME NEW q \in Place \ stop PROVE ~Eof(q) /\ move[q] \in Place /\ q.offset < move[q].offset
  <2>1. ~Eof(q)
    BY <1>1, PairNotAtEnd DEF Commented
  <2>2. Kept(Place)
    BY AdvanceMoves DEF Kept
  <2>3. AfterComment(q) \in {r \in Place : q.offset < r.offset}
    BY <2>1, <2>2, CommentKept
  <2> QED
    BY <1>2, <2>1, <2>3
<1>5. \A q \in good \ stop : move[q] \in good
  BY <1>1, <1>2
<1>6. AfterComments(p) \in good \cap stop
  BY <1>3, <1>4, <1>5, PlaceLoop
<1> QED
  BY <1>1, <1>6

LEMMA CommentsKept ==
  ASSUME text \in Texts, NEW kept, Kept(kept), NEW p \in kept
  PROVE  AfterComments(p) \in kept
<1>1. kept \in SUBSET Place /\ \A q \in kept : AfterComment(q) \in kept
  BY CommentKept DEF Kept
<1> QED
  BY <1>1, CommentsLoop

LEMMA StringLoop ==
  ASSUME text \in Texts, NEW quote, NEW good \in SUBSET Place, NEW p \in good,
         \A q \in good : ~Eof(q) /\ Peek(q) # quote =>
           IF Peek(q) = "\\" THEN AdvanceN(q, 2) \in good ELSE Advance(q) \in good
  PROVE  StringEnd(p, quote) \in good /\ (Eof(StringEnd(p, quote)) \/ Peek(StringEnd(p, quote)) = quote)
<1> DEFINE stop == {q \in Place : Eof(q) \/ Peek(q) = quote}
           move == [q \in Place |-> IF Peek(q) = "\\" THEN AdvanceN(q, 2) ELSE Advance(q)]
<1>1. \A q \in Place : (q \in stop) = (Eof(q) \/ Peek(q) = quote)
  OBVIOUS
<1>2. \A q \in Place : move[q] = IF Peek(q) = "\\" THEN AdvanceN(q, 2) ELSE Advance(q)
  OBVIOUS
<1>3. StringEnd(p, quote) = Until(Place, stop, move, p)
  BY DEF StringEnd
<1> HIDE DEF stop, move
<1>4. ASSUME NEW q \in Place \ stop PROVE ~Eof(q) /\ move[q] \in Place /\ q.offset < move[q].offset
  <2>1. ~Eof(q)
    BY <1>1
  <2>2. /\ Advance(q) \in Place /\ q.offset < Advance(q).offset
        /\ AdvanceN(q, 2) \in Place /\ q.offset < AdvanceN(q, 2).offset
    BY <2>1, AdvanceOnward
  <2> QED
    BY <1>2, <2>1, <2>2
<1>5. \A q \in good \ stop : move[q] \in good
  BY <1>1, <1>2
<1>6. StringEnd(p, quote) \in good \cap stop
  BY <1>3, <1>4, <1>5, PlaceLoop
<1> QED
  BY <1>1, <1>6

LEMMA StringKept ==
  ASSUME text \in Texts, NEW kept, Kept(kept), NEW p \in kept, NEW quote
  PROVE  StringEnd(p, quote) \in kept
<1>1. kept \in SUBSET Place /\ \A q \in kept : AdvanceN(q, 2) \in kept /\ Advance(q) \in kept
  BY AdvanceNKept DEF Kept
<1> QED
  BY <1>1, StringLoop-----------------------------------------------------------------------------
(* The walk through the trie: it ends, since every step of it reads a      *)
(* character, and it has passed every entry that it might have taken.      *)
LEMMA AheadIsInText ==
  ASSUME text \in Texts, NEW p \in Place
  PROVE  \A n \in Nat : ~Eof(AdvanceN(p, n)) => n <= AdvanceN(p, n).offset
<1> DEFINE Bad == {n \in Nat : ~Eof(AdvanceN(p, n)) /\ ~(n <= AdvanceN(p, n).offset)}
<1>1. Bad = {}
  <2> SUFFICES ASSUME Bad # {} PROVE FALSE
    OBVIOUS
  <2>1. Bad \in SUBSET Nat
    OBVIOUS
  <2>2. PICK n \in Bad : \A k \in Bad : n <= k
    BY <2>1, LeastExists
  <2>3. n # 0 /\ n \in Nat
    <3>1. AdvanceN(p, 0) = p /\ p.offset \in Nat
      BY AdvanceNFacts DEF Place
    <3> QED
      BY <2>2, <3>1
  <2>4. n - 1 \in Nat /\ n - 1 \notin Bad /\ (n - 1) + 1 = n
    BY <2>2, <2>3
  <2> DEFINE q == AdvanceN(p, n - 1)
  <2>5. q \in Place /\ AdvanceN(p, n) = Advance(q)
    BY <2>4, AdvanceNFacts
  <2>6. ~Eof(Advance(q)) /\ ~(n <= Advance(q).offset)
    BY <2>2, <2>5
  <2>7. ~Eof(q) /\ q.offset \in Nat
    BY <2>5, <2>6, AdvanceMoves DEF Place
  <2>8. n - 1 <= q.offset
    BY <2>4, <2>7
  <2> HIDE DEF q
  <2>9. Advance(q).offset = q.offset + SizeAt(q.offset) /\ SizeAt(q.offset) \in {1, 2}
    BY <2>5, <2>7, AdvanceMoves
  <2> QED
    BY <2>3, <2>6, <2>7, <2>8, <2>9
<1> QED
  BY <1>1

Walked(p, w) ==
  /\ w.best <= w.depth
  /\ w.best # 0 => Ahead(p, w.best) \in Operators \cup Keywords
  /\ \A m \in 1 .. w.depth : PeekN(p, m - 1) # "nul" /\ Begins(Ahead(p, m))
  /\ \A m \in w.best + 1 .. w.depth : Ahead(p, m) \notin Operators \cup Keywords

LEMMA FindWalks ==
  ASSUME text \in Texts, NEW p \in Place
  PROVE  \E w \in Walk :
           /\ FindOperator(p) = Ahead(p, w.best)
           /\ Walked(p, w)
           /\ PeekN(p, w.depth) = "nul" \/ ~Begins(Ahead(p, w.depth + 1))
<1> DEFINE stop == {w \in Walk : PeekN(p, w.depth) = Nothing \/ ~Begins(Ahead(p, w.depth + 1))}
           next(w) == [depth |-> w.depth + 1,
                       best |-> IF Ahead(p, w.depth + 1) \in Operators \cup Keywords THEN w.depth + 1 ELSE w.best]
           move == [w \in Walk |-> [depth |-> w.depth + 1,
                       best |-> IF Ahead(p, w.depth + 1) \in Operators \cup Keywords THEN w.depth + 1 ELSE w.best]]
           first == [depth |-> 0, best |-> 0]
           size == [w \in Walk |-> w.depth]
           good == {w \in Walk : Walked(p, w)}
<1>1. FindOperator(p) = Ahead(p, Until(Walk, stop, move, first).best)
  BY DEF FindOperator
<1>2. \A w \in Walk : (w \in stop) = (PeekN(p, w.depth) = "nul" \/ ~Begins(Ahead(p, w.depth + 1)))
  BY DEF Nothing
<1>3. \A w \in Walk : move[w] = next(w)
  OBVIOUS
<1>4. size \in [Walk -> Nat] /\ Len(text) \in Nat /\ \A w \in Walk : size[w] = w.depth
  BY TextFacts DEF Walk
<1> HIDE DEF stop, move, size
<1>5. ASSUME NEW w \in Walk
      PROVE  /\ w.depth \in Nat /\ w.best \in Nat /\ next(w) \in Walk /\ next(w).depth = w.depth + 1
             /\ Ahead(p, w.depth + 1) \in Operators \cup Keywords => next(w).best = w.depth + 1
             /\ Ahead(p, w.depth + 1) \notin Operators \cup Keywords => next(w).best = w.best
  BY DEF Walk
<1> HIDE DEF next
<1>6. ASSUME NEW w \in Walk \ stop
      PROVE  move[w] \in Walk /\ size[w] < size[move[w]] /\ size[w] < Len(text)
  <2>1. w.depth \in Nat /\ move[w] \in Walk /\ size[w] = w.depth /\ size[move[w]] = w.depth + 1
    BY <1>3, <1>4, <1>5
  <2> DEFINE q == AdvanceN(p, w.depth)
  <2>2. Peek(q) # "nul"
    BY <1>2 DEF PeekN
  <2>3. ~Eof(q) /\ q \in Place
    BY <2>1, <2>2, PeekAtEnd, AdvanceNFacts
  <2>4. w.depth <= q.offset /\ q.offset \in Nat /\ q.offset < Len(text)
    <3>1. w.depth <= q.offset
      BY <2>1, <2>3, AheadIsInText
    <3>2. q.offset \in Nat
      BY <2>3 DEF Place
    <3> HIDE DEF q
    <3>3. q.offset < Len(text)
      BY <1>4, <2>3, <3>2 DEF Eof
    <3> QED
      BY <3>1, <3>2, <3>3 DEF q
  <2> QED
    BY <1>4, <2>1, <2>4
<1>7. ASSUME NEW w \in good \ stop PROVE move[w] \in good
  <2>1. /\ w \in Walk /\ w \notin stop /\ w.depth \in Nat /\ w.best \in Nat /\ w.best <= w.depth
        /\ PeekN(p, w.depth) # "nul" /\ Begins(Ahead(p, w.depth + 1))
    BY <1>2, <1>5 DEF Walked
  <2> DEFINE v == next(w)
  <2>2. move[w] = v /\ v \in Walk /\ v.depth = w.depth + 1 /\ (v.best = w.depth + 1 \/ v.best = w.best) /\ v.best \in Nat
    BY <1>3, <1>5, <2>1
  <2>3. Ahead(p, w.depth + 1) \in Operators \cup Keywords => v.best = w.depth + 1
    BY <1>5, <2>1
  <2>4. Ahead(p, w.depth + 1) \notin Operators \cup Keywords => v.best = w.best
    BY <1>5, <2>1
  <2> HIDE DEF v
  <2>5. v.best <= v.depth
    BY <2>1, <2>2
  <2>6. v.best # 0 => Ahead(p, v.best) \in Operators \cup Keywords
    BY <2>3, <2>4 DEF Walked
  <2>7. ASSUME NEW m \in 1 .. v.depth PROVE PeekN(p, m - 1) # "nul" /\ Begins(Ahead(p, m))
    <3>1. CASE m = w.depth + 1
      <4>1. m - 1 = w.depth
        BY <2>1, <3>1
      <4> QED
        BY <2>1, <3>1, <4>1
    <3>2. CASE m # w.depth + 1
      <4>1. m \in 1 .. w.depth
        BY <2>1, <2>2, <3>2
      <4> QED
        BY <4>1 DEF Walked
    <3> QED
      BY <3>1, <3>2
  <2>8. ASSUME NEW m \in v.best + 1 .. v.depth PROVE Ahead(p, m) \notin Operators \cup Keywords
    <3>1. CASE Ahead(p, w.depth + 1) \in Operators \cup Keywords
      BY <2>1, <2>2, <2>3, <3>1
    <3>2. CASE Ahead(p, w.depth + 1) \notin Operators \cup Keywords /\ m = w.depth + 1
      BY <3>2
    <3>3. CASE Ahead(p, w.depth + 1) \notin Operators \cup Keywords /\ m # w.depth + 1
      <4>1. m \in w.best + 1 .. w.depth
        BY <2>1, <2>2, <2>4, <3>3
      <4> QED
        BY <4>1 DEF Walked
    <3> QED
      BY <3>1, <3>2, <3>3
  <2> QED
    BY <2>2, <2>5, <2>6, <2>7, <2>8 DEF Walked
<1>8. first \in good
  <2>1. first \in Walk /\ first.depth = 0 /\ first.best = 0
    BY DEF Walk
  <2> HIDE DEF first
  <2> QED
    BY <2>1 DEF Walked
<1> HIDE DEF good, first
<1>9. Until(Walk, stop, move, first) \in good \cap stop
  <2>1. good \in SUBSET Walk
    BY DEF good
  <2> QED
    BY <1>4, <1>6, <1>7, <1>8, <2>1, LoopEnds
<1> QED
  BY <1>1, <1>2, <1>9 DEF good

-----------------------------------------------------------------------------
(* Where a place can be in any text: the line and the column grow no       *)
(* faster than the offset.                                                 *)
Reached ==
  {p \in Place : /\ p.offset <= End + Beyond
                 /\ 1 <= p.line /\ p.line <= p.offset + 1 /\ p.line <= End + 1
                 /\ 1 <= p.column /\ p.column <= p.offset + 1 /\ p.column <= End + 1}

LEMMA ReachedKept ==
  ASSUME text \in Texts
  PROVE  Kept(Reached) /\ Reached \subseteq Position
<1>1. Len(text) \in Nat /\ End = Len(text) /\ Beyond \in {0, 1}
  BY TextFacts DEF End, Beyond
<1>2. ASSUME NEW p \in Reached PROVE Advance(p) \in Reached
  <2>1. /\ p \in Place /\ p.offset \in Nat /\ p.line \in Nat /\ p.column \in Nat
        /\ p.offset <= End + Beyond
        /\ 1 <= p.line /\ p.line <= p.offset + 1 /\ p.line <= End + 1
        /\ 1 <= p.column /\ p.column <= p.offset + 1 /\ p.column <= End + 1
    BY DEF Reached, Place
  <2>2. CASE Eof(p)
    BY <2>2, AdvanceMoves DEF Reached
  <2>3. CASE ~Eof(p)
    <3>1. /\ Advance(p) \in Place /\ Advance(p).offset = p.offset + SizeAt(p.offset) /\ SizeAt(p.offset) \in {1, 2}
          /\ p.offset < End
      BY <1>1, <2>1, <2>3, AdvanceMoves
    <3>2. Advance(p).offset <= End + Beyond
      <4>1. CASE p.offset + 1 < End
        BY <1>1, <2>1, <3>1, <4>1
      <4>2. CASE p.offset + 1 = End
        <5>1. SizeAt(p.offset) = 2 => text[End] = "lead"
          BY <4>2 DEF SizeAt
        <5>2. SizeAt(p.offset) = 2 => Beyond = 1
          BY <1>1, <2>1, <4>2, <5>1 DEF Beyond
        <5> QED
          BY <1>1, <2>1, <3>1, <4>2, <5>2
      <4> QED
        BY <1>1, <2>1, <3>1, <4>1, <4>2
    <3>3. CASE Peek(p) = "nl"
      <4>1. Advance(p) = [offset |-> p.offset + 1, line |-> p.line + 1, column |-> 1]
        BY <2>3, <3>3 DEF Advance
      <4>2. Advance(p).offset = p.offset + 1 /\ Advance(p).line = p.line + 1 /\ Advance(p).column = 1
        BY <4>1
      <4>3. /\ 1 <= p.line + 1 /\ p.line + 1 <= (p.offset + 1) + 1 /\ p.line + 1 <= End + 1
            /\ 1 <= 1 /\ 1 <= (p.offset + 1) + 1 /\ 1 <= End + 1
        BY <1>1, <2>1, <3>1
      <4>4. /\ 1 <= Advance(p).line /\ Advance(p).line <= Advance(p).offset + 1 /\ Advance(p).line <= End + 1
            /\ 1 <= Advance(p).column /\ Advance(p).column <= Advance(p).offset + 1 /\ Advance(p).column <= End + 1
        BY <4>2, <4>3
      <4> QED
        BY <3>1, <3>2, <4>4 DEF Reached
    <3>4. CASE Peek(p) # "nl"
      <4>1. Advance(p).line = p.line /\ Advance(p).column = p.column + 1
        BY <2>1, <2>3, <3>4 DEF Advance, Place
      <4>2. /\ 1 <= p.line /\ p.line <= p.offset + SizeAt(p.offset) + 1 /\ p.line <= End + 1
            /\ 1 <= p.column + 1 /\ p.column + 1 <= p.offset + SizeAt(p.offset) + 1 /\ p.column + 1 <= End + 1
        BY <1>1, <2>1, <3>1
      <4>3. /\ 1 <= Advance(p).line /\ Advance(p).line <= Advance(p).offset + 1 /\ Advance(p).line <= End + 1
            /\ 1 <= Advance(p).column /\ Advance(p).column <= Advance(p).offset + 1 /\ Advance(p).column <= End + 1
        BY <3>1, <4>1, <4>2
      <4> QED
        BY <3>1, <3>2, <4>3 DEF Reached
    <3> QED
      BY <3>3, <3>4
  <2> QED
    BY <2>2, <2>3
<1>3. ASSUME NEW p \in Reached PROVE p \in Position
  <2>1. /\ p = [offset |-> p.offset, line |-> p.line, column |-> p.column]
        /\ p.offset \in Nat /\ p.line \in Nat /\ p.column \in Nat
    BY DEF Reached, Place
  <2>2. p.offset \in 0 .. End + Beyond /\ p.line \in 1 .. End + 1 /\ p.column \in 1 .. End + 1
    BY <1>1, <2>1 DEF Reached
  <2> QED
    BY <2>1, <2>2 DEF Position
<1> QED
  BY <1>2, <1>3 DEF Kept, Reached

(* Where it can be in a well-formed one: between two characters, with the  *)
(* line and the column of the byte.                                        *)
Exact ==
  {p \in Place : /\ p.offset <= End
                 /\ p.offset < End => Byte(p.offset) # "tail"
                 /\ Counted(p)}

LEMMA ByteFacts ==
  ASSUME text \in Texts, WellFormed
  PROVE  /\ End \in Nat /\ End = Len(text)
         /\ \A k \in Nat : k < End =>
              /\ Byte(k) = text[k + 1] /\ Byte(k) # "letter"
              /\ Byte(k) = "lead" => k + 1 < End /\ Byte(k + 1) = "tail"
              /\ Byte(k) # "lead" /\ k + 1 < End => Byte(k + 1) # "tail"
<1>1. /\ Len(text) \in Nat /\ End = Len(text) /\ DOMAIN text = 1 .. Len(text)
      /\ \A k \in 1 .. Len(text) : text[k] # "letter"
  BY TextFacts DEF End
<1>2. ASSUME NEW k \in Nat, k < End
      PROVE  /\ Byte(k) = text[k + 1] /\ Byte(k) # "letter"
             /\ Byte(k) = "lead" => k + 1 < End /\ Byte(k + 1) = "tail"
             /\ Byte(k) # "lead" /\ k + 1 < End => Byte(k + 1) # "tail"
  <2>1. k + 1 \in 1 .. Len(text) /\ k + 1 \in DOMAIN text
    BY <1>1, <1>2
  <2>2. (text[k + 1] = "lead") = (k + 1 < Len(text) /\ text[(k + 1) + 1] = "tail")
    BY <2>1 DEF WellFormed
  <2> QED
    BY <1>1, <2>1, <2>2 DEF Byte
<1> QED
  BY <1>1, <1>2

LEMMA CountFacts ==
  ASSUME NEW k \in Nat
  PROVE  /\ IsFiniteSet(Ended(k)) /\ IsFiniteSet(OnLine(k))
         /\ Cardinality(Ended(k + 1)) = Cardinality(Ended(k)) + (IF Byte(k) = "nl" THEN 1 ELSE 0)
         /\ Byte(k) = "nl" => Cardinality(OnLine(k + 1)) = 0
         /\ Byte(k) = "tail" => Cardinality(OnLine(k + 1)) = Cardinality(OnLine(k))
         /\ Byte(k) \notin {"nl", "tail"} => Cardinality(OnLine(k + 1)) = Cardinality(OnLine(k)) + 1
         /\ Cardinality(Ended(k)) \in Nat /\ Cardinality(OnLine(k)) \in Nat
<1>1. IsFiniteSet(0 .. k - 1)
  BY FS_Interval
<1>2. Ended(k) \subseteq 0 .. k - 1 /\ OnLine(k) \subseteq 0 .. k - 1
  BY DEF Ended, OnLine
<1>3. IsFiniteSet(Ended(k)) /\ IsFiniteSet(OnLine(k))
  BY <1>1, <1>2, FS_Subset
<1>4. Cardinality(Ended(k)) \in Nat /\ Cardinality(OnLine(k)) \in Nat
  BY <1>3, FS_CardinalityType
<1>5. k \notin Ended(k) /\ k \notin OnLine(k)
  BY <1>2
<1>6. \A j : j \in 0 .. (k + 1) - 1 <=> j \in 0 .. k - 1 \/ j = k
  OBVIOUS
<1>7. Byte(k) = "nl" => Ended(k + 1) = Ended(k) \cup {k}
  BY <1>6 DEF Ended
<1>8. Byte(k) # "nl" => Ended(k + 1) = Ended(k)
  BY <1>6 DEF Ended
<1>9. Cardinality(Ended(k) \cup {k}) = Cardinality(Ended(k)) + 1
  BY <1>3, <1>5, FS_AddElement
<1>10. Byte(k) = "nl" => OnLine(k + 1) = {}
  <2> SUFFICES ASSUME Byte(k) = "nl", NEW j \in OnLine(k + 1) PROVE FALSE
    OBVIOUS
  <2>1. j \in 0 .. (k + 1) - 1 /\ \A i \in j .. (k + 1) - 1 : Byte(i) # "nl"
    BY DEF OnLine
  <2>2. k \in j .. (k + 1) - 1
    BY <2>1
  <2> QED
    BY <2>1, <2>2
<1>11. \A j \in 0 .. k - 1 : \A i : i \in j .. (k + 1) - 1 <=> i \in j .. k - 1 \/ i = k
  OBVIOUS
<1>12. ASSUME Byte(k) # "nl" PROVE \A j \in 0 .. k - 1 : j \in OnLine(k + 1) <=> j \in OnLine(k)
  BY <1>6, <1>11, <1>12 DEF OnLine
<1>13. ASSUME Byte(k) # "nl" PROVE k \in OnLine(k + 1) <=> Byte(k) # "tail"
  <2>1. k \in 0 .. (k + 1) - 1 /\ \A i \in k .. (k + 1) - 1 : i = k
    OBVIOUS
  <2> QED
    BY <1>13, <2>1 DEF OnLine
<1>14. \A j \in OnLine(k + 1) : j \in 0 .. k - 1 \/ j = k
  BY <1>6 DEF OnLine
<1>15. Byte(k) = "tail" => OnLine(k + 1) = OnLine(k)
  <2> SUFFICES ASSUME Byte(k) = "tail" PROVE OnLine(k + 1) = OnLine(k)
    OBVIOUS
  <2>1. Byte(k) # "nl"
    OBVIOUS
  <2> QED
    BY <1>2, <1>12, <1>13, <1>14, <2>1
<1>16. Byte(k) \notin {"nl", "tail"} => OnLine(k + 1) = OnLine(k) \cup {k}
  BY <1>2, <1>12, <1>13, <1>14
<1>17. Cardinality(OnLine(k) \cup {k}) = Cardinality(OnLine(k)) + 1
  BY <1>3, <1>5, FS_AddElement
<1>18. Cardinality({}) = 0
  BY FS_EmptySet
<1>19. Cardinality(Ended(k + 1)) = Cardinality(Ended(k)) + (IF Byte(k) = "nl" THEN 1 ELSE 0)
  BY <1>4, <1>7, <1>8, <1>9
<1> QED
  BY <1>3, <1>4, <1>10, <1>15, <1>16, <1>17, <1>18, <1>19

(* The lines of SourceBuffer that have begun at a place: the first, and one*)
(* behind every newline before it.                                         *)
Begun(k) == {s \in LineStarts : s <= k}

LEMMA BegunFacts ==
  ASSUME End \in Nat, End > 0, NEW k \in Nat, k <= End, HasLine(k)
  PROVE  /\ 0 \in Begun(k) /\ \A j \in Ended(k) : j + 1 \in Begun(k)
         /\ IsFiniteSet(Begun(k)) /\ Cardinality(Begun(k)) = 1 + Cardinality(Ended(k))
<1> DEFINE behind == {j + 1 : j \in Ended(k)}
<1>1. Ended(k) \subseteq 0 .. k - 1 /\ \A j \in Ended(k) : Byte(j) = "nl"
  BY DEF Ended
<1>2. 0 \in Begun(k)
  BY DEF Begun, LineStarts
<1>3. ASSUME NEW j \in Ended(k) PROVE j + 1 \in Begun(k)
  <2>1. j \in Nat /\ j < k /\ Byte(j) = "nl" /\ (j + 1) - 1 = j
    BY <1>1
  <2>2. j + 1 < End
    <3>1. CASE k < End
      BY <2>1, <3>1
    <3>2. CASE ~(k < End)
      <4>1. Byte(End - 1) # "nl" /\ k = End
        BY <3>2 DEF HasLine
      <4>2. j # End - 1
        BY <2>1, <4>1
      <4> QED
        BY <2>1, <4>1, <4>2
    <3> QED
      BY <3>1, <3>2
  <2>3. j + 1 \in 0 .. End - 1 /\ j + 1 <= k
    BY <2>1, <2>2
  <2> QED
    BY <2>1, <2>3 DEF Begun, LineStarts
<1>4. ASSUME NEW s \in Begun(k), s # 0 PROVE s \in behind
  <2>1. s \in 0 .. End - 1 /\ Byte(s - 1) = "nl" /\ s <= k
    BY <1>4 DEF Begun, LineStarts
  <2>2. s - 1 \in 0 .. k - 1 /\ s = (s - 1) + 1
    BY <1>4, <2>1
  <2>3. s - 1 \in Ended(k)
    BY <2>1, <2>2 DEF Ended
  <2> QED
    BY <2>2, <2>3
<1>5. Begun(k) = behind \cup {0}
  BY <1>2, <1>3, <1>4
<1>6. IsFiniteSet(Ended(k)) /\ Cardinality(Ended(k)) \in Nat
  BY CountFacts
<1>7. IsFiniteSet(behind) /\ Cardinality(behind) = Cardinality(Ended(k))
  <2> DEFINE next == [j \in Ended(k) |-> j + 1]
  <2>1. next \in [Ended(k) -> behind] /\ \A b \in behind : \E j \in Ended(k) : next[j] = b
    OBVIOUS
  <2>2. \A i, j \in Ended(k) : next[i] = next[j] => i = j
    BY <1>1
  <2> HIDE DEF next, behind
  <2>3. next \in Injection(Ended(k), behind)
    BY <2>1, <2>2 DEF Injection, IsInjective
  <2>4. next \in Surjection(Ended(k), behind)
    BY <2>1 DEF Surjection
  <2>5. next \in Bijection(Ended(k), behind)
    BY <2>3, <2>4 DEF Bijection
  <2> QED
    BY <1>6, <2>5, FS_Bijection DEF ExistsBijection
<1>8. 0 \notin behind
  BY <1>1
<1>9. IsFiniteSet(behind \cup {0}) /\ Cardinality(behind \cup {0}) = Cardinality(behind) + 1
  BY <1>7, <1>8, FS_AddElement
<1> QED
  BY <1>2, <1>3, <1>5, <1>6, <1>7, <1>9

(* The last of them is the line the place is on.                           *)
LEMMA LastLine ==
  ASSUME End \in Nat, End > 0, NEW k \in Nat, k <= End, HasLine(k)
  PROVE  \E start \in LineStarts :
           /\ start <= k /\ \A j \in start .. k - 1 : Byte(j) # "nl"
           /\ Cardinality({s \in LineStarts : s < start}) = Cardinality(Ended(k))
<1> DEFINE back == {k - s : s \in Begun(k)}
<1>1. /\ 0 \in Begun(k) /\ \A j \in Ended(k) : j + 1 \in Begun(k)
      /\ IsFiniteSet(Begun(k)) /\ Cardinality(Begun(k)) = 1 + Cardinality(Ended(k))
  BY BegunFacts
<1>2. \A s \in Begun(k) : s \in LineStarts /\ s \in Nat /\ s <= k
  BY DEF Begun, LineStarts
<1>3. back \in SUBSET Nat /\ back # {}
  BY <1>1, <1>2
<1>4. PICK least \in back : \A d \in back : least <= d
  BY <1>3, LeastExists
<1>5. PICK start \in Begun(k) : least = k - start
  BY <1>4
<1>6. ASSUME NEW s \in Begun(k) PROVE s <= start
  <2>1. k - s \in back
    OBVIOUS
  <2>2. least <= k - s
    BY <1>4, <2>1
  <2> QED
    BY <1>2, <1>5, <2>2
<1>7. ASSUME NEW j \in start .. k - 1, Byte(j) = "nl" PROVE FALSE
  <2>1. j \in 0 .. k - 1
    BY <1>2, <1>5
  <2>2. j + 1 \in Begun(k)
    BY <1>1, <1>7, <2>1 DEF Ended
  <2> QED
    BY <1>2, <1>5, <1>6, <2>1, <2>2
<1>8. {s \in LineStarts : s < start} = Begun(k) \ {start}
  <2>1. \A s \in LineStarts : s \in Nat
    BY DEF LineStarts
  <2>2. ASSUME NEW s \in LineStarts, s < start PROVE s \in Begun(k) \ {start}
    BY <1>2, <1>5, <2>1, <2>2 DEF Begun
  <2>3. ASSUME NEW s \in Begun(k) \ {start} PROVE s \in LineStarts /\ s < start
    BY <1>2, <1>5, <1>6, <2>3
  <2> QED
    BY <2>2, <2>3
<1>9. Cardinality(Begun(k) \ {start}) = Cardinality(Begun(k)) - 1
  BY <1>1, <1>5, FS_RemoveElement
<1>10. Cardinality(Ended(k)) \in Nat
  BY CountFacts
<1>11. Cardinality({s \in LineStarts : s < start}) = Cardinality(Ended(k))
  BY <1>1, <1>8, <1>9, <1>10
<1>12. start \in LineStarts /\ start <= k
  BY <1>2, <1>5
<1> QED
  BY <1>7, <1>11, <1>12

(* So a place that is counted right is found.                              *)
LEMMA CountedFound ==
  ASSUME End \in Nat, NEW p \in Place, p.offset <= End, Counted(p)
  PROVE  Found(p)
<1> DEFINE k == p.offset
<1>1. k \in Nat /\ p.line = 1 + Cardinality(Ended(k))
  BY DEF Place, Counted
<1>2. CASE HasLine(k)
  <2>1. End > 0
    BY <1>1, <1>2 DEF HasLine
  <2>2. PICK start \in LineStarts :
          /\ start <= k /\ \A j \in start .. k - 1 : Byte(j) # "nl"
          /\ Cardinality({s \in LineStarts : s < start}) = Cardinality(Ended(k))
    BY <1>1, <1>2, <2>1, LastLine
  <2>3. p.line = 1 + Cardinality({s \in LineStarts : s < start})
    BY <1>1, <2>2
  <2> QED
    BY <1>2, <2>2, <2>3 DEF Found
<1>3. CASE ~HasLine(k)
  <2>1. k = End /\ (End > 0 => Byte(End - 1) = "nl")
    BY <1>1, <1>3 DEF HasLine
  <2>2. CASE End = 0
    <3>1. LineStarts = {} /\ Ended(k) = {}
      BY <2>1, <2>2 DEF LineStarts, Ended
    <3> QED
      BY <1>1, <1>3, <3>1 DEF Found
  <2>3. CASE End > 0
    <3> DEFINE m == End - 1
    <3>1. m \in Nat /\ m <= End /\ m < End /\ m + 1 = End
      BY <2>3
    <3>2. HasLine(m)
      BY <3>1 DEF HasLine
    <3>3. LineStarts = Begun(m)
      BY DEF LineStarts, Begun
    <3>4. Cardinality(LineStarts) = 1 + Cardinality(Ended(m))
      BY <2>3, <3>1, <3>2, <3>3, BegunFacts
    <3>5. Cardinality(Ended(m + 1)) = Cardinality(Ended(m)) + 1 /\ Cardinality(Ended(m)) \in Nat
      BY <2>1, <2>3, <3>1, CountFacts
    <3>6. Cardinality(Ended(k)) = Cardinality(LineStarts)
      BY <2>1, <3>1, <3>4, <3>5
    <3> QED
      BY <1>1, <1>3, <3>6 DEF Found
  <2> QED
    BY <2>2, <2>3
<1> QED
  BY <1>2, <1>3

(* A character is a byte, or a leading byte and its tail.                  *)
LEMMA AdvanceExact ==
  ASSUME text \in Texts, WellFormed, NEW p \in Exact, p.offset < End
  PROVE  /\ ~Eof(p) /\ Advance(p) \in Exact
         /\ \/ /\ Byte(p.offset) # "lead" /\ Advance(p).offset = p.offset + 1 /\ Peek(p) = Byte(p.offset)
            \/ /\ Byte(p.offset) = "lead" /\ Advance(p).offset = p.offset + 2 /\ Peek(p) = "letter"
               /\ p.offset + 1 < End /\ Byte(p.offset + 1) = "tail"
<1> DEFINE o == p.offset
           q == Advance(p)
<1>1. /\ p \in Place /\ o \in Nat /\ p.line \in Nat /\ p.column \in Nat
      /\ o < End => Byte(o) # "tail"
      /\ p.line = 1 + Cardinality(Ended(o)) /\ p.column = 1 + Cardinality(OnLine(o))
  BY DEF Exact, Place, Counted
<1>2. End \in Nat /\ End = Len(text) /\ Byte(o) = text[o + 1] /\ Byte(o) # "letter" /\ Byte(o) # "tail"
  BY <1>1, ByteFacts
<1>3. ~Eof(p)
  BY <1>1, <1>2 DEF Eof
<1>4. /\ Byte(o) = "lead" => o + 1 < End /\ Byte(o + 1) = "tail"
      /\ Byte(o) # "lead" /\ o + 1 < End => Byte(o + 1) # "tail"
  BY <1>1, ByteFacts
<1>5. q \in Place /\ q.offset = o + SizeAt(o)
  BY <1>1, <1>3, AdvanceMoves
<1>6. SizeAt(o) = (IF Byte(o) = "lead" THEN 2 ELSE 1) /\ Peek(p) = (IF Byte(o) = "lead" THEN "letter" ELSE Byte(o))
  BY <1>1, <1>2 DEF SizeAt, Peek, CharAt, Byte
<1>7. o + 1 \in Nat /\ (o + 1) + 1 = o + 2
  BY <1>1
<1>8. CASE Byte(o) = "nl"
  <2>1. q = [offset |-> o + 1, line |-> p.line + 1, column |-> 1]
    BY <1>3, <1>6, <1>8 DEF Advance
  <2>2. q.line = p.line + 1 /\ q.column = 1 /\ q.offset = o + 1
    BY <2>1
  <2>3. Cardinality(Ended(o + 1)) = Cardinality(Ended(o)) + 1 /\ Cardinality(OnLine(o + 1)) = 0
    BY <1>1, <1>8, CountFacts
  <2>4. Counted(q)
    <3>1. q.line = 1 + Cardinality(Ended(o + 1)) /\ q.column = 1 + Cardinality(OnLine(o + 1))
      <4>1. Cardinality(Ended(o)) \in Nat
        BY <1>1, CountFacts
      <4> QED
        BY <1>1, <2>2, <2>3, <4>1
    <3> QED
      BY <2>2, <3>1 DEF Counted
  <2>5. q.offset <= End /\ (q.offset < End => Byte(q.offset) # "tail")
    BY <1>1, <1>2, <1>4, <1>8, <2>2
  <2> QED
    BY <1>3, <1>5, <1>6, <1>8, <2>2, <2>4, <2>5 DEF Exact
<1>9. CASE Byte(o) \notin {"nl", "lead"}
  <2>1. q.line = p.line /\ q.column = p.column + 1
    BY <1>1, <1>3, <1>6, <1>9 DEF Advance, Place
  <2>2. q.offset = o + 1
    BY <1>5, <1>6, <1>9
  <2>3. Cardinality(Ended(o + 1)) = Cardinality(Ended(o)) /\ Cardinality(OnLine(o + 1)) = Cardinality(OnLine(o)) + 1
        /\ Cardinality(Ended(o)) \in Nat /\ Cardinality(OnLine(o)) \in Nat
    <3>1. Cardinality(Ended(o)) \in Nat /\ Cardinality(OnLine(o)) \in Nat
      BY <1>1, CountFacts
    <3>2. Cardinality(Ended(o + 1)) = Cardinality(Ended(o)) + 0
      BY <1>1, <1>9, CountFacts
    <3>3. Cardinality(OnLine(o + 1)) = Cardinality(OnLine(o)) + 1
      BY <1>1, <1>2, <1>9, CountFacts
    <3> QED
      BY <3>1, <3>2, <3>3
  <2>4. Counted(q)
    BY <1>1, <2>1, <2>2, <2>3 DEF Counted
  <2>5. q.offset <= End /\ (q.offset < End => Byte(q.offset) # "tail")
    BY <1>1, <1>2, <1>4, <1>9, <2>2
  <2> QED
    BY <1>3, <1>5, <1>6, <1>9, <2>2, <2>4, <2>5 DEF Exact
<1>10. CASE Byte(o) = "lead"
  <2>1. q.line = p.line /\ q.column = p.column + 1
    BY <1>1, <1>3, <1>6, <1>10 DEF Advance, Place
  <2>2. q.offset = o + 2 /\ o + 1 < End /\ Byte(o + 1) = "tail"
    BY <1>4, <1>5, <1>6, <1>10
  <2>3. Cardinality(Ended(o)) \in Nat /\ Cardinality(OnLine(o)) \in Nat
    BY <1>1, CountFacts
  <2>4. Cardinality(Ended(o + 1)) = Cardinality(Ended(o)) + 0 /\ Cardinality(OnLine(o + 1)) = Cardinality(OnLine(o)) + 1
    BY <1>1, <1>10, CountFacts
  <2>5. Cardinality(Ended(o + 2)) = Cardinality(Ended(o + 1)) + 0 /\ Cardinality(OnLine(o + 2)) = Cardinality(OnLine(o + 1))
    BY <1>7, <2>2, CountFacts
  <2>6. Counted(q)
    BY <1>1, <2>1, <2>2, <2>3, <2>4, <2>5 DEF Counted
  <2>7. q.offset <= End /\ (q.offset < End => Byte(q.offset) # "tail")
    <3>1. Byte(o + 1) # "lead" /\ (o + 1) + 1 < End => Byte((o + 1) + 1) # "tail"
      BY <1>7, <2>2, ByteFacts
    <3> QED
      BY <1>1, <1>2, <1>7, <2>2, <3>1
  <2> QED
    BY <1>3, <1>5, <1>6, <1>10, <2>2, <2>6, <2>7 DEF Exact
<1> QED
  BY <1>8, <1>9, <1>10

LEMMA ExactKept ==
  ASSUME text \in Texts, WellFormed
  PROVE  Kept(Exact) /\ Exact \subseteq Place /\ \A p \in Exact : Eof(p) <=> p.offset = End
<1>1. Exact \subseteq Place /\ \A p \in Exact : p.offset \in Nat /\ p.offset <= End
  BY DEF Exact, Place
<1>2. End \in Nat /\ End = Len(text)
  BY ByteFacts
<1>3. \A p \in Exact : Eof(p) <=> p.offset = End
  BY <1>1, <1>2 DEF Eof
<1>4. ASSUME NEW p \in Exact PROVE Advance(p) \in Exact
  <2>1. CASE Eof(p)
    BY <1>1, <2>1, AdvanceMoves
  <2>2. CASE ~Eof(p)
    <3>1. p.offset < End
      BY <1>1, <1>2, <1>3, <2>2
    <3> QED
      BY <3>1, AdvanceExact
  <2> QED
    BY <2>1, <2>2
<1> QED
  BY <1>1, <1>3, <1>4 DEF Kept-----------------------------------------------------------------------------
(* A gap goes on with a piece of it.                                       *)
LEMMA VoidFacts ==
  ASSUME NEW b \in Nat
  PROVE  /\ Void(b, b)
         /\ \A c, d \in Nat : Void(b, c) /\ c < d /\ Vacant(c, d) => Void(b, d)
         /\ \A c \in Nat : Void(b, c) => b <= c
<1>1. Void(b, b)
  <2>1. {b} \in SUBSET (b .. b)
    OBVIOUS
  <2> QED
    BY <2>1 DEF Void
<1>2. ASSUME NEW c \in Nat, NEW d \in Nat, Void(b, c), c < d, Vacant(c, d) PROVE Void(b, d)
  <2>1. PICK cuts \in SUBSET (b .. c) :
          b \in cuts /\ c \in cuts /\ \A k \in cuts \ {c} : \E l \in cuts : k < l /\ Vacant(k, l)
    BY <1>2 DEF Void
  <2> DEFINE more == cuts \cup {d}
  <2>2. more \in SUBSET (b .. d) /\ b \in more /\ d \in more
    BY <1>2, <2>1
  <2>3. ASSUME NEW k \in more \ {d} PROVE \E l \in more : k < l /\ Vacant(k, l)
    <3>1. CASE k = c
      BY <1>2, <3>1
    <3>2. CASE k # c
      BY <2>1, <3>2
    <3> QED
      BY <3>1, <3>2
  <2> HIDE DEF more
  <2> QED
    BY <2>2, <2>3 DEF Void
<1>3. \A c \in Nat : Void(b, c) => b <= c
  <2> SUFFICES ASSUME NEW c \in Nat, Void(b, c) PROVE b <= c
    OBVIOUS
  <2>1. b \in b .. c
    BY DEF Void
  <2> QED
    BY <2>1
<1> QED
  BY <1>1, <1>2, <1>3

(* A place and its offset: what there is to read.                          *)
LEMMA ExactFacts ==
  ASSUME text \in Texts, WellFormed, NEW p \in Exact
  PROVE  /\ p \in Place /\ p.offset \in Nat /\ p.offset <= End /\ End \in Nat
         /\ Eof(p) <=> p.offset = End
         /\ p.offset < End => Byte(p.offset) # "tail"
         /\ Advance(p) \in Exact
<1>1. p \in Place /\ p.offset \in Nat /\ p.offset <= End /\ (p.offset < End => Byte(p.offset) # "tail")
  BY DEF Exact, Place
<1>2. End \in Nat
  BY ByteFacts
<1>3. (Eof(p) <=> p.offset = End) /\ Advance(p) \in Exact
  BY ExactKept DEF Kept
<1> QED
  BY <1>1, <1>2, <1>3

LEMMA PeekFacts ==
  ASSUME text \in Texts, WellFormed, NEW p \in Exact, NEW c, c \notin {"nul", "letter", "lead"}
  PROVE  /\ Peek(p) = c <=> p.offset < End /\ Byte(p.offset) = c
         /\ Peek(p) = c => Advance(p).offset = p.offset + 1
<1>1. p.offset \in Nat /\ p.offset <= End /\ End \in Nat /\ (Eof(p) <=> p.offset = End)
  BY ExactFacts
<1>2. CASE p.offset = End
  <2>1. Peek(p) = "nul"
    BY <1>1, <1>2, PeekAtEnd
  <2> QED
    BY <1>1, <1>2, <2>1
<1>3. CASE p.offset < End
  BY <1>3, AdvanceExact
<1> QED
  BY <1>1, <1>2, <1>3

LEMMA PairFacts ==
  ASSUME text \in Texts, WellFormed, NEW p \in Exact, NEW c \in {"/", "*"}, NEW d \in {"/", "*"}
  PROVE  /\ Pair(p, c, d) <=> p.offset + 1 < End /\ Byte(p.offset) = c /\ Byte(p.offset + 1) = d
         /\ Pair(p, c, d) => AdvanceN(p, 2) \in Exact /\ AdvanceN(p, 2).offset = p.offset + 2
<1> DEFINE q == Advance(p)
<1>1. /\ p \in Place /\ p.offset \in Nat /\ p.offset <= End /\ End \in Nat /\ q \in Exact /\ Advance(q) \in Exact
      /\ PeekN(p, 1) = Peek(q) /\ AdvanceN(p, 2) = Advance(q)
  <2>1. p \in Place /\ p.offset \in Nat /\ p.offset <= End /\ End \in Nat /\ q \in Exact
    BY ExactFacts
  <2>2. Advance(q) \in Exact
    BY <2>1, ExactFacts
  <2> QED
    BY <2>1, <2>2, AdvanceTwice
<1>2. c \notin {"nul", "letter", "lead"} /\ d \notin {"nul", "letter", "lead"}
  OBVIOUS
<1>3. /\ Peek(p) = c <=> p.offset < End /\ Byte(p.offset) = c
      /\ Peek(p) = c => q.offset = p.offset + 1
  BY <1>2, PeekFacts
<1>4. /\ Peek(q) = d <=> q.offset < End /\ Byte(q.offset) = d
      /\ Peek(q) = d => Advance(q).offset = q.offset + 1
  BY <1>1, <1>2, PeekFacts
<1> HIDE DEF q
<1>5. Pair(p, c, d) <=> Peek(p) = c /\ Peek(q) = d
  BY <1>1 DEF Pair
<1> QED
  BY <1>1, <1>3, <1>4, <1>5

(* A loop that reads characters until one of them comes.                   *)
LEMMA AfterLineEnds ==
  ASSUME text \in Texts, WellFormed, NEW p \in Exact
  PROVE  /\ AfterLine(p) \in Exact
         /\ AfterLine(p).offset = Least({k \in p.offset .. End - 1 : Byte(k) = "nl"}, End)
<1> DEFINE stop == {q \in Place : Peek(q) = "nl" \/ Eof(q)}
           good == {q \in Exact : p.offset <= q.offset /\ \A k \in p.offset .. q.offset - 1 : Byte(k) # "nl"}
           r == AfterLine(p)
<1>1. p.offset \in Nat /\ End \in Nat
  BY ExactFacts
<1>2. ASSUME NEW q \in good \ stop PROVE Advance(q) \in good
  <2>1. q \in Exact /\ q \in Place /\ q.offset \in Nat /\ q.offset <= End /\ p.offset <= q.offset
        /\ Peek(q) # "nl" /\ ~Eof(q) /\ q.offset < End
    BY ExactFacts
  <2>2. /\ Advance(q) \in Exact
        /\ \/ Byte(q.offset) # "lead" /\ Advance(q).offset = q.offset + 1 /\ Peek(q) = Byte(q.offset)
           \/ Byte(q.offset) = "lead" /\ Advance(q).offset = q.offset + 2 /\ Byte(q.offset + 1) = "tail"
    BY <2>1, AdvanceExact
  <2>3. Byte(q.offset) # "nl" /\ (Advance(q).offset = q.offset + 2 => Byte(q.offset + 1) # "nl")
    BY <2>1, <2>2
  <2>4. ASSUME NEW k \in p.offset .. Advance(q).offset - 1 PROVE Byte(k) # "nl"
    <3>1. k \in p.offset .. q.offset - 1 \/ k = q.offset \/ (k = q.offset + 1 /\ Advance(q).offset = q.offset + 2)
      BY <1>1, <2>1, <2>2
    <3> QED
      BY <2>3, <3>1
  <2> QED
    BY <1>1, <2>1, <2>2, <2>4
<1>3. p \in good
  BY <1>1
<1>4. r \in good \cap stop
  <2>1. \A q \in Place \ stop : ~Eof(q)
    OBVIOUS
  <2>2. good \in SUBSET Place
    BY DEF Exact
  <2>3. r = Until(Place, stop, Characters, p)
    BY DEF AfterLine
  <2> HIDE DEF stop, good, r
  <2> QED
    BY <1>2, <1>3, <2>1, <2>2, <2>3, CharacterLoop
<1> HIDE DEF r
<1>5. r \in Exact /\ p.offset <= r.offset /\ (\A k \in p.offset .. r.offset - 1 : Byte(k) # "nl") /\ (Peek(r) = "nl" \/ Eof(r))
  BY <1>4
<1> HIDE DEF good, stop
<1>6. r.offset \in Nat /\ r.offset <= End /\ (Eof(r) <=> r.offset = End) /\ (Peek(r) = "nl" <=> r.offset < End /\ Byte(r.offset) = "nl")
  BY <1>5, ExactFacts, PeekFacts
<1> DEFINE T == {k \in p.offset .. End - 1 : Byte(k) = "nl"}
<1>7. T \in SUBSET Nat
  BY <1>1
<1>8. CASE r.offset = End
  <2>1. T = {}
    BY <1>1, <1>5, <1>8
  <2> QED
    BY <1>5, <1>7, <1>8, <2>1, LeastFacts DEF r
<1>9. CASE r.offset < End
  <2>1. r.offset \in T
    BY <1>1, <1>5, <1>6, <1>9
  <2>2. \A k \in T : r.offset <= k
    BY <1>1, <1>5, <1>6
  <2> HIDE DEF T
  <2>3. Least(T, End) = r.offset
    BY <1>7, <2>1, <2>2, LeastIs
  <2> QED
    BY <1>5, <2>3 DEF r, T
<1> QED
  BY <1>1, <1>6, <1>8, <1>9

Closes(j) == j + 1 < End /\ Byte(j) = "*" /\ Byte(j + 1) = "/"

LEMMA BlockEndEnds ==
  ASSUME text \in Texts, WellFormed, NEW p \in Exact
  PROVE  LET r == BlockEnd(p)
         IN  /\ r \in Exact /\ p.offset <= r.offset /\ (Eof(r) \/ Pair(r, "*", "/"))
             /\ \A j \in p.offset .. r.offset - 1 : ~Closes(j)
<1> DEFINE stop == {q \in Place : Eof(q) \/ Pair(q, "*", "/")}
           good == {q \in Exact : p.offset <= q.offset /\ \A j \in p.offset .. q.offset - 1 : ~Closes(j)}
<1>1. p.offset \in Nat /\ End \in Nat
  BY ExactFacts
<1>2. ASSUME NEW q \in good \ stop PROVE Advance(q) \in good
  <2>1. q \in Exact /\ q \in Place /\ q.offset \in Nat /\ q.offset <= End /\ p.offset <= q.offset
        /\ ~Pair(q, "*", "/") /\ ~Eof(q) /\ q.offset < End
    BY ExactFacts
  <2>2. /\ Advance(q) \in Exact
        /\ \/ Byte(q.offset) # "lead" /\ Advance(q).offset = q.offset + 1 /\ Peek(q) = Byte(q.offset)
           \/ Byte(q.offset) = "lead" /\ Advance(q).offset = q.offset + 2 /\ Byte(q.offset + 1) = "tail"
    BY <2>1, AdvanceExact
  <2>3. ~Closes(q.offset) /\ (Advance(q).offset = q.offset + 2 => ~Closes(q.offset + 1))
    <3>1. ~Closes(q.offset)
      BY <2>1, PairFacts DEF Closes
    <3>2. Advance(q).offset = q.offset + 2 => Byte(q.offset + 1) = "tail"
      BY <2>1, <2>2
    <3> QED
      BY <3>1, <3>2 DEF Closes
  <2>4. ASSUME NEW k \in p.offset .. Advance(q).offset - 1 PROVE ~Closes(k)
    <3>1. k \in p.offset .. q.offset - 1 \/ k = q.offset \/ (k = q.offset + 1 /\ Advance(q).offset = q.offset + 2)
      BY <1>1, <2>1, <2>2
    <3> QED
      BY <2>3, <3>1
  <2> QED
    BY <1>1, <2>1, <2>2, <2>4
<1>3. p \in good
  BY <1>1
<1>4. BlockEnd(p) \in good \cap stop
  <2>1. \A q \in Place \ stop : ~Eof(q)
    OBVIOUS
  <2>2. good \in SUBSET Place
    BY DEF Exact
  <2>3. BlockEnd(p) = Until(Place, stop, Characters, p)
    BY DEF BlockEnd
  <2> HIDE DEF stop, good
  <2> QED
    BY <1>2, <1>3, <2>1, <2>2, <2>3, CharacterLoop
<1> QED
  BY <1>4

LEMMA AfterBlockEnds ==
  ASSUME text \in Texts, WellFormed, NEW p \in Exact
  PROVE  /\ AfterBlock(p) \in Exact
         /\ AfterBlock(p).offset =
              Least({k + 2 : k \in {j \in p.offset .. End - 2 : Byte(j) = "*" /\ Byte(j + 1) = "/"}}, End)
<1> DEFINE r == BlockEnd(p)
           J == {j \in p.offset .. End - 2 : Byte(j) = "*" /\ Byte(j + 1) = "/"}
           T == {k + 2 : k \in J}
<1>1. /\ r \in Exact /\ p.offset <= r.offset /\ (Eof(r) \/ Pair(r, "*", "/"))
      /\ \A j \in p.offset .. r.offset - 1 : ~Closes(j)
  BY BlockEndEnds
<1>2. p.offset \in Nat /\ End \in Nat /\ r.offset \in Nat /\ r.offset <= End /\ (Eof(r) <=> r.offset = End)
  BY <1>1, ExactFacts
<1>3. \A j \in J : j \in Nat /\ p.offset <= j /\ j + 1 < End /\ Closes(j)
  BY <1>2 DEF Closes
<1>4. \A j \in Nat : p.offset <= j /\ Closes(j) => j \in J
  BY <1>2 DEF Closes
<1>5. T \in SUBSET Nat
  BY <1>3
<1>6. AfterBlock(p) = IF Eof(r) THEN r ELSE AdvanceN(r, 2)
  BY DEF AfterBlock
<1> HIDE DEF r, J
<1>7. \A j \in J : r.offset <= j
  BY <1>1, <1>2, <1>3
<1>8. CASE Eof(r)
  <2>1. J = {}
    BY <1>2, <1>3, <1>7, <1>8
  <2>2. T = {}
    BY <2>1
  <2>3. Least(T, End) = End
    BY <1>5, <2>2, LeastFacts
  <2> QED
    BY <1>1, <1>2, <1>6, <1>8, <2>3 DEF J
<1>9. CASE ~Eof(r)
  <2>1. Pair(r, "*", "/")
    BY <1>1, <1>9
  <2>2. r.offset + 1 < End /\ Byte(r.offset) = "*" /\ Byte(r.offset + 1) = "/"
        /\ AdvanceN(r, 2) \in Exact /\ AdvanceN(r, 2).offset = r.offset + 2
    BY <1>1, <2>1, PairFacts
  <2>3. r.offset \in J
    BY <1>1, <1>2, <1>4, <2>2 DEF Closes
  <2>4. r.offset + 2 \in T /\ \A k \in T : r.offset + 2 <= k
    BY <1>2, <1>3, <1>7, <2>3
  <2> HIDE DEF T
  <2>5. Least(T, End) = r.offset + 2
    BY <1>5, <2>4, LeastIs
  <2> QED
    BY <1>6, <1>9, <2>2, <2>5 DEF T, J
<1> QED
  BY <1>8, <1>9

LEMMA CommentEnds ==
  ASSUME text \in Texts, WellFormed, NEW p \in Exact
  PROVE  /\ Commented(p) <=> IsComment(p.offset)
         /\ Commented(p) => /\ AfterComment(p) \in Exact
                            /\ AfterComment(p).offset = CommentEnd(p.offset)
                            /\ p.offset < AfterComment(p).offset
<1>1. p \in Place /\ p.offset \in Nat
  BY ExactFacts
<1>2. /\ Pair(p, "/", "/") <=> p.offset + 1 < End /\ Byte(p.offset) = "/" /\ Byte(p.offset + 1) = "/"
      /\ Pair(p, "/", "/") => AdvanceN(p, 2) \in Exact /\ AdvanceN(p, 2).offset = p.offset + 2
      /\ Pair(p, "/", "*") <=> p.offset + 1 < End /\ Byte(p.offset) = "/" /\ Byte(p.offset + 1) = "*"
      /\ Pair(p, "/", "*") => AdvanceN(p, 2) \in Exact /\ AdvanceN(p, 2).offset = p.offset + 2
  BY PairFacts
<1>3. Commented(p) <=> IsComment(p.offset)
  BY <1>2 DEF Commented, IsComment
<1>4. ASSUME Commented(p)
      PROVE  AfterComment(p) \in Exact /\ AfterComment(p).offset = CommentEnd(p.offset)
  <2> DEFINE q == AdvanceN(p, 2)
  <2>1. q \in Exact /\ q.offset = p.offset + 2
    BY <1>2, <1>4 DEF Commented
  <2>2. CASE Pair(p, "/", "/")
    <3>1. AfterComment(p) = AfterLine(q) /\ Byte(p.offset + 1) = "/"
      BY <1>2, <2>2 DEF AfterComment
    <3> HIDE DEF q
    <3>2. AfterLine(q) \in Exact /\ AfterLine(q).offset = Least({k \in q.offset .. End - 1 : Byte(k) = "nl"}, End)
      BY <2>1, AfterLineEnds
    <3> QED
      BY <2>1, <3>1, <3>2 DEF CommentEnd
  <2>3. CASE ~Pair(p, "/", "/")
    <3>1. AfterComment(p) = AfterBlock(q) /\ Byte(p.offset + 1) # "/"
      BY <1>2, <1>4, <2>3 DEF AfterComment, Commented
    <3> HIDE DEF q
    <3>2. /\ AfterBlock(q) \in Exact
          /\ AfterBlock(q).offset =
               Least({k + 2 : k \in {j \in q.offset .. End - 2 : Byte(j) = "*" /\ Byte(j + 1) = "/"}}, End)
      BY <2>1, AfterBlockEnds
    <3> QED
      BY <2>1, <3>1, <3>2 DEF CommentEnd
  <2> QED
    BY <2>2, <2>3
<1>5. ASSUME Commented(p) PROVE p.offset < AfterComment(p).offset
  <2>1. ~Eof(p)
    BY <1>5, PairNotAtEnd DEF Commented
  <2>2. Kept(Exact)
    BY ExactKept
  <2> QED
    BY <2>1, <2>2, CommentKept
<1> QED
  BY <1>3, <1>4, <1>5

LEMMA CommentsEnd ==
  ASSUME text \in Texts, WellFormed, NEW p \in Exact, NEW b \in Nat, Void(b, p.offset)
  PROVE  /\ AfterComments(p) \in Exact
         /\ Void(b, AfterComments(p).offset)
         /\ ~IsComment(AfterComments(p).offset)
<1> DEFINE good == {q \in Exact : Void(b, q.offset)}
<1>1. good \in SUBSET Place /\ p \in good
  BY DEF Exact
<1>2. ASSUME NEW q \in good, Commented(q) PROVE AfterComment(q) \in good
  <2>1. /\ q \in Exact /\ IsComment(q.offset) /\ AfterComment(q) \in Exact
        /\ AfterComment(q).offset = CommentEnd(q.offset) /\ q.offset < AfterComment(q).offset
    BY <1>2, CommentEnds
  <2>2. q.offset \in Nat /\ AfterComment(q).offset \in Nat
    BY <2>1, ExactFacts
  <2>3. Vacant(q.offset, AfterComment(q).offset)
    BY <2>1 DEF Vacant
  <2>4. Void(b, AfterComment(q).offset)
    BY <2>1, <2>2, <2>3, VoidFacts
  <2> QED
    BY <2>1, <2>4
<1>3. AfterComments(p) \in good /\ ~Commented(AfterComments(p))
  <2> HIDE DEF good
  <2> QED
    BY <1>1, <1>2, CommentsLoop
<1> QED
  BY <1>3, CommentEnds-----------------------------------------------------------------------------
(* A string: at each round the backslashes before the place are even, so a *)
(* quote there would close it, and none before would have.                 *)
LEMMA Parity ==
  0 % 2 = 0 /\ \A n \in Nat : n % 2 = 0 => (n + 1) % 2 # 0 /\ ((n + 1) + 1) % 2 = 0
OBVIOUS

LEMMA BackslashFacts ==
  ASSUME NEW b \in Nat, NEW k \in Nat, b + 1 <= k
  PROVE  /\ Backslashes(b, k) \in Nat
         /\ Backslashes(b, b + 1) = 0
         /\ Byte(k) = "\\" => Backslashes(b, k + 1) = Backslashes(b, k) + 1
         /\ Byte(k) # "\\" => Backslashes(b, k + 1) = 0
<1> DEFINE Run(m) == {j \in b + 1 .. m : \A i \in j .. m - 1 : Byte(i) = "\\"}
<1>1. \A m \in Nat : Run(m) \in SUBSET Nat
  OBVIOUS
<1>2. \A m \in Nat : b + 1 <= m => m \in Run(m)
  OBVIOUS
<1>3. Run(b + 1) = {b + 1}
  OBVIOUS
<1>4. Byte(k) # "\\" => Run(k + 1) = {k + 1}
  <2> SUFFICES ASSUME Byte(k) # "\\" PROVE Run(k + 1) = {k + 1}
    OBVIOUS
  <2>1. \A j \in b + 1 .. k : k \in j .. (k + 1) - 1
    OBVIOUS
  <2>2. \A j \in Run(k + 1) : j = k + 1
    BY <2>1
  <2> QED
    BY <1>2, <2>2
<1>5. Byte(k) = "\\" => /\ \A j \in Run(k) : j \in Run(k + 1)
                        /\ \A j \in Run(k + 1) : j \in Run(k) \/ j = k + 1
  <2> SUFFICES ASSUME Byte(k) = "\\"
               PROVE  /\ \A j \in Run(k) : j \in Run(k + 1)
                      /\ \A j \in Run(k + 1) : j \in Run(k) \/ j = k + 1
    OBVIOUS
  <2>1. \A j \in b + 1 .. k : \A i \in j .. (k + 1) - 1 : i \in j .. k - 1 \/ i = k
    OBVIOUS
  <2>2. \A j \in b + 1 .. k : \A i \in j .. k - 1 : i \in j .. (k + 1) - 1
    OBVIOUS
  <2> QED
    BY <2>1, <2>2
<1>6. \A m \in Nat : Backslashes(b, m) = m - Least(Run(m), m)
  BY DEF Backslashes
<1> HIDE DEF Run
<1>7. Run(k) # {} /\ Least(Run(k), k) \in Run(k) /\ \A j \in Run(k) : Least(Run(k), k) <= j
  BY <1>1, <1>2, LeastFacts
<1>8. Least(Run(k), k) \in Nat /\ Least(Run(k), k) <= k
  BY <1>1, <1>2, <1>7
<1>9. Backslashes(b, b + 1) = 0
  <2>1. Least(Run(b + 1), b + 1) = b + 1
    BY <1>1, <1>3, LeastIs
  <2> QED
    BY <1>6, <2>1
<1>10. Byte(k) # "\\" => Backslashes(b, k + 1) = 0
  <2>1. Byte(k) # "\\" => Least(Run(k + 1), k + 1) = k + 1
    BY <1>1, <1>4, LeastIs
  <2> QED
    BY <1>6, <2>1
<1>11. Byte(k) = "\\" => Backslashes(b, k + 1) = Backslashes(b, k) + 1
  <2> SUFFICES ASSUME Byte(k) = "\\" PROVE Backslashes(b, k + 1) = Backslashes(b, k) + 1
    OBVIOUS
  <2> DEFINE l == Least(Run(k), k)
  <2>1. l \in Run(k + 1) /\ \A j \in Run(k + 1) : l <= j
    BY <1>5, <1>7, <1>8
  <2> HIDE DEF l
  <2>2. Least(Run(k + 1), k + 1) = l
    BY <1>1, <2>1, LeastIs
  <2>3. Backslashes(b, k + 1) = (k + 1) - l /\ Backslashes(b, k) = k - l /\ l \in Nat
    BY <1>6, <1>8, <2>2 DEF l
  <2> QED
    BY <2>3
<1>12. Backslashes(b, k) \in Nat
  BY <1>6, <1>8
<1> QED
  BY <1>9, <1>10, <1>11, <1>12

LEMMA StringEnds ==
  ASSUME text \in Texts, WellFormed, NEW b \in Nat, b < End, Byte(b) \in Quote, NEW p \in Exact, p.offset = b + 1
  PROVE  /\ StringEnd(p, Byte(b)) \in Exact
         /\ StringEnd(p, Byte(b)).offset = Closing(b)
         /\ Eof(StringEnd(p, Byte(b))) \/ Byte(StringEnd(p, Byte(b)).offset) = Byte(b)
         /\ b < StringEnd(p, Byte(b)).offset
<1> DEFINE quote == Byte(b)
           Closed(k) == Byte(k) = quote /\ Backslashes(b, k) % 2 = 0
           good == {q \in Exact : /\ b + 1 <= q.offset
                                  /\ q.offset < End => Backslashes(b, q.offset) % 2 = 0
                                  /\ \A k \in b + 1 .. q.offset - 1 : ~Closed(k)}
           r == StringEnd(p, quote)
<1>1. quote \notin {"nul", "letter", "lead", "tail", "\\"} /\ End \in Nat
  BY ByteFacts DEF Quote
<1>2. \A k \in Nat : b + 1 <= k =>
        /\ Backslashes(b, k) \in Nat
        /\ Byte(k) = "\\" => Backslashes(b, k + 1) = Backslashes(b, k) + 1
        /\ Byte(k) # "\\" => Backslashes(b, k + 1) = 0
  BY BackslashFacts
<1>3. p \in good
  <2>1. Backslashes(b, p.offset) % 2 = 0
    BY BackslashFacts, Parity
  <2> QED
    BY <2>1
<1> HIDE DEF quote
<1>4. ASSUME NEW q \in good, ~Eof(q), Peek(q) # quote
      PROVE  IF Peek(q) = "\\" THEN AdvanceN(q, 2) \in good ELSE Advance(q) \in good
  <2> DEFINE o == q.offset
             q1 == Advance(q)
             q2 == Advance(q1)
  <2>1. /\ q \in Exact /\ q \in Place /\ o \in Nat /\ o < End /\ b + 1 <= o
        /\ Backslashes(b, o) % 2 = 0 /\ \A k \in b + 1 .. o - 1 : ~Closed(k)
    BY <1>4, ExactFacts
  <2>2. /\ q1 \in Exact
        /\ \/ Byte(o) # "lead" /\ q1.offset = o + 1 /\ Peek(q) = Byte(o)
           \/ Byte(o) = "lead" /\ q1.offset = o + 2 /\ Peek(q) = "letter" /\ Byte(o + 1) = "tail"
    BY <2>1, AdvanceExact
  <2>3. AdvanceN(q, 2) = q2
    BY <2>1, AdvanceTwice
  <2>4. Byte(o) # quote
    BY <1>1, <1>4, <2>2
  <2> HIDE DEF Closed
  <2>5. ~Closed(o)
    BY <2>4 DEF Closed
  <2>6. CASE Peek(q) = "\\"
    <3>1. Byte(o) = "\\" /\ q1.offset = o + 1
      BY <2>2, <2>6
    <3>2. Backslashes(b, o + 1) = Backslashes(b, o) + 1 /\ Backslashes(b, o) \in Nat
      BY <1>2, <2>1, <3>1
    <3>3. Backslashes(b, o + 1) % 2 # 0 /\ (Backslashes(b, o + 1) + 1) % 2 = 0
      BY <2>1, <3>2, Parity
    <3>4. ~Closed(o + 1)
      BY <3>3 DEF Closed
    <3>5. \A k \in b + 1 .. o + 1 : ~Closed(k)
      <4>1. \A k \in b + 1 .. o + 1 : k \in b + 1 .. o - 1 \/ k = o \/ k = o + 1
        BY <2>1
      <4> QED
        BY <2>1, <2>5, <3>4, <4>1
    <3>6. CASE Eof(q1)
      <4>1. q2 = q1 /\ q1.offset = End
        BY <2>2, <3>6, ExactFacts, AdvanceMoves
      <4>2. \A k \in b + 1 .. q1.offset - 1 : ~Closed(k)
        BY <2>1, <3>1, <3>5
      <4> QED
        BY <1>1, <2>1, <2>2, <2>3, <2>6, <3>1, <4>1, <4>2
    <3>7. CASE ~Eof(q1)
      <4>1. q1.offset < End
        BY <1>1, <2>2, <3>7, ExactFacts
      <4>2. /\ q2 \in Exact
            /\ \/ Byte(o + 1) # "lead" /\ q2.offset = (o + 1) + 1
               \/ Byte(o + 1) = "lead" /\ q2.offset = (o + 1) + 2 /\ Byte((o + 1) + 1) = "tail"
        BY <2>2, <3>1, <4>1, AdvanceExact
      <4> HIDE DEF q2, q1
      <4>3. CASE Byte(o + 1) # "lead"
        <5>1. Backslashes(b, (o + 1) + 1) % 2 = 0
          <6>1. o + 1 \in Nat /\ b + 1 <= o + 1
            BY <2>1
          <6>2. Backslashes(b, (o + 1) + 1) = Backslashes(b, o + 1) + 1 \/ Backslashes(b, (o + 1) + 1) = 0
            BY <1>2, <6>1
          <6> QED
            BY <3>3, <6>2, Parity
        <5>2. q2.offset = (o + 1) + 1 /\ q2.offset - 1 = o + 1 /\ b + 1 <= q2.offset
          BY <2>1, <4>2, <4>3
        <5>3. q2 \in good
          BY <3>5, <4>2, <5>1, <5>2
        <5> QED
          BY <2>3, <2>6, <5>3
      <4>4. CASE Byte(o + 1) = "lead"
        <5>1. q2.offset = (o + 1) + 2 /\ Byte((o + 1) + 1) = "tail" /\ q2.offset - 1 = (o + 1) + 1 /\ b + 1 <= q2.offset
              /\ q2.offset = ((o + 1) + 1) + 1
          BY <2>1, <4>2, <4>4
        <5>2. Backslashes(b, ((o + 1) + 1) + 1) = 0
          <6>1. (o + 1) + 1 \in Nat /\ b + 1 <= (o + 1) + 1
            BY <2>1
          <6> QED
            BY <1>2, <5>1, <6>1
        <5>3. ~Closed((o + 1) + 1)
          BY <1>1, <5>1 DEF Closed
        <5>4. \A k \in b + 1 .. q2.offset - 1 : k \in b + 1 .. o + 1 \/ k = (o + 1) + 1
          BY <2>1, <5>1
        <5>5. q2 \in good
          BY <3>5, <4>2, <5>1, <5>2, <5>3, <5>4, Parity
        <5> QED
          BY <2>3, <2>6, <5>5
      <4> QED
        BY <4>3, <4>4
    <3> QED
      BY <3>6, <3>7
  <2>7. CASE Peek(q) # "\\"
    <3>1. Byte(o) # "\\"
      BY <2>2, <2>7
    <3>2. Backslashes(b, o + 1) = 0
      BY <1>2, <2>1, <3>1
    <3> HIDE DEF q1
    <3>3. CASE Byte(o) # "lead"
      <4>1. q1.offset = o + 1 /\ \A k \in b + 1 .. q1.offset - 1 : k \in b + 1 .. o - 1 \/ k = o
        BY <2>1, <2>2, <3>3
      <4>2. b + 1 <= q1.offset /\ Backslashes(b, q1.offset) % 2 = 0
        BY <2>1, <3>2, <4>1, Parity
      <4>3. \A k \in b + 1 .. q1.offset - 1 : ~Closed(k)
        BY <2>1, <2>5, <4>1
      <4> QED
        BY <2>2, <2>7, <4>2, <4>3 DEF q1
    <3>4. CASE Byte(o) = "lead"
      <4>1. q1.offset = (o + 1) + 1 /\ Byte(o + 1) = "tail" /\
            \A k \in b + 1 .. q1.offset - 1 : k \in b + 1 .. o - 1 \/ k = o \/ k = o + 1
        BY <2>1, <2>2, <3>4
      <4>2. ~Closed(o + 1)
        BY <1>1, <4>1 DEF Closed
      <4>3. Backslashes(b, (o + 1) + 1) = 0
        <5>1. o + 1 \in Nat /\ b + 1 <= o + 1 /\ Byte(o + 1) # "\\"
          BY <2>1, <4>1
        <5> QED
          BY <1>2, <5>1
      <4>4. b + 1 <= q1.offset /\ Backslashes(b, q1.offset) % 2 = 0
        BY <2>1, <4>1, <4>3, Parity
      <4>5. \A k \in b + 1 .. q1.offset - 1 : ~Closed(k)
        BY <2>1, <2>5, <4>1, <4>2
      <4> QED
        BY <2>2, <2>7, <4>4, <4>5 DEF q1
    <3> QED
      BY <3>3, <3>4
  <2> QED
    BY <2>6, <2>7
<1>5. r \in good /\ (Eof(r) \/ Peek(r) = quote)
  <2>1. good \in SUBSET Place
    BY DEF Exact
  <2> HIDE DEF good
  <2> QED
    BY <1>3, <1>4, <2>1, StringLoop
<1> HIDE DEF r
<1>6. /\ r \in Exact /\ b + 1 <= r.offset /\ (r.offset < End => Backslashes(b, r.offset) % 2 = 0)
      /\ \A k \in b + 1 .. r.offset - 1 : ~Closed(k)
  BY <1>5
<1>7. r.offset \in Nat /\ r.offset <= End /\ (Eof(r) <=> r.offset = End) /\ (Peek(r) = quote <=> r.offset < End /\ Byte(r.offset) = quote)
  BY <1>1, <1>6, ExactFacts, PeekFacts
<1> DEFINE T == {k \in b + 1 .. End - 1 : Closed(k)}
<1>8. T \in SUBSET Nat /\ Closing(b) = Least(T, End)
  BY DEF Closing, quote
<1>9. r.offset = Least(T, End)
  <2>1. CASE r.offset = End
    <3>1. T = {}
      BY <1>1, <1>6, <2>1
    <3> QED
      BY <1>8, <2>1, <3>1, LeastFacts
  <2>2. CASE r.offset < End
    <3>1. r.offset \in T
      BY <1>1, <1>5, <1>6, <1>7, <2>2
    <3>2. \A k \in T : r.offset <= k
      BY <1>1, <1>6, <1>7
    <3> HIDE DEF T
    <3> QED
      BY <1>8, <3>1, <3>2, LeastIs
  <2> QED
    BY <1>1, <1>7, <2>1, <2>2
<1>10. Eof(r) \/ Byte(r.offset) = quote
  BY <1>5, <1>7
<1>11. b < r.offset
  BY <1>6, <1>7
<1> QED
  BY <1>6, <1>8, <1>9, <1>10, <1>11 DEF r, quote-----------------------------------------------------------------------------
(* Numbers and words.                                                      *)
LEMMA DigitsEndEnds ==
  ASSUME text \in Texts, WellFormed, NEW p \in Exact
  PROVE  LET r == DigitsEnd(p)
         IN  /\ r \in Exact /\ p.offset <= r.offset
             /\ \A k \in p.offset .. r.offset - 1 : Byte(k) = "1"
             /\ r.offset < End => Byte(r.offset) # "1"
<1> DEFINE stop == {q \in Place : Peek(q) \notin Digit}
           good == {q \in Exact : p.offset <= q.offset /\ \A k \in p.offset .. q.offset - 1 : Byte(k) = "1"}
           r == DigitsEnd(p)
<1>1. p.offset \in Nat /\ End \in Nat
  BY ExactFacts
<1>2. ASSUME NEW q \in good \ stop PROVE Advance(q) \in good
  <2>1. q \in Exact /\ q \in Place /\ q.offset \in Nat /\ p.offset <= q.offset /\ Peek(q) = "1"
    BY ExactFacts DEF Digit
  <2>2. Byte(q.offset) = "1" /\ Advance(q).offset = q.offset + 1 /\ Advance(q) \in Exact
    BY <2>1, PeekFacts, ExactFacts
  <2>3. \A k \in p.offset .. Advance(q).offset - 1 : k \in p.offset .. q.offset - 1 \/ k = q.offset
    BY <1>1, <2>1, <2>2
  <2> QED
    BY <1>1, <2>1, <2>2, <2>3
<1>3. p \in good
  BY <1>1
<1>4. r \in good \cap stop
  <2>1. \A q \in Place \ stop : ~Eof(q)
    BY PeekAtEnd DEF Digit
  <2>2. good \in SUBSET Place
    BY DEF Exact
  <2>3. r = Until(Place, stop, Characters, p)
    BY DEF DigitsEnd
  <2> HIDE DEF stop, good, r
  <2> QED
    BY <1>2, <1>3, <2>1, <2>2, <2>3, CharacterLoop
<1> HIDE DEF r
<1>5. r \in Exact /\ Peek(r) # "1"
  BY <1>4 DEF Digit
<1>6. r.offset < End => Byte(r.offset) # "1"
  BY <1>5, PeekFacts
<1> QED
  BY <1>4, <1>6 DEF r

LEMMA NumberEnds ==
  ASSUME text \in Texts, WellFormed, NEW p \in Exact, Peek(p) \in Digit
  PROVE  /\ NumberEnd(p) \in Exact /\ p.offset < NumberEnd(p).offset
         /\ LongestNumber(p.offset, NumberEnd(p).offset)
<1> DEFINE b == p.offset
           w == DigitsEnd(p)
           a == Advance(w)
           d == DigitsEnd(a)
<1>1. b \in Nat /\ b < End /\ End \in Nat /\ Byte(b) = "1"
  <2>1. Peek(p) = "1"
    BY DEF Digit
  <2> QED
    BY <2>1, ExactFacts, PeekFacts
<1>2. /\ w \in Exact /\ b <= w.offset /\ w.offset \in Nat /\ w.offset <= End
      /\ \A k \in b .. w.offset - 1 : Byte(k) = "1"
      /\ w.offset < End => Byte(w.offset) # "1"
  <2>1. /\ w \in Exact /\ b <= w.offset
        /\ \A k \in b .. w.offset - 1 : Byte(k) = "1"
        /\ w.offset < End => Byte(w.offset) # "1"
    BY DigitsEndEnds
  <2>2. w.offset \in Nat /\ w.offset <= End
    BY <2>1, ExactFacts
  <2> QED
    BY <2>1, <2>2
<1>3. b < w.offset
  BY <1>1, <1>2
<1>4. NumberEnd(p) = IF Peek(w) = "." THEN d ELSE w
  BY DEF NumberEnd
<1>5. /\ Peek(w) = "." <=> w.offset < End /\ Byte(w.offset) = "."
      /\ Peek(w) = "." => a.offset = w.offset + 1
      /\ a \in Exact
  BY <1>2, PeekFacts, ExactFacts
<1> HIDE DEF w
<1>6. CASE Peek(w) = "."
  <2>1. /\ d \in Exact /\ a.offset <= d.offset
        /\ \A k \in a.offset .. d.offset - 1 : Byte(k) = "1"
        /\ d.offset < End => Byte(d.offset) # "1"
    BY <1>5, DigitsEndEnds
  <2>2. d.offset \in Nat /\ d.offset <= End
    BY <2>1, ExactFacts
  <2> DEFINE e == d.offset
  <2>3. a.offset = w.offset + 1 /\ Byte(w.offset) = "." /\ NumberEnd(p) = d
    BY <1>4, <1>5, <1>6
  <2> HIDE DEF a, d
  <2>4. \A k \in b .. e - 1 : k # w.offset => Byte(k) = "1"
    <3>1. \A k \in b .. e - 1 : k \in b .. w.offset - 1 \/ k = w.offset \/ k \in a.offset .. e - 1
      BY <1>1, <1>2, <2>2, <2>3
    <3> QED
      BY <1>2, <2>1, <3>1
  <2>5. w.offset \in b .. e - 1 /\ b < e
    BY <1>1, <1>2, <2>1, <2>2, <2>3
  <2>6. Inside(b, e) \subseteq Digit \cup {"."}
    BY <2>3, <2>4 DEF Inside, Digit
  <2>7. \A j, k \in b .. e - 1 : Byte(j) = "." /\ Byte(k) = "." => j = k
    BY <2>4
  <2>8. Following(e) \notin Digit
    BY <2>1 DEF Following, Nothing, Digit
  <2>9. "." \in Inside(b, e)
    BY <2>3, <2>5 DEF Inside
  <2>10. LongestNumber(b, e)
    BY <1>1, <2>6, <2>7, <2>8, <2>9 DEF LongestNumber, Digit
  <2> QED
    BY <2>1, <2>3, <2>5, <2>10
<1>7. CASE Peek(w) # "."
  <2> DEFINE e == w.offset
  <2>1. NumberEnd(p) = w
    BY <1>4, <1>7
  <2>2. Inside(b, e) \subseteq Digit \cup {"."} /\ "." \notin Inside(b, e)
    BY <1>2 DEF Inside, Digit
  <2>3. \A j, k \in b .. e - 1 : Byte(j) = "." /\ Byte(k) = "." => j = k
    BY <1>2
  <2>4. Following(e) \notin Digit /\ Following(e) # "."
    BY <1>2, <1>5, <1>7 DEF Following, Nothing, Digit
  <2>5. LongestNumber(b, e)
    BY <1>1, <2>2, <2>3, <2>4 DEF LongestNumber, Digit
  <2> QED
    BY <1>2, <1>3, <2>1, <2>5
<1> QED
  BY <1>6, <1>7

LEMMA WordEnds ==
  ASSUME text \in Texts, WellFormed, NEW p \in Exact, Peek(p) \in Letter \cup {"underscore"}
  PROVE  /\ IdentifierEnd(p) \in Exact /\ p.offset < IdentifierEnd(p).offset
         /\ LongestWord(p.offset, IdentifierEnd(p).offset)
<1> DEFINE b == p.offset
           Word == Letter \cup Digit \cup {"underscore"}
           stop == {q \in Place : Peek(q) \notin Letter \cup Digit \cup {"underscore"}}
           good == {q \in Exact : b <= q.offset /\ \A k \in b .. q.offset - 1 : Byte(k) \in Wordlike}
           r == IdentifierEnd(p)
<1>1. b \in Nat /\ End \in Nat
  BY ExactFacts
<1>2. ASSUME NEW q \in Exact, Peek(q) \in Word
      PROVE  /\ q \in Place /\ q.offset \in Nat /\ q.offset < End /\ Advance(q) \in Exact
             /\ Byte(q.offset) \in Wordlike /\ Byte(q.offset) # "tail"
             /\ \/ Advance(q).offset = q.offset + 1
                \/ Advance(q).offset = q.offset + 2 /\ Byte(q.offset + 1) \in Wordlike
             /\ Peek(q) # "1" => Byte(q.offset) # "1"
  <2>1. q \in Place /\ q.offset \in Nat /\ q.offset < End /\ Byte(q.offset) # "tail"
    <3>1. ~Eof(q)
      BY <1>2, PeekAtEnd DEF Letter, Digit
    <3>2. /\ q \in Place /\ q.offset \in Nat /\ q.offset <= End /\ End \in Nat
          /\ Eof(q) <=> q.offset = End
          /\ q.offset < End => Byte(q.offset) # "tail"
      BY ExactFacts
    <3> QED
      BY <3>1, <3>2
  <2>2. /\ Advance(q) \in Exact
        /\ \/ Byte(q.offset) # "lead" /\ Advance(q).offset = q.offset + 1 /\ Peek(q) = Byte(q.offset)
           \/ Byte(q.offset) = "lead" /\ Advance(q).offset = q.offset + 2 /\ Byte(q.offset + 1) = "tail"
    BY <2>1, AdvanceExact
  <2>3. Byte(q.offset) # "letter"
    BY <2>1, ByteFacts
  <2> QED
    BY <1>2, <2>1, <2>2, <2>3 DEF Wordlike, Letter, Digit
<1>3. ASSUME NEW q \in good, Peek(q) \in Word PROVE Advance(q) \in good
  <2>1. /\ q \in Exact /\ q.offset \in Nat /\ b <= q.offset /\ Advance(q) \in Exact
        /\ Byte(q.offset) \in Wordlike
        /\ \/ Advance(q).offset = q.offset + 1
           \/ Advance(q).offset = q.offset + 2 /\ Byte(q.offset + 1) \in Wordlike
    BY <1>2, <1>3
  <2>2. \A k \in b .. Advance(q).offset - 1 :
          k \in b .. q.offset - 1 \/ k = q.offset \/ (k = q.offset + 1 /\ Advance(q).offset = q.offset + 2)
    BY <1>1, <2>1
  <2>3. Advance(q).offset = q.offset + 2 => Byte(q.offset + 1) \in Wordlike
    BY <2>1
  <2> QED
    BY <1>1, <2>1, <2>2, <2>3
<1>4. p \in good
  BY <1>1
<1>5. r \in good \cap stop
  <2>1. \A q \in Place \ stop : ~Eof(q)
    BY PeekAtEnd DEF Digit, Letter
  <2>2. good \in SUBSET Place
    BY DEF Exact
  <2>3. r = Until(Place, stop, Characters, p)
    BY DEF IdentifierEnd
  <2>4. \A q \in good \ stop : Advance(q) \in good
    BY <1>3, <2>2
  <2> HIDE DEF stop, good, r
  <2> QED
    BY <1>4, <2>1, <2>2, <2>3, <2>4, CharacterLoop
<1> HIDE DEF r
<1>6. r \in Exact /\ b <= r.offset /\ Peek(r) \notin Word /\ \A k \in b .. r.offset - 1 : Byte(k) \in Wordlike
  BY <1>5
<1>7. b < r.offset
  <2>1. b \in Nat /\ r.offset \in Nat
    BY <1>6, ExactFacts
  <2>2. r.offset # b
    <3> SUFFICES ASSUME r.offset = b PROVE FALSE
      OBVIOUS
    <3>1. Peek(r) = Peek(p)
      BY DEF Peek
    <3> QED
      BY <1>6, <3>1
  <2> QED
    BY <1>6, <2>1, <2>2
<1>8. Byte(b) \notin Digit
  <2>1. Peek(p) \in Word /\ Peek(p) # "1"
    BY DEF Letter
  <2> QED
    BY <1>2, <2>1 DEF Digit
<1>9. Following(r.offset) \notin Wordlike
  <2>1. CASE r.offset < End
    <3>1. Byte(r.offset) # "tail" /\ (Byte(r.offset) = "lead" => Peek(r) = "letter") /\ (Byte(r.offset) # "lead" => Peek(r) = Byte(r.offset))
      BY <1>6, <2>1, ExactFacts, AdvanceExact
    <3> QED
      BY <1>6, <2>1, <3>1 DEF Following, Wordlike, Letter, Digit
  <2>2. CASE ~(r.offset < End)
    BY <2>2 DEF Following, Nothing, Wordlike
  <2> QED
    BY <2>1, <2>2
<1>10. Inside(b, r.offset) \subseteq Wordlike
  BY <1>6 DEF Inside
<1> QED
  BY <1>6, <1>7, <1>8, <1>9, <1>10 DEF LongestWord, r-----------------------------------------------------------------------------
(* Operators.  Their characters are bytes, so the walk goes over the bytes *)
(* from the place on: while it is on its way, and along any operator that  *)
(* stands there.                                                           *)
LEMMA TableFacts ==
  /\ \A o \in Operators \cup Keywords :
       /\ o \in Seq(STRING) /\ Len(o) \in Nat /\ DOMAIN o = 1 .. Len(o) /\ o # << >> /\ 0 < Len(o)
       /\ \A k \in 1 .. Len(o) : o[k] \notin {"lead", "tail", "letter", "nul"}
  /\ \A o \in Operators : o[1] # "blank"
  /\ \A w \in Keywords : w[1] \in {"i", "f", "n", "underscore"}
<1>1. ASSUME NEW o \in Operators \cup Keywords
      PROVE  /\ o \in Seq(STRING) /\ Len(o) \in Nat /\ DOMAIN o = 1 .. Len(o) /\ o # << >> /\ 0 < Len(o)
             /\ \A k \in 1 .. Len(o) : o[k] \notin {"lead", "tail", "letter", "nul"}
  <2>1. o \in Seq(STRING) /\ o # << >> /\ {o[k] : k \in DOMAIN o} \cap {"lead", "tail", "letter", "nul"} = {}
    BY TablesAssumption
  <2>2. Len(o) \in Nat /\ DOMAIN o = 1 .. Len(o)
    BY <2>1, LenProperties
  <2>3. Len(o) \in Nat \ {0}
    BY <2>1, EmptySeq
  <2>4. \A k \in DOMAIN o : o[k] \notin {"lead", "tail", "letter", "nul"}
    BY <2>1
  <2> QED
    BY <2>1, <2>2, <2>3, <2>4
<1> QED
  BY <1>1, TablesAssumption

(* Beginnings of a sequence, as functions.                                 *)
LEMMA PieceFacts ==
  ASSUME NEW s \in Seq(STRING), NEW a \in Nat, NEW n \in Nat, a + n <= Len(s)
  PROVE  SubSeq(s, a + 1, a + n) = [i \in 1 .. n |-> s[a + i]]
<1>1. Len(s) \in Nat /\ \A i \in 1 .. Len(s) : s[i] \in STRING
  BY LenProperties, ElementOfSeq
<1>2. \A i \in a + 1 .. a + n : s[i] \in STRING
  BY <1>1
<1>3. a + 1 \in Int /\ a + n \in Int
  OBVIOUS
<1> DEFINE t == SubSeq(s, a + 1, a + n)
<1>4. /\ t \in Seq(STRING)
      /\ Len(t) = IF a + 1 <= a + n THEN (a + n) - (a + 1) + 1 ELSE 0
      /\ \A i \in 1 .. (a + n) - (a + 1) + 1 : t[i] = s[(a + 1) + i - 1]
  BY <1>2, <1>3, SubSeqProperties
<1> HIDE DEF t
<1>5. Len(t) = n
  BY <1>4
<1>6. t = [i \in 1 .. n |-> t[i]]
  BY <1>4, <1>5, LenProperties
<1>7. \A i \in 1 .. n : t[i] = s[a + i]
  <2> TAKE i \in 1 .. n
  <2>1. i \in 1 .. (a + n) - (a + 1) + 1 /\ (a + 1) + i - 1 = a + i
    OBVIOUS
  <2> QED
    BY <1>4, <2>1
<1> QED
  BY <1>6, <1>7 DEF t

LEMMA AheadFacts ==
  ASSUME NEW p, NEW n \in Nat
  PROVE  /\ DOMAIN Ahead(p, n) = 1 .. n /\ Ahead(p, n) = [i \in 1 .. n |-> Ahead(p, n)[i]]
         /\ \A i \in 1 .. n : Ahead(p, n)[i] = PeekN(p, i - 1)
         /\ Len(Ahead(p, n)) = n
         /\ Ahead(p, n) = << >> <=> n = 0
<1>1. /\ DOMAIN Ahead(p, n) = 1 .. n /\ Ahead(p, n) = [i \in 1 .. n |-> Ahead(p, n)[i]]
      /\ \A i \in 1 .. n : Ahead(p, n)[i] = PeekN(p, i - 1)
  BY DEF Ahead
<1> DEFINE S == {Ahead(p, n)[i] : i \in 1 .. n}
<1>2. Ahead(p, n) \in [1 .. n -> S]
  BY <1>1
<1>3. Ahead(p, n) \in Seq(S)
  BY <1>2, SeqDef
<1>4. Len(Ahead(p, n)) \in Nat /\ DOMAIN Ahead(p, n) = 1 .. Len(Ahead(p, n))
  BY <1>3, LenProperties
<1>5. Len(Ahead(p, n)) = n
  <2> DEFINE L == Len(Ahead(p, n))
  <2>1. 1 .. L = 1 .. n /\ L \in Nat
    BY <1>1, <1>4
  <2> HIDE DEF L
  <2>2. L = 0 \/ L \in 1 .. L
    BY <2>1
  <2>3. n = 0 \/ n \in 1 .. n
    OBVIOUS
  <2>4. (L = 0 \/ L \in 1 .. n) /\ (n = 0 \/ n \in 1 .. L)
    BY <2>1, <2>2, <2>3
  <2>5. L = n
    BY <2>1, <2>4
  <2> QED
    BY <2>5 DEF L
<1>6. Ahead(p, n) = << >> <=> n = 0
  BY <1>3, <1>5, EmptySeq
<1> QED
  BY <1>1, <1>5, <1>6

LEMMA AlongBytes ==
  ASSUME text \in Texts, WellFormed, NEW p \in Exact, NEW n \in Nat,
         \A m \in 0 .. n - 1 : \/ PeekN(p, m) \notin {"nul", "letter", "lead"}
                               \/ p.offset + m < End /\ Byte(p.offset + m) \notin {"lead", "tail"}
  PROVE  /\ AdvanceN(p, n) \in Exact /\ AdvanceN(p, n).offset = p.offset + n /\ p.offset + n <= End
         /\ \A m \in 0 .. n - 1 : p.offset + m < End /\ PeekN(p, m) = Byte(p.offset + m)
<1> DEFINE At(m) == AdvanceN(p, m) \in Exact /\ AdvanceN(p, m).offset = p.offset + m
           Bad == {m \in 0 .. n : ~At(m)}
<1>1. p \in Place /\ p.offset \in Nat /\ p.offset <= End /\ End \in Nat
  BY ExactFacts
<1>2. ASSUME NEW m \in 0 .. n - 1, At(m)
      PROVE  At(m + 1) /\ p.offset + m < End /\ PeekN(p, m) = Byte(p.offset + m)
  <2> DEFINE q == AdvanceN(p, m)
  <2>1. m \in Nat /\ AdvanceN(p, m + 1) = Advance(q)
    <3>1. m \in Nat
      OBVIOUS
    <3> QED
      BY <1>1, <3>1, AdvanceNFacts
  <2>2. PeekN(p, m) = Peek(q)
    BY DEF PeekN
  <2>3. q \in Exact /\ q.offset = p.offset + m
    BY <1>2
  <2> HIDE DEF q
  <2>4. q.offset <= End /\ (Eof(q) <=> q.offset = End)
    BY <2>3, ExactFacts
  <2>5. q.offset < End
    <3>1. CASE PeekN(p, m) \notin {"nul", "letter", "lead"}
      <4>1. ~Eof(q)
        BY <2>2, <3>1, PeekAtEnd
      <4> QED
        BY <1>1, <2>1, <2>3, <2>4, <4>1
    <3>2. CASE p.offset + m < End
      BY <2>3, <3>2
    <3> QED
      BY <3>1, <3>2
  <2>6. /\ Advance(q) \in Exact
        /\ \/ /\ Byte(q.offset) # "lead" /\ Advance(q).offset = q.offset + 1 /\ Peek(q) = Byte(q.offset)
           \/ /\ Byte(q.offset) = "lead" /\ Peek(q) = "letter"
    BY <2>3, <2>5, AdvanceExact
  <2>7. Byte(q.offset) # "lead"
    BY <2>2, <2>3, <2>6
  <2> QED
    BY <1>1, <2>1, <2>2, <2>3, <2>5, <2>6, <2>7
<1>3. AdvanceN(p, 0) \in Exact /\ AdvanceN(p, 0).offset = p.offset + 0
  BY <1>1, AdvanceNFacts
<1>4. Bad = {}
  <2> HIDE DEF At
  <2> SUFFICES ASSUME Bad # {} PROVE FALSE
    OBVIOUS
  <2>1. Bad \in SUBSET Nat
    OBVIOUS
  <2>2. PICK m \in Bad : \A k \in Bad : m <= k
    BY <2>1, LeastExists
  <2>3. m # 0 /\ m \in 0 .. n
    BY <1>3, <2>2 DEF At
  <2>4. m - 1 \in 0 .. n - 1 /\ m - 1 \notin Bad /\ (m - 1) + 1 = m /\ m - 1 \in 0 .. n
    BY <2>2, <2>3
  <2>5. At(m - 1)
    BY <2>4
  <2> QED
    BY <1>2, <2>2, <2>4, <2>5
<1> HIDE DEF At
<1>5. n \in 0 .. n /\ \A m \in 0 .. n - 1 : m \in 0 .. n
  OBVIOUS
<1>6. At(n) /\ \A m \in 0 .. n - 1 : At(m)
  BY <1>4, <1>5
<1>7. \A m \in 0 .. n - 1 : p.offset + m < End /\ PeekN(p, m) = Byte(p.offset + m)
  BY <1>2, <1>6
<1>8. AdvanceN(p, n) \in Exact /\ AdvanceN(p, n).offset = p.offset + n
  BY <1>6 DEF At
<1>9. p.offset + n <= End
  BY <1>8, ExactFacts
<1> QED
  BY <1>7, <1>8, <1>9

(* An operator that stands at a place is what lies ahead.                  *)
LEMMA FitsAhead ==
  ASSUME text \in Texts, WellFormed, NEW p \in Exact, NEW o \in Operators, Fits(o, p.offset)
  PROVE  /\ \A m \in 0 .. Len(o) : Begins(Ahead(p, m)) /\ (m < Len(o) => PeekN(p, m) # "nul")
         /\ Ahead(p, Len(o)) = o
<1> DEFINE b == p.offset
           L == Len(o)
<1>1. /\ o \in Seq(STRING) /\ L \in Nat /\ DOMAIN o = 1 .. L
      /\ \A k \in 1 .. L : o[k] \notin {"lead", "tail", "letter", "nul"}
  BY TableFacts
<1>2. b \in Nat /\ End \in Nat /\ End = Len(text) /\ text \in Seq(STRING) /\ b + L <= End /\ SubSeq(text, b + 1, b + L) = o
  BY ExactFacts, TextFacts DEF Fits, End
<1>3. o = [i \in 1 .. L |-> text[b + i]]
  BY <1>1, <1>2, PieceFacts
<1>4. \A i \in 1 .. L : o[i] = text[b + i]
  BY <1>3
<1> HIDE DEF L
<1>5. ASSUME NEW m \in 0 .. L - 1
      PROVE  b + m < End /\ Byte(b + m) = o[m + 1] /\ Byte(b + m) \notin {"lead", "tail", "letter", "nul"}
  <2>1. m + 1 \in 1 .. L /\ b + (m + 1) = (b + m) + 1 /\ b + m < End
    BY <1>1, <1>2
  <2>2. o[m + 1] = text[(b + m) + 1] /\ o[m + 1] \notin {"lead", "tail", "letter", "nul"}
    BY <1>1, <1>4, <2>1
  <2> QED
    BY <2>1, <2>2 DEF Byte
<1>6. \A m \in 0 .. L - 1 : PeekN(p, m) = Byte(b + m)
  BY <1>1, <1>5, AlongBytes
<1>7. ASSUME NEW m \in 0 .. L PROVE Ahead(p, m) = SubSeq(o, 1, m)
  <2>1. m \in Nat /\ m <= L /\ 0 + m <= Len(o)
    BY <1>1 DEF L
  <2>2. SubSeq(o, 0 + 1, 0 + m) = [i \in 1 .. m |-> o[0 + i]]
    BY <1>1, <2>1, PieceFacts
  <2>3. 0 + 1 = 1 /\ 0 + m = m /\ \A i \in 1 .. m : 0 + i = i
    BY <2>1
  <2>4. SubSeq(o, 1, m) = [i \in 1 .. m |-> o[i]]
    BY <2>2, <2>3
  <2>5. \A i \in 1 .. m : PeekN(p, i - 1) = o[i]
    <3> TAKE i \in 1 .. m
    <3>1. i - 1 \in 0 .. L - 1 /\ (i - 1) + 1 = i
      BY <1>1, <2>1
    <3> QED
      BY <1>5, <1>6, <3>1
  <2> QED
    BY <2>4, <2>5 DEF Ahead
<1>8. ASSUME NEW m \in 0 .. L PROVE Begins(Ahead(p, m))
  <2>1. m \in Nat /\ m <= L
    BY <1>1
  <2>2. Len(Ahead(p, m)) = m
    BY <2>1, AheadFacts
  <2> QED
    BY <1>7, <2>1, <2>2 DEF Begins, L
<1>9. ASSUME NEW m \in 0 .. L, m < L PROVE PeekN(p, m) # "nul"
  <2>1. m \in 0 .. L - 1
    BY <1>1, <1>9
  <2> QED
    BY <1>5, <1>6, <2>1
<1>10. Ahead(p, L) = o
  <2>1. L \in 0 .. L
    BY <1>1
  <2>2. SubSeq(o, 1, L) = o
    BY <1>1, SubSeqFull DEF L
  <2> QED
    BY <1>7, <2>1, <2>2
<1> QED
  BY <1>8, <1>9, <1>10 DEF L

LEMMA OperatorEnds ==
  ASSUME text \in Texts, WellFormed, NEW p \in Exact, Peek(p) \notin Letter \cup {"underscore"}
  PROVE  LET o == FindOperator(p)
         IN  /\ o = << >> => ~\E x \in Operators : Fits(x, p.offset)
             /\ o # << >> => /\ Len(o) \in Nat /\ AdvanceN(p, Len(o)) \in Exact
                             /\ p.offset < AdvanceN(p, Len(o)).offset
                             /\ LongestOperator(p.offset, AdvanceN(p, Len(o)).offset)
<1> DEFINE b == p.offset
<1>1. p \in Place /\ b \in Nat /\ End \in Nat /\ End = Len(text) /\ text \in Seq(STRING)
  BY ExactFacts, TextFacts DEF End
<1>2. PICK w \in Walk :
        /\ FindOperator(p) = Ahead(p, w.best)
        /\ Walked(p, w)
        /\ PeekN(p, w.depth) = "nul" \/ ~Begins(Ahead(p, w.depth + 1))
  BY <1>1, FindWalks
<1> DEFINE d == w.depth
           n == w.best
<1>3. /\ d \in Nat /\ n \in Nat /\ n <= d
      /\ n # 0 => Ahead(p, n) \in Operators \cup Keywords
      /\ \A m \in 1 .. d : Begins(Ahead(p, m))
      /\ \A m \in n + 1 .. d : Ahead(p, m) \notin Operators \cup Keywords
  BY <1>2 DEF Walk, Walked
<1>4. PeekN(p, d) = "nul" \/ ~Begins(Ahead(p, d + 1))
  BY <1>2
<1>5. FindOperator(p) = Ahead(p, n) /\ Len(Ahead(p, n)) = n /\ (Ahead(p, n) = << >> <=> n = 0)
  BY <1>2, <1>3, AheadFacts
<1> HIDE DEF d, n
<1>6. ASSUME NEW x \in Operators, Fits(x, b) PROVE Len(x) <= n /\ 0 < Len(x) /\ Len(x) \in Nat
  <2>1. Len(x) \in Nat /\ 0 < Len(x)
    BY TableFacts
  <2>2. /\ \A m \in 0 .. Len(x) : Begins(Ahead(p, m)) /\ (m < Len(x) => PeekN(p, m) # "nul")
        /\ Ahead(p, Len(x)) = x
    BY <1>6, FitsAhead
  <2>3. Len(x) <= d
    <3> SUFFICES ASSUME d < Len(x) PROVE FALSE
      BY <1>3, <2>1
    <3>1. d \in 0 .. Len(x) /\ d + 1 \in 0 .. Len(x)
      BY <1>3, <2>1
    <3> QED
      BY <1>4, <2>2, <3>1
  <2>4. Len(x) \notin n + 1 .. d
    BY <1>3, <2>2
  <2> QED
    BY <1>3, <2>1, <2>3, <2>4
<1>7. ASSUME n = 0 PROVE ~\E x \in Operators : Fits(x, b)
  BY <1>6, <1>7
<1>8. ASSUME n # 0
      PROVE  /\ AdvanceN(p, n) \in Exact /\ AdvanceN(p, n).offset = b + n /\ b < b + n
             /\ LongestOperator(b, b + n)
  <2>1. \A m \in 0 .. n - 1 : PeekN(p, m) \notin {"nul", "letter", "lead", "tail"}
    <3> TAKE m \in 0 .. n - 1
    <3>1. m + 1 \in 1 .. d /\ m + 1 \in Nat /\ (m + 1) - 1 = m /\ m + 1 \in 1 .. m + 1
      BY <1>3
    <3>2. PICK o \in Operators \cup Keywords :
            Len(Ahead(p, m + 1)) <= Len(o) /\ SubSeq(o, 1, Len(Ahead(p, m + 1))) = Ahead(p, m + 1)
      BY <1>3, <3>1 DEF Begins
    <3>3. Len(Ahead(p, m + 1)) = m + 1 /\ Ahead(p, m + 1)[m + 1] = PeekN(p, m)
      BY <3>1, AheadFacts
    <3>4. /\ o \in Seq(STRING) /\ Len(o) \in Nat
          /\ \A k \in 1 .. Len(o) : o[k] \notin {"lead", "tail", "letter", "nul"}
      BY TableFacts
    <3>5. SubSeq(o, 0 + 1, 0 + (m + 1)) = [i \in 1 .. m + 1 |-> o[0 + i]]
      <4>1. 0 + (m + 1) <= Len(o)
        BY <3>1, <3>2, <3>3
      <4> QED
        BY <3>1, <3>4, <4>1, PieceFacts
    <3>6. 0 + 1 = 1 /\ 0 + (m + 1) = m + 1
      BY <3>1
    <3>7. PeekN(p, m) = o[m + 1]
      BY <3>1, <3>2, <3>3, <3>5, <3>6
    <3>8. m + 1 \in 1 .. Len(o)
      BY <3>1, <3>2, <3>3, <3>4
    <3> QED
      BY <3>4, <3>7, <3>8
  <2>2. /\ AdvanceN(p, n) \in Exact /\ AdvanceN(p, n).offset = b + n /\ b + n <= End
        /\ \A m \in 0 .. n - 1 : b + m < End /\ PeekN(p, m) = Byte(b + m)
    BY <1>3, <2>1, AlongBytes
  <2>3. SubSeq(text, b + 1, b + n) = Ahead(p, n)
    <3>1. SubSeq(text, b + 1, b + n) = [i \in 1 .. n |-> text[b + i]]
      BY <1>1, <1>3, <2>2, PieceFacts
    <3>2. \A i \in 1 .. n : PeekN(p, i - 1) = text[b + i]
      <4> TAKE i \in 1 .. n
      <4>1. i - 1 \in 0 .. n - 1 /\ (b + (i - 1)) + 1 = b + i
        BY <1>1, <1>3
      <4>2. PeekN(p, i - 1) = Byte(b + (i - 1))
        BY <2>2, <4>1
      <4> QED
        BY <4>1, <4>2 DEF Byte
    <3> QED
      BY <3>1, <3>2 DEF Ahead
  <2>4. Ahead(p, n) \in Operators
    <3> SUFFICES ASSUME Ahead(p, n) \in Keywords PROVE FALSE
      BY <1>3, <1>8
    <3>1. 1 \in 1 .. n /\ 1 - 1 = 0
      BY <1>3, <1>8
    <3>2. Ahead(p, n)[1] = PeekN(p, 0)
      BY <1>3, <3>1, AheadFacts
    <3>3. PeekN(p, 0) = Peek(p)
      BY <1>1, AdvanceTwice
    <3>4. Ahead(p, n)[1] \in {"i", "f", "n", "underscore"}
      BY TableFacts
    <3> QED
      BY <3>2, <3>3, <3>4 DEF Letter
  <2>5. ~\E x \in Operators : Fits(x, b) /\ Len(x) > (b + n) - b
    <3> SUFFICES ASSUME NEW x \in Operators, Fits(x, b), Len(x) > (b + n) - b PROVE FALSE
      OBVIOUS
    <3>1. Len(x) <= n /\ Len(x) \in Nat
      BY <1>6
    <3> QED
      BY <1>1, <1>3, <3>1
  <2>6. LongestOperator(b, b + n)
    BY <2>3, <2>4, <2>5 DEF LongestOperator
  <2>7. b < b + n
    BY <1>1, <1>3, <1>8
  <2> QED
    BY <2>2, <2>6, <2>7
<1> QED
  BY <1>3, <1>5, <1>7, <1>8-----------------------------------------------------------------------------
(* The invariant: in any text, where the places are; in a well-formed one  *)
(* they are exact, what has been passed over is nothing and what has been  *)
(* taken is as long as it can be.                                          *)
Kinds == {"string", "number", "identifier", "keyword", "newline", "operator"}
Token == [kind : Kinds, begin : Reached, end : Reached]

Placed == text \in Texts /\ position \in Reached /\ tokens \in Seq(Token)
Sound ==
  WellFormed =>
    /\ position \in Exact
    /\ \A i \in DOMAIN tokens : tokens[i].begin \in Exact /\ tokens[i].end \in Exact
    /\ \A i \in DOMAIN tokens : Void(Reach(i - 1), From(tokens[i]))
    /\ Void(Reach(Len(tokens)), position.offset)
    /\ \A i \in DOMAIN tokens : Longest(tokens[i].kind, tokens[i].begin.offset, tokens[i].end.offset)
Lexed == Placed /\ Sound

(* All of it is said of the text alone, which stays.                       *)
LEMMA SameText ==
  ASSUME text' = text
  PROVE  /\ WellFormed' = WellFormed /\ Exact' = Exact /\ Reached' = Reached
         /\ \A b, e : Void(b, e)' = Void(b, e)
         /\ \A k, b, e : Longest(k, b, e)' = Longest(k, b, e)
<1>1. End' = End /\ \A k : Byte(k)' = Byte(k)
  BY DEF End, Byte
<1>2. WellFormed' = WellFormed
  BY DEF WellFormed
<1>3. \A b, k : Backslashes(b, k)' = Backslashes(b, k)
  BY <1>1 DEF Backslashes
<1>4. \A b : Closing(b)' = Closing(b)
  BY <1>1, <1>3 DEF Closing
<1>5. \A b : CommentEnd(b)' = CommentEnd(b) /\ IsComment(b)' = IsComment(b)
  BY <1>1 DEF CommentEnd, IsComment
<1>6. \A o, b : Fits(o, b)' = Fits(o, b)
  BY <1>1 DEF Fits
<1>7. \A c, d : Vacant(c, d)' = Vacant(c, d)
  BY <1>1, <1>4, <1>5, <1>6 DEF Vacant
<1>8. \A b, e : Void(b, e)' = Void(b, e)
  BY <1>7 DEF Void
<1>9. \A b, e : Inside(b, e)' = Inside(b, e) /\ Following(e)' = Following(e)
  BY <1>1 DEF Inside, Following
<1>10. \A b, e : LongestNumber(b, e)' = LongestNumber(b, e) /\ LongestWord(b, e)' = LongestWord(b, e)
  BY <1>1, <1>9 DEF LongestNumber, LongestWord
<1>11. \A b, e : LongestOperator(b, e)' = LongestOperator(b, e)
  BY <1>6 DEF LongestOperator
<1>12. \A k, b, e : Longest(k, b, e)' = Longest(k, b, e)
  BY <1>1, <1>4, <1>10, <1>11 DEF Longest
<1>13. \A k : Ended(k)' = Ended(k) /\ OnLine(k)' = OnLine(k)
  BY <1>1 DEF Ended, OnLine
<1>14. \A p : Counted(p)' = Counted(p)
  BY <1>13 DEF Counted
<1>15. Exact' = Exact
  BY <1>1, <1>14 DEF Exact
<1>16. Beyond' = Beyond
  BY <1>1 DEF Beyond
<1>17. Reached' = Reached
  BY <1>1, <1>16 DEF Reached
<1> QED
  BY <1>2, <1>8, <1>12, <1>15, <1>17

LEMMA ReachFacts ==
  ASSUME Lexed, WellFormed
  PROVE  Reach(Len(tokens)) \in Nat
<1>1. tokens \in Seq(Token) /\ \A i \in DOMAIN tokens : tokens[i].end \in Exact
  BY DEF Lexed, Placed, Sound
<1>2. Len(tokens) \in Nat /\ DOMAIN tokens = 1 .. Len(tokens)
  BY <1>1, LenProperties
<1>3. CASE Len(tokens) = 0
  BY <1>3 DEF Reach
<1>4. CASE Len(tokens) # 0
  <2>1. tokens[Len(tokens)].end.offset \in Nat
    BY <1>1, <1>2, <1>4 DEF Exact, Place
  <2> QED
    BY <1>4, <2>1 DEF Reach, To
<1> QED
  BY <1>3, <1>4

(* A round that leaves no token.                                           *)
LEMMA QuietRound ==
  ASSUME Lexed, text' = text, tokens' = tokens, NEW r \in Reached, position' = r,
         WellFormed => r \in Exact /\ Void(Reach(Len(tokens)), r.offset)
  PROVE  Lexed'
<1>1. Placed'
  <2>1. text \in Texts /\ tokens \in Seq(Token)
    BY DEF Lexed, Placed
  <2>2. Reached' = Reached
    BY SameText
  <2>3. Token' = Token
    BY <2>2 DEF Token
  <2> QED
    BY <2>1, <2>2, <2>3 DEF Placed
<1>2. ASSUME WellFormed
      PROVE  /\ position' \in Exact'
             /\ \A i \in DOMAIN tokens' : tokens'[i].begin \in Exact' /\ tokens'[i].end \in Exact'
             /\ \A i \in DOMAIN tokens' : Void(Reach(i - 1), From(tokens[i]))'
             /\ Void(Reach(Len(tokens)), position.offset)'
             /\ \A i \in DOMAIN tokens' : Longest(tokens[i].kind, tokens[i].begin.offset, tokens[i].end.offset)'
  <2>1. \A i : Reach(i)' = Reach(i)
    BY DEF Reach, To
  <2>2. \A i : From(tokens[i])' = From(tokens[i])
    BY DEF From
  <2> QED
    BY <1>2, <2>1, <2>2, SameText DEF Lexed, Sound
<1> QED
  BY <1>1, <1>2, SameText DEF Lexed, Sound

(* A round that leaves one: it begins where nothing was left out and ends  *)
(* where the next round begins.                                            *)
LEMMA TokenRound ==
  ASSUME Lexed, text' = text, NEW t \in Token, tokens' = Append(tokens, t), NEW r \in Reached, position' = r,
         WellFormed => /\ r \in Exact /\ t.begin \in Exact /\ t.end \in Exact
                       /\ Void(Reach(Len(tokens)), From(t)) /\ To(t) = r.offset
                       /\ Longest(t.kind, t.begin.offset, t.end.offset)
  PROVE  Lexed'
<1>1. text \in Texts /\ tokens \in Seq(Token)
  BY DEF Lexed, Placed
<1>2. PICK n \in Nat : n = Len(tokens) /\ DOMAIN tokens = 1 .. n
  <2>1. Len(tokens) \in Nat /\ DOMAIN tokens = 1 .. Len(tokens)
    BY <1>1, LenProperties
  <2> QED
    BY <2>1
<1>3. /\ tokens' \in Seq(Token) /\ Len(tokens') = n + 1 /\ DOMAIN tokens' = 1 .. n + 1
      /\ \A i \in 1 .. n : tokens'[i] = tokens[i]
      /\ tokens'[n + 1] = t
  <2>1. /\ Append(tokens, t) \in Seq(Token) /\ Len(Append(tokens, t)) = n + 1
        /\ \A i \in 1 .. n + 1 : Append(tokens, t)[i] = IF i <= n THEN tokens[i] ELSE t
    BY <1>1, <1>2, AppendProperties
  <2>2. DOMAIN Append(tokens, t) = 1 .. n + 1
    BY <2>1, LenProperties
  <2>3. \A i \in 1 .. n : i \in 1 .. n + 1 /\ i <= n
    BY <1>2
  <2>4. n + 1 \in 1 .. n + 1 /\ ~(n + 1 <= n)
    BY <1>2
  <2> QED
    BY <2>1, <2>2, <2>3, <2>4
<1>4. Placed'
  <2>1. Reached' = Reached
    BY SameText
  <2>2. Token' = Token
    BY <2>1 DEF Token
  <2> QED
    BY <1>1, <1>3, <2>1, <2>2 DEF Placed
<1>5. ASSUME WellFormed
      PROVE  /\ position' \in Exact'
             /\ \A i \in DOMAIN tokens' : tokens'[i].begin \in Exact' /\ tokens'[i].end \in Exact'
             /\ \A i \in DOMAIN tokens' : Void(Reach(i - 1), From(tokens[i]))'
             /\ Void(Reach(Len(tokens)), position.offset)'
             /\ \A i \in DOMAIN tokens' : Longest(tokens[i].kind, tokens[i].begin.offset, tokens[i].end.offset)'
  <2>1. /\ Exact' = Exact /\ \A b, e : Void(b, e)' = Void(b, e)
        /\ \A k, b, e : Longest(k, b, e)' = Longest(k, b, e)
    BY SameText
  <2>2. /\ r \in Exact /\ t.begin \in Exact /\ t.end \in Exact
        /\ Void(Reach(n), From(t)) /\ To(t) = r.offset
        /\ Longest(t.kind, t.begin.offset, t.end.offset)
    BY <1>2, <1>5
  <2>3. /\ \A i \in 1 .. n : tokens[i].begin \in Exact /\ tokens[i].end \in Exact
        /\ \A i \in 1 .. n : Void(Reach(i - 1), From(tokens[i]))
        /\ \A i \in 1 .. n : Longest(tokens[i].kind, tokens[i].begin.offset, tokens[i].end.offset)
    BY <1>2, <1>5 DEF Lexed, Sound
  <2>4. \A i \in 0 .. n : Reach(i)' = Reach(i)
    <3>1. ASSUME NEW i \in 0 .. n, i # 0 PROVE Reach(i)' = Reach(i)
      <4>1. i \in 1 .. n
        BY <3>1
      <4>2. tokens'[i] = tokens[i]
        BY <1>3, <4>1
      <4> QED
        BY <3>1, <4>2 DEF Reach, To
    <3>2. Reach(0)' = Reach(0)
      BY DEF Reach
    <3> QED
      BY <3>1, <3>2
  <2>5. Reach(n + 1)' = r.offset
    <3>1. n + 1 # 0
      BY <1>2
    <3> QED
      BY <1>3, <2>2, <3>1 DEF Reach, To
  <2>6. \A i \in DOMAIN tokens' : i \in 1 .. n \/ i = n + 1
    BY <1>2, <1>3
  <2>7. \A i \in 1 .. n : From(tokens[i])' = From(tokens[i])
    BY <1>3 DEF From
  <2>8. From(tokens[n + 1])' = From(t)
    BY <1>3 DEF From
  <2>9. ASSUME NEW i \in DOMAIN tokens' PROVE Void(Reach(i - 1), From(tokens[i]))'
    <3>1. CASE i \in 1 .. n
      <4>1. i - 1 \in 0 .. n
        BY <1>2, <3>1
      <4>2. Reach(i - 1)' = Reach(i - 1)
        BY <2>4, <4>1
      <4> QED
        BY <2>1, <2>3, <2>7, <3>1, <4>2
    <3>2. CASE i = n + 1
      <4>1. i - 1 = n /\ n \in 0 .. n
        BY <1>2, <3>2
      <4>2. Reach(i - 1)' = Reach(n)
        BY <2>4, <4>1
      <4> QED
        BY <2>1, <2>2, <2>8, <3>2, <4>2
    <3> QED
      BY <2>6, <3>1, <3>2
  <2>10. Void(Reach(Len(tokens)), position.offset)'
    <3>1. r.offset \in Nat
      BY DEF Reached, Place
    <3>2. Void(r.offset, r.offset)
      BY <3>1, VoidFacts
    <3>3. Reach(Len(tokens))' = r.offset
      BY <1>3, <2>5
    <3> QED
      BY <2>1, <3>2, <3>3
  <2>11. ASSUME NEW i \in DOMAIN tokens'
         PROVE  /\ tokens'[i].begin \in Exact /\ tokens'[i].end \in Exact
                /\ Longest(tokens[i].kind, tokens[i].begin.offset, tokens[i].end.offset)'
    <3>1. CASE i \in 1 .. n
      BY <1>3, <2>1, <2>3, <3>1
    <3>2. CASE i = n + 1
      BY <1>3, <2>1, <2>2, <3>2
    <3> QED
      BY <2>6, <3>1, <3>2
  <2> QED
    BY <2>1, <2>2, <2>9, <2>10, <2>11
<1> QED
  BY <1>4, <1>5, SameText DEF Lexed, Sound-----------------------------------------------------------------------------
(* One step for each action.  They begin after the comments.               *)
LEMMA Started ==
  ASSUME Lexed
  PROVE  /\ text \in Texts /\ position \in Reached /\ Kept(Reached) /\ Start \in Reached /\ Start \in Place
         /\ WellFormed => /\ position \in Exact /\ Start \in Exact /\ Start.offset \in Nat /\ End \in Nat
                          /\ Start.offset <= End /\ (Eof(Start) <=> Start.offset = End)
                          /\ Void(Reach(Len(tokens)), Start.offset)
                          /\ ~IsComment(Start.offset)
                          /\ Reach(Len(tokens)) \in Nat
<1>1. text \in Texts /\ position \in Reached
  BY DEF Lexed, Placed
<1>2. Kept(Reached)
  BY <1>1, ReachedKept
<1>3. Start \in Reached /\ Start \in Place
  BY <1>1, <1>2, CommentsKept DEF Start, Kept
<1>4. ASSUME WellFormed
      PROVE  /\ position \in Exact /\ Start \in Exact /\ Start.offset \in Nat /\ End \in Nat
             /\ Start.offset <= End /\ (Eof(Start) <=> Start.offset = End)
             /\ Void(Reach(Len(tokens)), Start.offset)
             /\ ~IsComment(Start.offset)
             /\ Reach(Len(tokens)) \in Nat
  <2>1. position \in Exact /\ Void(Reach(Len(tokens)), position.offset) /\ Reach(Len(tokens)) \in Nat
    BY <1>4, ReachFacts DEF Lexed, Sound
  <2>2. Start \in Exact /\ Void(Reach(Len(tokens)), Start.offset) /\ ~IsComment(Start.offset)
    BY <1>1, <1>4, <2>1, CommentsEnd DEF Start
  <2>3. Start.offset \in Nat /\ End \in Nat /\ Start.offset <= End /\ (Eof(Start) <=> Start.offset = End)
    BY <1>1, <1>4, <2>2, ExactFacts
  <2> QED
    BY <2>1, <2>2, <2>3
<1> QED
  BY <1>1, <1>2, <1>3, <1>4

LEMMA SkipSpaceStep ==
  ASSUME Lexed, SkipSpace
  PROVE  Lexed'
<1> DEFINE r == Advance(position)
<1>1. text' = text /\ tokens' = tokens /\ position' = r /\ Peek(position) = "blank"
  BY DEF SkipSpace, Blank, Space
<1>2. r \in Reached
  BY Started DEF Kept
<1>3. ASSUME WellFormed PROVE r \in Exact /\ Void(Reach(Len(tokens)), r.offset)
  <2> DEFINE b == position.offset
  <2>1. text \in Texts /\ position \in Exact /\ Void(Reach(Len(tokens)), b) /\ Reach(Len(tokens)) \in Nat
    BY <1>3, Started DEF Lexed, Sound
  <2>2. b \in Nat /\ r \in Exact
    BY <1>3, <2>1, ExactFacts
  <2>3. b < End /\ Byte(b) = "blank" /\ r.offset = b + 1
    BY <1>1, <1>3, <2>1, PeekFacts
  <2>4. ~IsComment(b) /\ Byte(b) \notin Quote \cup Wordlike \cup {"nl"}
    BY <2>3 DEF IsComment, Quote, Wordlike
  <2>5. ~\E o \in Operators : Fits(o, b)
    <3> SUFFICES ASSUME NEW o \in Operators, Fits(o, b) PROVE FALSE
      OBVIOUS
    <3>1. Ahead(position, Len(o)) = o
      BY <1>3, <2>1, FitsAhead
    <3>2. Len(o) \in Nat /\ 1 \in 1 .. Len(o) /\ o[1] # "blank" /\ 1 - 1 = 0
      BY TableFacts
    <3>3. o[1] = PeekN(position, 0)
      BY <3>1, <3>2, AheadFacts
    <3>4. PeekN(position, 0) = Peek(position)
      BY <2>1, AdvanceTwice DEF Exact
    <3> QED
      BY <1>1, <3>2, <3>3, <3>4
  <2>6. Vacant(b, r.offset)
    BY <2>3, <2>4, <2>5 DEF Vacant
  <2>7. b < r.offset /\ r.offset \in Nat
    BY <2>2, <2>3
  <2> QED
    BY <2>1, <2>2, <2>6, <2>7, VoidFacts
<1> HIDE DEF r
<1> QED
  BY <1>1, <1>2, <1>3, QuietRound

(* Both ways a string can end.                                             *)
LEMMA StringFacts ==
  ASSUME Lexed, Peek(Start) \in Quote
  PROVE  LET begin == Advance(Start)
             end == StringEnd(begin, Peek(Start))
         IN  /\ begin \in Reached /\ end \in Reached /\ Advance(end) \in Reached
             /\ WellFormed =>
                  /\ begin \in Exact /\ end \in Exact /\ Advance(end) \in Exact
                  /\ begin.offset = Start.offset + 1 /\ Start.offset < end.offset /\ end.offset \in Nat
                  /\ Byte(Start.offset) \in Quote /\ Closing(Start.offset) = end.offset
                  /\ Eof(end) <=> end.offset = End
                  /\ ~Eof(end) => Advance(end).offset = end.offset + 1
<1> DEFINE begin == Advance(Start)
           end == StringEnd(begin, Peek(Start))
<1>1. begin \in Reached /\ end \in Reached /\ Advance(end) \in Reached
  <2>1. text \in Texts /\ Kept(Reached) /\ begin \in Reached
    BY Started DEF Kept
  <2>2. end \in Reached
    BY <2>1, StringKept
  <2> QED
    BY <2>1, <2>2 DEF Kept
<1>2. ASSUME WellFormed
      PROVE  /\ begin \in Exact /\ end \in Exact /\ Advance(end) \in Exact
             /\ begin.offset = Start.offset + 1 /\ Start.offset < end.offset /\ end.offset \in Nat
             /\ Byte(Start.offset) \in Quote /\ Closing(Start.offset) = end.offset
             /\ Eof(end) <=> end.offset = End
             /\ ~Eof(end) => Advance(end).offset = end.offset + 1
  <2> DEFINE b == Start.offset
  <2>1. text \in Texts /\ Start \in Exact /\ b \in Nat /\ End \in Nat
    BY <1>2, Started
  <2>2. Peek(Start) \notin {"nul", "letter", "lead"}
    BY DEF Quote
  <2>3. b < End /\ Byte(b) = Peek(Start) /\ begin.offset = b + 1
    BY <1>2, <2>1, <2>2, PeekFacts
  <2>4. begin \in Exact /\ Byte(b) \in Quote
    BY <1>2, <2>1, <2>3, ExactFacts
  <2>5. /\ StringEnd(begin, Byte(b)) \in Exact
        /\ StringEnd(begin, Byte(b)).offset = Closing(b)
        /\ Eof(StringEnd(begin, Byte(b))) \/ Byte(StringEnd(begin, Byte(b)).offset) = Byte(b)
        /\ b < StringEnd(begin, Byte(b)).offset
    BY <1>2, <2>1, <2>3, <2>4, StringEnds
  <2>6. end \in Exact /\ end.offset = Closing(b) /\ (Eof(end) \/ Byte(end.offset) = Peek(Start)) /\ b < end.offset
    BY <2>3, <2>5
  <2> HIDE DEF end, begin
  <2>7. end.offset \in Nat /\ end.offset <= End /\ (Eof(end) <=> end.offset = End) /\ Advance(end) \in Exact
    BY <1>2, <2>1, <2>6, ExactFacts
  <2>8. ~Eof(end) => Advance(end).offset = end.offset + 1
    <3> SUFFICES ASSUME ~Eof(end) PROVE Advance(end).offset = end.offset + 1
      OBVIOUS
    <3>1. end.offset < End
      BY <2>1, <2>7
    <3>2. Peek(end) = Peek(Start)
      BY <1>2, <2>1, <2>2, <2>6, <3>1, PeekFacts
    <3> QED
      BY <1>2, <2>1, <2>2, <2>6, <3>2, PeekFacts
  <2> QED
    BY <2>3, <2>4, <2>6, <2>7, <2>8
<1> QED
  BY <1>1, <1>2

LEMMA MatchStringStep ==
  ASSUME Lexed, MatchString
  PROVE  Lexed'
<1> DEFINE begin == Advance(Start)
           end == StringEnd(begin, Peek(Start))
           r == Advance(end)
           t == [kind |-> "string", begin |-> begin, end |-> end]
<1>1. /\ text' = text /\ tokens' = Append(tokens, t) /\ position' = r
      /\ Peek(Start) \in Quote /\ ~Eof(end)
  BY DEF MatchString, Matching, Emit
<1>2. /\ begin \in Reached /\ end \in Reached /\ r \in Reached
      /\ WellFormed =>
           /\ begin \in Exact /\ end \in Exact /\ r \in Exact
           /\ begin.offset = Start.offset + 1
           /\ Closing(Start.offset) = end.offset
           /\ r.offset = end.offset + 1
  BY <1>1, StringFacts
<1> HIDE DEF begin, end, r
<1>3. t \in Token
  BY <1>2 DEF Token, Kinds
<1>4. t.kind = "string" /\ t.begin = begin /\ t.end = end
  OBVIOUS
<1> HIDE DEF t
<1>5. ASSUME WellFormed
      PROVE  /\ r \in Exact /\ t.begin \in Exact /\ t.end \in Exact
             /\ Void(Reach(Len(tokens)), From(t)) /\ To(t) = r.offset
             /\ Longest(t.kind, t.begin.offset, t.end.offset)
  <2>1. Void(Reach(Len(tokens)), Start.offset) /\ Start.offset \in Nat
    BY <1>5, Started
  <2>2. begin.offset - 1 = Start.offset
    BY <1>2, <1>5, <2>1
  <2>3. From(t) = Start.offset /\ To(t) = end.offset + 1
    BY <1>4, <2>2 DEF From, To
  <2>4. Longest(t.kind, t.begin.offset, t.end.offset)
    BY <1>2, <1>4, <1>5, <2>2 DEF Longest
  <2> QED
    BY <1>2, <1>4, <1>5, <2>1, <2>3, <2>4
<1> QED
  BY <1>1, <1>2, <1>3, <1>5, TokenRound

LEMMA SwallowStringStep ==
  ASSUME Lexed, SwallowString
  PROVE  Lexed'
<1> DEFINE end == StringEnd(Advance(Start), Peek(Start))
<1>1. /\ text' = text /\ tokens' = tokens /\ position' = end
      /\ Peek(Start) \in Quote /\ Eof(end)
  BY DEF SwallowString, Matching
<1>2. /\ end \in Reached
      /\ WellFormed =>
           /\ end \in Exact /\ Start.offset < end.offset /\ end.offset \in Nat
           /\ Byte(Start.offset) \in Quote /\ Closing(Start.offset) = end.offset
           /\ end.offset = End
  BY <1>1, StringFacts
<1> HIDE DEF end
<1>3. ASSUME WellFormed PROVE end \in Exact /\ Void(Reach(Len(tokens)), end.offset)
  <2>1. Void(Reach(Len(tokens)), Start.offset) /\ Start.offset \in Nat /\ Reach(Len(tokens)) \in Nat
    BY <1>3, Started
  <2>2. Vacant(Start.offset, end.offset)
    BY <1>2, <1>3 DEF Vacant
  <2> QED
    BY <1>2, <1>3, <2>1, <2>2, VoidFacts
<1> QED
  BY <1>1, <1>2, <1>3, QuietRound

(* A token that begins where the comments end.                             *)
LEMMA PlainToken ==
  ASSUME Lexed, text' = text, NEW kind \in Kinds \ {"string"}, NEW r \in Reached, position' = r,
         Emit(kind, Start, r),
         WellFormed => r \in Exact /\ Longest(kind, Start.offset, r.offset)
  PROVE  Lexed'
<1> DEFINE t == [kind |-> kind, begin |-> Start, end |-> r]
<1>1. tokens' = Append(tokens, t)
  BY DEF Emit
<1>2. t \in Token
  BY Started DEF Token
<1>3. t.kind = kind /\ t.begin = Start /\ t.end = r /\ kind # "string"
  OBVIOUS
<1> HIDE DEF t
<1>4. ASSUME WellFormed
      PROVE  /\ r \in Exact /\ t.begin \in Exact /\ t.end \in Exact
             /\ Void(Reach(Len(tokens)), From(t)) /\ To(t) = r.offset
             /\ Longest(t.kind, t.begin.offset, t.end.offset)
  <2>1. Void(Reach(Len(tokens)), Start.offset) /\ Start \in Exact
    BY <1>4, Started
  <2>2. From(t) = Start.offset /\ To(t) = r.offset
    BY <1>3 DEF From, To
  <2> QED
    BY <1>3, <1>4, <2>1, <2>2
<1> QED
  BY <1>1, <1>2, <1>4, TokenRound

LEMMA MatchNumberStep ==
  ASSUME Lexed, MatchNumber
  PROVE  Lexed'
<1> DEFINE r == NumberEnd(Start)
<1>1. text' = text /\ position' = r /\ Emit("number", Start, r) /\ Peek(Start) \in Digit
  BY DEF MatchNumber, Matching
<1>2. r \in Reached
  BY Started, CharacterLoopsKeep
<1>3. ASSUME WellFormed PROVE r \in Exact /\ Longest("number", Start.offset, r.offset)
  <2>1. r \in Exact /\ LongestNumber(Start.offset, r.offset)
    BY <1>1, <1>3, Started, NumberEnds
  <2> QED
    BY <2>1 DEF Longest
<1> HIDE DEF r
<1>4. "number" \in Kinds \ {"string"}
  BY DEF Kinds
<1> QED
  BY <1>1, <1>2, <1>3, <1>4, PlainToken

LEMMA MatchIdentifierStep ==
  ASSUME Lexed, MatchIdentifier
  PROVE  Lexed'
<1> DEFINE r == IdentifierEnd(Start)
           kind == IdentifierKind(Start, r)
<1>1. text' = text /\ position' = r /\ Emit(kind, Start, r) /\ Peek(Start) \in Letter \cup {"underscore"}
  BY DEF MatchIdentifier, Matching
<1>2. r \in Reached
  BY Started, CharacterLoopsKeep
<1>3. kind \in {"keyword", "identifier"}
  BY DEF IdentifierKind
<1>4. ASSUME WellFormed PROVE r \in Exact /\ Longest(kind, Start.offset, r.offset)
  <2>1. r \in Exact /\ LongestWord(Start.offset, r.offset)
    BY <1>1, <1>4, Started, WordEnds
  <2>2. r.offset <= Len(text)
    BY <1>4, <2>1 DEF Exact, End
  <2>3. (kind = "keyword") = (SubSeq(text, Start.offset + 1, r.offset) \in Keywords)
    BY <2>2 DEF IdentifierKind
  <2> HIDE DEF kind, r
  <2> QED
    BY <1>3, <2>1, <2>3 DEF Longest
<1> HIDE DEF r, kind
<1>5. kind \in Kinds \ {"string"}
  BY <1>3 DEF Kinds
<1> QED
  BY <1>1, <1>2, <1>4, <1>5, PlainToken

LEMMA MatchNewLineStep ==
  ASSUME Lexed, MatchNewLine
  PROVE  Lexed'
<1> DEFINE r == Advance(Start)
<1>1. text' = text /\ position' = r /\ Emit("newline", Start, r) /\ Peek(Start) = "nl"
  BY DEF MatchNewLine, Matching
<1>2. r \in Reached
  BY Started DEF Kept
<1>3. ASSUME WellFormed PROVE r \in Exact /\ Longest("newline", Start.offset, r.offset)
  <2>1. text \in Texts /\ Start \in Exact
    BY <1>3, Started
  <2>2. r \in Exact /\ r.offset = Start.offset + 1 /\ Byte(Start.offset) = "nl"
    BY <1>1, <1>3, <2>1, ExactFacts, PeekFacts
  <2> QED
    BY <2>2 DEF Longest
<1> HIDE DEF r
<1>4. "newline" \in Kinds \ {"string"}
  BY DEF Kinds
<1> QED
  BY <1>1, <1>2, <1>3, <1>4, PlainToken

LEMMA MatchOperatorStep ==
  ASSUME Lexed, MatchOperator
  PROVE  Lexed'
<1> DEFINE o == FindOperator(Start)
           r == AdvanceN(Start, Len(o))
           kind == OperatorKind(o)
<1>1. /\ text' = text /\ position' = r /\ Emit(kind, Start, r) /\ o # << >>
      /\ Peek(Start) \notin Letter \cup {"underscore"}
  BY DEF MatchOperator, Matching, OtherChar
<1>2. kind \in {"newline", "operator"}
  BY DEF OperatorKind
<1>3. r \in Reached
  <2>1. text \in Texts /\ Start \in Place /\ Start \in Reached /\ Kept(Reached)
    BY Started
  <2>2. PICK w \in Walk : o = Ahead(Start, w.best)
    BY <2>1, FindWalks
  <2>3. w.best \in Nat
    BY DEF Walk
  <2>4. Len(o) \in Nat
    BY <2>2, <2>3, AheadFacts
  <2> HIDE DEF o
  <2> QED
    BY <2>1, <2>4, AdvanceNKept
<1>4. ASSUME WellFormed PROVE r \in Exact /\ Longest(kind, Start.offset, r.offset)
  <2>1. r \in Exact /\ LongestOperator(Start.offset, r.offset)
    BY <1>1, <1>4, Started, OperatorEnds
  <2> HIDE DEF kind, r
  <2> QED
    BY <1>2, <2>1 DEF Longest
<1> HIDE DEF r, kind
<1>5. kind \in Kinds \ {"string"}
  BY <1>2 DEF Kinds
<1> QED
  BY <1>1, <1>3, <1>4, <1>5, PlainToken

LEMMA SkipUnknownStep ==
  ASSUME Lexed, SkipUnknown
  PROVE  Lexed'
<1> DEFINE r == Advance(Start)
<1>1. text' = text /\ tokens' = tokens /\ position' = r /\ OtherChar /\ FindOperator(Start) = << >>
  BY DEF SkipUnknown, Matching
<1>2. r \in Reached
  BY Started DEF Kept
<1>3. ASSUME WellFormed PROVE r \in Exact /\ Void(Reach(Len(tokens)), r.offset)
  <2> DEFINE b == Start.offset
  <2>1. /\ text \in Texts /\ Start \in Exact /\ Start \in Place /\ b \in Nat /\ End \in Nat /\ b <= End
        /\ (Eof(Start) <=> b = End) /\ Void(Reach(Len(tokens)), b)
        /\ ~IsComment(b) /\ Reach(Len(tokens)) \in Nat
    BY <1>3, Started
  <2>2. r \in Exact
    BY <1>3, <2>1, ExactFacts
  <2>3. CASE Eof(Start)
    BY <2>1, <2>2, <2>3, AdvanceMoves
  <2>4. CASE ~Eof(Start)
    <3>1. b < End
      BY <2>1, <2>4
    <3>2. Byte(b) # "tail" /\ Byte(b) # "letter"
      BY <1>3, <2>1, <3>1, ExactFacts, ByteFacts
    <3>3. \/ Byte(b) # "lead" /\ r.offset = b + 1 /\ Peek(Start) = Byte(b)
          \/ Byte(b) = "lead" /\ Peek(Start) = "letter"
      BY <1>3, <2>1, <3>1, AdvanceExact
    <3>4. /\ Peek(Start) \notin Quote \cup {"1"} \cup {"i", "f", "n", "letter"} \cup {"underscore", "nl"}
          /\ Peek(Start) \notin Letter \cup {"underscore"}
      BY <1>1 DEF OtherChar, Digit, Letter
    <3>5. Byte(b) # "lead" /\ r.offset = b + 1 /\ Peek(Start) = Byte(b)
      BY <3>3, <3>4
    <3>6. Byte(b) \notin Quote \cup Wordlike \cup {"nl"}
      BY <3>2, <3>4, <3>5 DEF Wordlike
    <3>7. ~\E x \in Operators : Fits(x, b)
      BY <1>1, <1>3, <2>1, <3>4, OperatorEnds
    <3>8. Vacant(b, r.offset)
      BY <2>1, <3>5, <3>6, <3>7 DEF Vacant
    <3>9. b < r.offset /\ r.offset \in Nat
      BY <2>1, <3>5
    <3> QED
      BY <2>1, <2>2, <3>8, <3>9, VoidFacts
  <2> QED
    BY <2>3, <2>4
<1> HIDE DEF r
<1> QED
  BY <1>1, <1>2, <1>3, QuietRound

LEMMA LexedInit ==
  ASSUME Init
  PROVE  Lexed
<1> DEFINE p == [offset |-> 0, line |-> 1, column |-> 1]
<1>1. text \in Texts /\ position = p /\ tokens = << >>
  BY DEF Init
<1>2. p \in Place /\ p.offset = 0 /\ p.line = 1 /\ p.column = 1
  BY DEF Place
<1>3. End \in Nat /\ End = Len(text) /\ Beyond \in {0, 1} /\ DOMAIN text = 1 .. Len(text)
  BY <1>1, TextFacts DEF End, Beyond
<1> HIDE DEF p
<1>4. p \in Reached
  BY <1>2, <1>3 DEF Reached
<1>5. tokens \in Seq(Token) /\ Len(tokens) = 0 /\ DOMAIN tokens = {}
  <2>1. << >> \in Seq(Token) /\ Len(<< >>) = 0
    BY EmptySeq
  <2>2. DOMAIN << >> = 1 .. 0
    BY <2>1, LenProperties
  <2> QED
    BY <1>1, <2>1, <2>2
<1>6. ASSUME WellFormed PROVE p \in Exact /\ Void(0, 0)
  <2>1. Void(0, 0)
    BY VoidFacts
  <2>2. 0 < End => Byte(0) # "tail"
    <3> SUFFICES ASSUME 0 < End PROVE Byte(0) # "tail"
      OBVIOUS
    <3>1. 1 \in DOMAIN text /\ text # << >>
      <4>1. 1 \in 1 .. Len(text)
        BY <1>3
      <4>2. text # << >>
        BY <1>1, <1>3, TextFacts, EmptySeq
      <4> QED
        BY <1>3, <4>1, <4>2
    <3> QED
      BY <1>6, <3>1 DEF WellFormed, Byte
  <2>3. Counted(p)
    <3>1. Ended(0) = {} /\ OnLine(0) = {}
      BY DEF Ended, OnLine
    <3>2. Cardinality({}) = 0
      BY FS_EmptySet
    <3> QED
      BY <1>2, <3>1, <3>2 DEF Counted
  <2> QED
    BY <1>2, <1>3, <2>1, <2>2, <2>3 DEF Exact
<1>7. Reach(0) = 0
  BY DEF Reach
<1>8. Placed
  BY <1>1, <1>4, <1>5 DEF Placed
<1>9. Sound
  BY <1>1, <1>2, <1>5, <1>6, <1>7 DEF Sound
<1> QED
  BY <1>8, <1>9 DEF Lexed

LEMMA LexedStep ==
  ASSUME Lexed, [Next]_vars
  PROVE  Lexed'
<1>1. CASE SkipSpace
  BY <1>1, SkipSpaceStep
<1>2. CASE MatchString
  BY <1>2, MatchStringStep
<1>3. CASE SwallowString
  BY <1>3, SwallowStringStep
<1>4. CASE MatchNumber
  BY <1>4, MatchNumberStep
<1>5. CASE MatchIdentifier
  BY <1>5, MatchIdentifierStep
<1>6. CASE MatchNewLine
  BY <1>6, MatchNewLineStep
<1>7. CASE MatchOperator
  BY <1>7, MatchOperatorStep
<1>8. CASE SkipUnknown
  BY <1>8, SkipUnknownStep
<1>9. CASE UNCHANGED vars
  <2>1. text' = text /\ tokens' = tokens /\ position' = position
    BY <1>9 DEF vars
  <2>2. position \in Reached /\ (WellFormed => position \in Exact /\ Void(Reach(Len(tokens)), position.offset))
    BY DEF Lexed, Placed, Sound
  <2> QED
    BY <2>1, <2>2, QuietRound
<1> QED
  BY <1>1, <1>2, <1>3, <1>4, <1>5, <1>6, <1>7, <1>8, <1>9 DEF Next

LEMMA LexedHolds == Spec => []Lexed
<1>1. Init => Lexed
  BY LexedInit
<1>2. Lexed /\ [Next]_vars => Lexed'
  BY LexedStep
<1> QED
  BY <1>1, <1>2, PTL DEF Spec

-----------------------------------------------------------------------------
(* The lexer never leaves the text but for the tail that a leading byte at *)
(* the end promises, whatever the bytes are (TextStream::advance).         *)
THEOREM LexerTypes == Spec => []TypeOK
<1>1. Lexed => TypeOK
  <2> SUFFICES ASSUME Lexed PROVE TypeOK
    OBVIOUS
  <2>1. text \in Texts /\ position \in Reached /\ tokens \in Seq(Token)
    BY DEF Lexed, Placed
  <2>2. Reached \subseteq Position
    BY <2>1, ReachedKept
  <2> DEFINE Wide == [kind : Kinds, begin : Position, end : Position]
  <2>3. Token \subseteq Wide
    BY <2>2 DEF Token
  <2>4. tokens \in Seq(Wide)
    BY <2>1, <2>3, SeqMonotonic
  <2> QED
    BY <2>1, <2>2, <2>4 DEF TypeOK, Kinds
<1> QED
  BY <1>1, LexedHolds, PTL

(* The lexer drops no character but blanks, comments, characters of no     *)
(* token and the rest after a quote that is not closed (Lexer.hpp:60).     *)
THEOREM NothingIsLost == Spec => []NothingLost
<1>1. Lexed => NothingLost
  BY DEF Lexed, Sound, NothingLost
<1> QED
  BY <1>1, LexedHolds, PTL

(* The match functions take as much as the bytes allow: find_operator comes*)
(* back to the longest entry it passed, an escaped quote closes no string, *)
(* a word is a keyword when all of it is (MatchOperator.cpp:10).           *)
THEOREM TokensAreLongest == Spec => []LongestMatch
<1>1. Lexed => LongestMatch
  BY DEF Lexed, Sound, LongestMatch
<1> QED
  BY <1>1, LexedHolds, PTL

(* The line and the column of every token and of the stream are those of   *)
(* its byte, over comments, strings and operators of any length, and the   *)
(* line is the one that SourceBuffer has it on.                            *)
THEOREM LinesAreRight == Spec => []LinesAgree
<1>1. Lexed => LinesAgree
  <2> SUFFICES ASSUME Lexed, WellFormed
               PROVE  /\ Counted(position) /\ Found(position)
                      /\ \A i \in DOMAIN tokens : \A p \in {tokens[i].begin, tokens[i].end} : Counted(p) /\ Found(p)
    BY DEF LinesAgree
  <2>1. text \in Texts /\ position \in Exact /\ \A i \in DOMAIN tokens : tokens[i].begin \in Exact /\ tokens[i].end \in Exact
    BY DEF Lexed, Placed, Sound
  <2>2. End \in Nat
    BY <2>1, ByteFacts
  <2>3. \A p \in Exact : Counted(p) /\ Found(p)
    BY <2>2, CountedFound DEF Exact
  <2> QED
    BY <2>1, <2>3
<1> QED
  BY <1>1, LexedHolds, PTL
=============================================================================
