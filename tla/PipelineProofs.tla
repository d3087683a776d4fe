--------------------------- MODULE PipelineProofs ---------------------------
(***************************************************************************)
(* Theorems about Pipeline, for any number of files, any texts and any     *)
(* rule sets.                                                              *)
(***************************************************************************)
EXTENDS PipelineProperties, SequenceTheorems, TLAPS

(* A call that goes on to its next step.                                   *)
Moved(c) == [c EXCEPT !.at = @ + 1]

LEMMA MovedFrame ==
  \A c \in Frame : /\ Moved(c) \in Frame
                   /\ Moved(c).op = c.op
                   /\ Moved(c).unit = c.unit
                   /\ Moved(c).arg = c.arg
                   /\ Moved(c).rules = c.rules
                   /\ Moved(c).at = c.at + 1
  BY DEF Moved, Frame

(* The call stack after each of the things that happen to it.              *)
LEMMA AppendStack ==
  ASSUME NEW s \in Seq(Frame), NEW f \in Frame
  PROVE  /\ Append(s, f) \in Seq(Frame)
         /\ Len(Append(s, f)) = Len(s) + 1
         /\ \A i \in 1 .. Len(s) : Append(s, f)[i] = s[i]
         /\ Append(s, f)[Len(s) + 1] = f
  BY AppendProperties

LEMMA AdvanceStack ==
  ASSUME NEW s \in Seq(Frame), s # << >>
  PROVE  /\ Advance(s) \in Seq(Frame)
         /\ Len(Advance(s)) = Len(s)
         /\ \A i \in 1 .. Len(s) - 1 : Advance(s)[i] = s[i]
         /\ Advance(s)[Len(s)] = Moved(s[Len(s)])
<1> DEFINE n == Len(s)
<1>1. n \in Nat /\ n > 0 /\ s[n] \in Frame /\ DOMAIN s = 1 .. n
  BY EmptySeq, LenProperties, ElementOfSeq
<1>2. Moved(s[n]) \in Frame
  BY <1>1, MovedFrame
<1>3. Advance(s) = [s EXCEPT ![n] = Moved(s[n])]
  BY DEF Advance, Moved
<1>4. /\ Advance(s) \in Seq(Frame)
      /\ Len(Advance(s)) = Len(s)
      /\ \A i \in 1 .. n : Advance(s)[i] = IF i = n THEN Moved(s[n]) ELSE s[i]
  <2> DEFINE d == Moved(s[n])
  <2>1. d \in Frame
    BY <1>2
  <2>2. Advance(s) = [s EXCEPT ![n] = d]
    BY <1>3
  <2> HIDE DEF d
  <2>3. /\ Advance(s) \in Seq(Frame)
        /\ Len(Advance(s)) = Len(s)
        /\ \A i \in 1 .. n : Advance(s)[i] = IF i = n THEN d ELSE s[i]
    BY <1>1, <2>1, <2>2, ExceptSeq
  <2> QED
    BY <2>3 DEF d
<1>5. n \in 1 .. n
  BY <1>1
<1>6. Advance(s)[n] = Moved(s[n])
  BY <1>4, <1>5
<1>7. \A i \in 1 .. n - 1 : Advance(s)[i] = s[i]
  <2> TAKE i \in 1 .. n - 1
  <2>1. n \in Nat /\ i \in Nat /\ 1 <= i /\ i <= n - 1
    BY <1>1
  <2>2. i \in 1 .. n /\ i # n
    BY <2>1
  <2> QED
    BY <1>4, <2>2
<1> QED
  BY <1>4, <1>6, <1>7

LEMMA FrontStack ==
  ASSUME NEW s \in Seq(Frame), NEW k \in Nat, k <= Len(s)
  PROVE  /\ SubSeq(s, 1, k) \in Seq(Frame)
         /\ Len(SubSeq(s, 1, k)) = k
         /\ \A i \in 1 .. k : SubSeq(s, 1, k)[i] = s[i]
<1>1. \A i \in 1 .. k : s[i] \in Frame
  BY ElementOfSeq
<1>2. 1 \in Int /\ k \in Int
  OBVIOUS
<1>3. /\ SubSeq(s, 1, k) \in Seq(Frame)
      /\ Len(SubSeq(s, 1, k)) = IF 1 <= k THEN k - 1 + 1 ELSE 0
      /\ \A i \in 1 .. k - 1 + 1 : SubSeq(s, 1, k)[i] = s[1 + i - 1]
  BY <1>1, <1>2, SubSeqProperties
<1> QED
  BY <1>3

LEMMA ReturnStack ==
  ASSUME stack \in Seq(Frame), NEW n \in Nat, Len(stack) = n + 1
  PROVE  /\ Return \in Seq(Frame)
         /\ Len(Return) = n
         /\ \A i \in 1 .. n - 1 : Return[i] = stack[i]
         /\ n > 0 => Return[n] = Moved(stack[n])
<1> DEFINE rest == SubSeq(stack, 1, n)
<1>2. rest \in Seq(Frame) /\ Len(rest) = n /\ \A i \in 1 .. n : rest[i] = stack[i]
  BY FrontStack
<1>3. Return = IF rest = << >> THEN << >> ELSE Advance(rest)
  <2>1. Len(stack) - 1 = n
    OBVIOUS
  <2> QED
    BY <2>1 DEF Return
<1> HIDE DEF rest
<1>4. CASE rest = << >>
  <2>1. n = 0 /\ Return = << >>
    BY <1>2, <1>3, <1>4
  <2>2. << >> \in Seq(Frame) /\ Len(<< >>) = 0
    BY EmptySeq
  <2> QED
    BY <2>1, <2>2
<1>5. CASE rest # << >>
  <2>1. Return = Advance(rest)
    BY <1>3, <1>5
  <2>2. n > 0
    BY <1>2, <1>5
  <2>3. /\ Return \in Seq(Frame)
        /\ Len(Return) = n
        /\ \A i \in 1 .. n - 1 : Return[i] = rest[i]
        /\ Return[n] = Moved(rest[n])
    BY <1>2, <1>5, <2>1, AdvanceStack
  <2>4. rest[n] = stack[n] /\ \A i \in 1 .. n - 1 : rest[i] = stack[i]
    BY <1>2, <2>2
  <2> QED
    BY <2>3, <2>4
<1> QED
  BY <1>4, <1>5
-----------------------------------------------------------------------------
(* What the stack holds, and which call waits for which, from Typed.       *)
Typed == TypeOK /\ Chain /\ Loaded

(* The calls below the top, and that a unit stays a unit.                  *)
LEMMA StackFacts ==
  ASSUME Typed
  PROVE  /\ stack \in Seq(Frame) /\ Len(stack) \in Nat
         /\ \A i \in Depth : stack[i] \in Frame /\ FrameOK(stack[i])
         /\ stack # << >> => Len(stack) \in Depth /\ Top \in Frame /\ FrameOK(Top)
                             /\ Top.unit \in File /\ Top.unit \in Elements(units)
<1>1. stack \in Seq(Frame) /\ Len(stack) \in Nat
  BY DEF Typed, TypeOK
<1>2. \A i \in Depth : stack[i] \in Frame /\ FrameOK(stack[i]) /\ stack[i].unit \in Elements(units)
  BY <1>1, ElementOfSeq DEF Typed, Chain, Loaded, Depth
<1>3. stack # << >> => Len(stack) \in Depth
  BY <1>1, EmptySeq DEF Depth
<1>4. \A c \in Frame : c.unit \in File
  BY DEF Frame
<1> QED
  BY <1>1, <1>2, <1>3, <1>4 DEF Top

(* Nothing a call waits for is touched: what the chain of calls below the  *)
(* top rests on is the same after the step.                                *)
Kept ==
  /\ providers' = providers
  /\ \A f \in Elements(units) : f \in Elements(units') /\ source'[f] = source[f]

LEMMA AwaitsKept ==
  ASSUME Kept
  PROVE  \A c \in Frame, d \in Frame :
           c.unit \in Elements(units) => (Awaits(c, d) <=> Awaits(c, d)')
  BY DEF Kept, Awaits, RuleOf

(* A call is entered.                                                      *)
LEMMA PushChain ==
  ASSUME Typed, Kept, stack # << >>, NEW d \in Frame, FrameOK(d), Awaits(Top, d),
         d.unit \in Elements(units)', stack' = Append(stack, d)
  PROVE  Chain' /\ stack' \in Seq(Frame) /\ (\A i \in Depth : stack[i].unit \in Elements(units))'
<1> DEFINE n == Len(stack)
<1>1. n \in Nat /\ n \in Depth /\ stack \in Seq(Frame)
      /\ \A i \in Depth : stack[i] \in Frame /\ FrameOK(stack[i]) /\ stack[i].unit \in Elements(units)
  BY StackFacts DEF Typed, Loaded
<1>2. /\ stack' \in Seq(Frame)
      /\ Len(stack') = n + 1
      /\ \A i \in 1 .. n : stack'[i] = stack[i]
      /\ stack'[n + 1] = d
  BY <1>1, AppendStack
<1>3. Depth' = 1 .. n + 1 /\ Depth = 1 .. n
  BY <1>2 DEF Depth
<1>4. \A i \in 1 .. n : Awaits(stack'[i], stack'[i + 1])
  <2> TAKE i \in 1 .. n
  <2>1. CASE i = n
    BY <1>1, <1>2, <2>1 DEF Top
  <2>2. CASE i # n
    <3>1. i \in 1 .. n - 1 /\ i + 1 \in 1 .. n
      BY <1>1, <2>2
    <3>2. Awaits(stack[i], stack[i + 1])
      BY <3>1 DEF Typed, Chain
    <3> QED
      BY <1>2, <3>1, <3>2
  <2> QED
    BY <2>1, <2>2
<1>5. \A i \in 1 .. n : Awaits(stack[i], stack[i + 1])'
  <2> TAKE i \in 1 .. n
  <2>1. Awaits(stack'[i], stack'[i + 1])
    BY <1>4
  <2>2. stack'[i] \in Frame /\ stack'[i + 1] \in Frame /\ stack'[i].unit \in Elements(units)
    BY <1>1, <1>2, <1>3
  <2> QED
    BY <2>1, <2>2, AwaitsKept
<1>6. \A i \in 1 .. n + 1 : FrameOK(stack'[i]) /\ stack'[i].unit \in Elements(units)'
  BY <1>1, <1>2, <1>3 DEF Kept
<1>7. stack'[1].op = "require"
  BY <1>1, <1>2, <1>3 DEF Typed, Chain
<1> QED
  BY <1>1, <1>2, <1>3, <1>5, <1>6, <1>7 DEF Chain

(* The innermost call goes on to its next step.                            *)
LEMMA AdvanceChain ==
  ASSUME Typed, Kept, stack # << >>, FrameOK(Moved(Top)), stack' = Advance(stack)
  PROVE  Chain' /\ stack' \in Seq(Frame) /\ (\A i \in Depth : stack[i].unit \in Elements(units))'
<1> DEFINE n == Len(stack)
<1>1. n \in Nat /\ n \in Depth /\ stack \in Seq(Frame)
      /\ \A i \in Depth : stack[i] \in Frame /\ FrameOK(stack[i]) /\ stack[i].unit \in Elements(units)
  BY StackFacts DEF Typed, Loaded
<1>2. /\ stack' \in Seq(Frame)
      /\ Len(stack') = n
      /\ \A i \in 1 .. n - 1 : stack'[i] = stack[i]
      /\ stack'[n] = Moved(stack[n])
  BY <1>1, AdvanceStack
<1>3. Depth' = 1 .. n /\ Depth = 1 .. n
  BY <1>2 DEF Depth
<1>4. \A i \in 1 .. n : /\ stack'[i].op = stack[i].op
                        /\ stack'[i].unit = stack[i].unit
                        /\ stack'[i].arg = stack[i].arg
  BY <1>1, <1>2, <1>3, MovedFrame
<1>5. \A i \in 1 .. n - 1 : Awaits(stack'[i], stack'[i + 1])
  <2> TAKE i \in 1 .. n - 1
  <2>1. i \in 1 .. n /\ i + 1 \in 1 .. n
    BY <1>1
  <2>2. Awaits(stack[i], stack[i + 1])
    BY DEF Typed, Chain
  <2>3. stack'[i] = stack[i]
    BY <1>2
  <2> QED
    BY <1>4, <2>1, <2>2, <2>3 DEF Awaits
<1>6. \A i \in 1 .. n - 1 : Awaits(stack[i], stack[i + 1])'
  <2> TAKE i \in 1 .. n - 1
  <2>1. Awaits(stack'[i], stack'[i + 1])
    BY <1>5
  <2>2. stack'[i] \in Frame /\ stack'[i + 1] \in Frame /\ stack'[i].unit \in Elements(units)
    BY <1>1, <1>2, <1>3, <1>4, ElementOfSeq
  <2> QED
    BY <2>1, <2>2, AwaitsKept
<1>7. \A i \in 1 .. n : FrameOK(stack'[i]) /\ stack'[i].unit \in Elements(units)'
  BY <1>1, <1>2, <1>3, <1>4 DEF Kept, Top
<1>8. stack'[1].op = "require"
  BY <1>1, <1>3, <1>4 DEF Typed, Chain
<1> QED
  BY <1>1, <1>2, <1>3, <1>6, <1>7, <1>8 DEF Chain

(* The innermost call returns.                                             *)
LEMMA ReturnChain ==
  ASSUME Typed, Kept, stack # << >>, stack' = Return
  PROVE  Chain' /\ stack' \in Seq(Frame) /\ (\A i \in Depth : stack[i].unit \in Elements(units))'
<1>0. PICK n \in Nat : Len(stack) = n + 1
  <2>1. Len(stack) \in Nat /\ Len(stack) \in 1 .. Len(stack)
    BY StackFacts DEF Depth
  <2>2. Len(stack) - 1 \in Nat /\ Len(stack) = (Len(stack) - 1) + 1
    BY <2>1
  <2> QED
    BY <2>2
<1>1. stack \in Seq(Frame)
      /\ \A i \in Depth : stack[i] \in Frame /\ FrameOK(stack[i]) /\ stack[i].unit \in Elements(units)
  BY StackFacts DEF Typed, Loaded
<1>2. /\ stack' \in Seq(Frame)
      /\ Len(stack') = n
      /\ \A i \in 1 .. n - 1 : stack'[i] = stack[i]
      /\ n > 0 => stack'[n] = Moved(stack[n])
  BY <1>0, <1>1, ReturnStack
<1>3. Depth' = 1 .. n /\ Depth = 1 .. n + 1
  BY <1>0, <1>2 DEF Depth
<1>4. \A i \in 1 .. n : stack[i] \in Frame /\ FrameOK(stack[i]) /\ Awaits(stack[i], stack[i + 1])
  BY <1>0, <1>1, <1>3 DEF Typed, Chain
<1>5. \A i \in 1 .. n : /\ stack'[i].op = stack[i].op
                        /\ stack'[i].unit = stack[i].unit
                        /\ stack'[i].arg = stack[i].arg
                        /\ stack'[i].rules = stack[i].rules
                        /\ stack'[i].at = IF i = n THEN stack[i].at + 1 ELSE stack[i].at
  BY <1>2, <1>4, MovedFrame
<1>6. \A i \in 1 .. n - 1 : Awaits(stack'[i], stack'[i + 1])
  <2> TAKE i \in 1 .. n - 1
  <2>1. i \in 1 .. n /\ i + 1 \in 1 .. n /\ i # n
    OBVIOUS
  <2> QED
    BY <1>2, <1>4, <1>5, <2>1, SMTT(20) DEF Awaits
<1>7. \A i \in 1 .. n - 1 : Awaits(stack[i], stack[i + 1])'
  <2> TAKE i \in 1 .. n - 1
  <2>1. Awaits(stack'[i], stack'[i + 1])
    BY <1>6
  <2>2. stack'[i] \in Frame /\ stack'[i + 1] \in Frame /\ stack'[i].unit \in Elements(units)
    BY <1>1, <1>2, <1>3, <1>5, ElementOfSeq
  <2> QED
    BY <2>1, <2>2, AwaitsKept
<1>8. \A i \in 1 .. n : FrameOK(stack'[i])
  <2> TAKE i \in 1 .. n
  <2>1. CASE i # n
    BY <1>2, <1>4, <2>1
  <2>2. CASE i = n
    <3> DEFINE c == stack[n]
               d == stack'[n]
    <3>1. /\ c \in Frame /\ FrameOK(c) /\ Awaits(c, stack[n + 1])
          /\ d.op = c.op /\ d.unit = c.unit /\ d.arg = c.arg /\ d.rules = c.rules /\ d.at = c.at + 1
          /\ c.at \in Nat
      BY <1>4, <1>5, <2>2 DEF Frame
    <3> HIDE DEF c, d
    <3>2. FrameOK(d)
      <4>1. RuleOf(d) = RuleOf(c)
        BY <3>1 DEF RuleOf
      <4>2. d.op = "ensure" => c.at > 0 /\ c.at <= Len(RuleOf(c)) + 1
        BY <3>1 DEF Awaits
      <4>3. d.op = "ensure" => Len(RuleOf(c)) \in Nat
        <5>1. d.op = "ensure" => c.arg \in DOMAIN RuleBook[c.rules]
          BY <3>1, <4>2 DEF FrameOK
        <5>2. c.rules \in DOMAIN RuleBook
          BY <3>1 DEF Frame
        <5> QED
          BY <5>1, <5>2, RulesAssumption DEF RuleOf
      <4> HIDE DEF RuleOf
      <4> QED
        BY <3>1, <4>1, <4>2, <4>3 DEF FrameOK
    <3> QED
      BY <2>2, <3>2 DEF d
  <2> QED
    BY <2>1, <2>2
<1>9. \A i \in 1 .. n : stack'[i].unit \in Elements(units)'
  BY <1>1, <1>3, <1>5 DEF Kept
<1>10. n > 0 => stack'[1].op = "require"
  BY <1>2, <1>3, <1>5 DEF Typed, Chain
<1> QED
  BY <1>2, <1>3, <1>7, <1>8, <1>9, <1>10 DEF Chain

-----------------------------------------------------------------------------
(* Every step keeps the types, the chain of calls and what is loaded.      *)
LEMMA TypedInit == Init => Typed
<1> SUFFICES ASSUME Init PROVE Typed
  OBVIOUS
<1>1. stack = << >> /\ << >> \in Seq(Frame) /\ Len(<< >>) = 0
  BY EmptySeq DEF Init
<1>2. units = << >> /\ << >> \in Seq(File) /\ Elements(units) = {}
  BY EmptySeq DEF Init, Elements
<1>3. TypeOK
  <2>1. providers \in [Module -> Seq(File)]
    BY <1>2 DEF Init
  <2>2. source \in [File -> Text]
    BY DEF Init, Text
  <2>3. request \in Requests /\ disk \in [File -> Text] /\ toIndex \subseteq File
    BY FilesAssumption, TextsAssumption DEF Init
  <2>4. registered \subseteq Module
    BY FilesAssumption DEF Init
  <2> QED
    BY <1>1, <1>2, <2>1, <2>2, <2>3, <2>4 DEF Init, TypeOK
<1>4. Chain
  BY <1>1 DEF Chain, Depth
<1>5. Loaded
  BY <1>1, <1>2 DEF Loaded, Depth, Init
<1> QED
  BY <1>3, <1>4, <1>5 DEF Typed

(* A step that only moves through the calls.                               *)
LEMMA TypedGoTo ==
  ASSUME Typed, GoTo(stack'), Chain', stack' \in Seq(Frame),
         (\A i \in Depth : stack[i].unit \in Elements(units))'
  PROVE  Typed'
<1>1. TypeOK'
  BY DEF Typed, TypeOK, GoTo, index, pipe
<1>2. Loaded'
  BY DEF Typed, Loaded, GoTo, index, pipe, Elements
<1> QED
  BY <1>1, <1>2 DEF Typed

LEMMA TypedThrow ==
  ASSUME Typed, NEW why \in Failure \cup {"ok"}, outcome' = why,
         UNCHANGED <<request, disk, index, registered, units, source, rooted, pipe, stack>>
  PROVE  Typed'
<1>1. TypeOK'
  BY DEF Typed, TypeOK, index, pipe
<1>2. Loaded'
  BY DEF Typed, Loaded, index, pipe, Elements, Depth
<1>3. Chain'
  BY DEF Typed, Chain, index, Depth, Awaits
<1> QED
  BY <1>1, <1>2, <1>3 DEF Typed

LEMMA KeptGoTo ==
  ASSUME NEW calls, GoTo(calls)
  PROVE  Kept /\ GoTo(stack') /\ stack' = calls
BY DEF Kept, GoTo, index, Elements

(* A call of the pipeline is one the type allows.                          *)
LEMMA CallType ==
  ASSUME NEW op \in {"require", "ensure", "resolve", "load"}, NEW u \in File,
         NEW arg \in StageId \cup Module, NEW r \in DOMAIN RuleBook, NEW at \in Nat
  PROVE  /\ Call(op, u, arg, r, at) \in Frame
         /\ Call(op, u, arg, r, at).op = op
         /\ Call(op, u, arg, r, at).unit = u
         /\ Call(op, u, arg, r, at).arg = arg
         /\ Call(op, u, arg, r, at).rules = r
         /\ Call(op, u, arg, r, at).at = at
BY DEF Call, Frame

(* Of the call on top.                                                     *)
LEMMA TopFacts ==
  ASSUME Typed, stack # << >>
  PROVE  /\ Top \in Frame /\ FrameOK(Top) /\ Top.at \in Nat
         /\ Top.unit \in File /\ Top.unit \in Elements(units)
         /\ Top.rules \in DOMAIN RuleBook
         /\ Top.op = "ensure" /\ Top.at > 0 =>
              /\ Top.arg \in DOMAIN RuleBook[Top.rules]
              /\ RuleOf(Top) = Rule
              /\ Rule \in Seq(StageId) /\ Len(Rule) \in Nat
              /\ Top.at <= Len(Rule) + 2
<1>1. /\ Top \in Frame /\ FrameOK(Top)
      /\ Top.unit \in File /\ Top.unit \in Elements(units)
  BY StackFacts
<1>2. Top.at \in Nat /\ Top.rules \in DOMAIN RuleBook
  BY <1>1 DEF Frame
<1>3. RuleOf(Top) = Rule
  BY DEF RuleOf, Rule
<1>4. Top.op = "ensure" /\ Top.at > 0 => Top.arg \in DOMAIN RuleBook[Top.rules]
  BY <1>1 DEF FrameOK
<1>5. Top.op = "ensure" /\ Top.at > 0 => Rule \in Seq(StageId) /\ Len(Rule) \in Nat
  BY <1>2, <1>4, RulesAssumption, LenProperties DEF Rule
<1>6. Top.op = "ensure" /\ Top.at > 0 => Top.at <= Len(Rule) + 2
  BY <1>1, <1>3 DEF FrameOK
<1> QED
  BY <1>1, <1>2, <1>3, <1>4, <1>5, <1>6

(* require() enters ensure() at once: two calls are entered.               *)
LEMMA AppendTwo ==
  ASSUME NEW s \in Seq(Frame), NEW n \in Nat, Len(s) = n, NEW r \in Frame, NEW e \in Frame
  PROVE  /\ s \o <<r, e>> \in Seq(Frame)
         /\ Len(s \o <<r, e>>) = n + 2
         /\ \A i \in 1 .. n : (s \o <<r, e>>)[i] = s[i]
         /\ (s \o <<r, e>>)[n + 1] = r
         /\ (s \o <<r, e>>)[n + 2] = e
<1> DEFINE p == <<r, e>>
<1>1. p \in Seq(Frame) /\ Len(p) = 2 /\ p[1] = r /\ p[2] = e
  OBVIOUS
<1> HIDE DEF p
<1>2. /\ s \o p \in Seq(Frame)
      /\ Len(s \o p) = Len(s) + Len(p)
      /\ \A i \in 1 .. Len(s) + Len(p) : (s \o p)[i] = IF i <= Len(s) THEN s[i] ELSE p[i - Len(s)]
  BY <1>1, ConcatProperties
<1>3. n + 1 \in 1 .. n + 2 /\ n + 2 \in 1 .. n + 2 /\ ~(n + 1 <= n) /\ ~(n + 2 <= n)
      /\ n + 1 - n = 1 /\ n + 2 - n = 2 /\ \A i \in 1 .. n : i \in 1 .. n + 2 /\ i <= n
  OBVIOUS
<1>4. Len(s \o p) = n + 2 /\ (s \o p)[n + 1] = p[1] /\ (s \o p)[n + 2] = p[2]
      /\ \A i \in 1 .. n : (s \o p)[i] = s[i]
  BY <1>1, <1>2, <1>3
<1> QED
  BY <1>1, <1>2, <1>4 DEF p

LEMMA RequireChain ==
  ASSUME Typed, Kept, NEW r \in Frame, NEW e \in Frame, FrameOK(r), FrameOK(e),
         r.op = "require", Awaits(r, e), stack # << >> => Awaits(Top, r),
         r.unit \in Elements(units)', e.unit = r.unit, stack' = stack \o <<r, e>>
  PROVE  Chain' /\ stack' \in Seq(Frame) /\ (\A i \in Depth : stack[i].unit \in Elements(units))'
<1> DEFINE n == Len(stack)
<1>1. n \in Nat /\ stack \in Seq(Frame)
      /\ \A i \in Depth : stack[i] \in Frame /\ FrameOK(stack[i]) /\ stack[i].unit \in Elements(units)
  BY StackFacts DEF Typed, Loaded
<1>2. /\ stack' \in Seq(Frame)
      /\ Len(stack') = n + 2
      /\ \A i \in 1 .. n : stack'[i] = stack[i]
      /\ stack'[n + 1] = r
      /\ stack'[n + 2] = e
  BY <1>1, AppendTwo
<1>3. Depth' = 1 .. n + 2 /\ Depth = 1 .. n
  BY <1>2 DEF Depth
<1>4. \A i \in 1 .. n : Awaits(stack'[i], stack'[i + 1])
  <2> TAKE i \in 1 .. n
  <2>1. CASE i = n
    <3>1. stack # << >>
      BY <1>1
    <3> QED
      BY <1>1, <1>2, <2>1, <3>1 DEF Top
  <2>2. CASE i # n
    <3>1. i \in 1 .. n - 1 /\ i + 1 \in 1 .. n
      BY <1>1, <2>2
    <3>2. Awaits(stack[i], stack[i + 1])
      BY <3>1 DEF Typed, Chain
    <3> QED
      BY <1>2, <3>1, <3>2
  <2> QED
    BY <2>1, <2>2
<1>5. \A i \in 1 .. n + 1 : Awaits(stack[i], stack[i + 1])'
  <2> TAKE i \in 1 .. n + 1
  <2>1. CASE i = n + 1
    <3>1. stack'[i] = r /\ stack'[i + 1] = e
      BY <1>1, <1>2, <2>1
    <3> QED
      BY <3>1 DEF Awaits
  <2>2. CASE i # n + 1
    <3>1. i \in 1 .. n
      BY <1>1, <2>2
    <3>2. Awaits(stack'[i], stack'[i + 1])
      BY <1>4, <3>1
    <3>3. i \in 1 .. n + 2 /\ i + 1 \in 1 .. n + 2
      BY <1>1, <3>1
    <3>4. stack'[i] \in Frame /\ stack'[i + 1] \in Frame
      BY <1>2, <3>3, ElementOfSeq
    <3>5. stack'[i].unit \in Elements(units)
      BY <1>1, <1>2, <1>3, <3>1
    <3> QED
      BY <3>2, <3>4, <3>5, AwaitsKept
  <2> QED
    BY <2>1, <2>2
<1>6. \A i \in 1 .. n + 2 : FrameOK(stack'[i]) /\ stack'[i].unit \in Elements(units)'
  <2> TAKE i \in 1 .. n + 2
  <2>1. i \in 1 .. n \/ i = n + 1 \/ i = n + 2
    BY <1>1
  <2> QED
    BY <1>1, <1>2, <1>3, <2>1 DEF Kept
<1>7. stack'[1].op = "require"
  <2>1. CASE n = 0
    BY <1>2, <2>1
  <2>2. CASE n # 0
    <3>1. 1 \in 1 .. n /\ stack # << >>
      BY <1>1, <2>2
    <3> QED
      BY <1>2, <3>1 DEF Typed, Chain
  <2> QED
    BY <2>1, <2>2
<1>8. Len(stack') - 1 = n + 1
  BY <1>1, <1>2
<1>9. Chain'
  BY <1>3, <1>5, <1>6, <1>7, <1>8 DEF Chain
<1> QED
  BY <1>2, <1>3, <1>6, <1>9

LEMMA TypedIndexFile ==
  ASSUME Typed, NEW f \in File, IndexFile(f)
  PROVE  Typed'
<1>1. units = << >>
  BY DEF IndexFile, Typed, Loaded
<1>2. stack = << >> /\ Elements(units) = {}
  <2>1. Elements(units) = {}
    BY <1>1 DEF Elements
  <2> QED
    BY <2>1, StackFacts
<1>3. disk[f] \in Seq(Item)
  BY DEF IndexFile, Typed, TypeOK, Text
<1>4. Declared(disk[f]) \subseteq Module
  <2> SUFFICES ASSUME NEW i \in DOMAIN disk[f]
               PROVE  disk[f][i].name \in Module
    BY DEF Declared
  <2>1. disk[f][i] \in Item
    BY <1>3, ElementOfSeq
  <2> QED
    BY <2>1 DEF Item
<1>5. providers' \in [Module -> Seq(File)]
  <2>1. \A m \in Module : providers[m] \in Seq(File) /\ Append(providers[m], f) \in Seq(File)
    BY AppendProperties DEF Typed, TypeOK
  <2> QED
    BY <2>1 DEF IndexFile
<1>6. TypeOK'
  BY <1>4, <1>5 DEF IndexFile, Typed, TypeOK, pipe
<1>7. Chain'
  BY <1>2 DEF IndexFile, Chain, Depth
<1>8. Loaded'
  BY <1>1, <1>2 DEF IndexFile, Typed, Loaded, pipe, Depth, Elements
<1> QED
  BY <1>6, <1>7, <1>8 DEF Typed

(* add_script() and require() together.                                    *)
LEMMA AddScriptFacts ==
  ASSUME Typed, NEW f \in File, CanAdd(f), AddScript(f), toIndex = {},
         UNCHANGED <<disk, providers>>
  PROVE  /\ Kept
         /\ units' \in Seq(File) /\ source' \in [File -> Text]
         /\ f \in Elements(units)'
         /\ \A g \in File : g \in Elements(units) => g \in Elements(units)'
         /\ \A g \in Elements(units') : g \in File /\ source'[g] # Unreadable
<1>1. units \in Seq(File) /\ source \in [File -> Text] /\ disk \in [File -> Text]
  BY DEF Typed, TypeOK
<1>2. \A g \in Elements(units) : g \in File /\ source[g] # Unreadable
  BY <1>1, ElementOfSeq DEF Typed, Loaded, Elements
<1>3. CASE f \in Elements(units)
  <2>1. units' = units /\ source' = source
    BY <1>3 DEF AddScript
  <2> QED
    BY <1>1, <1>2, <1>3, <2>1 DEF Kept, Elements
<1>4. CASE f \notin Elements(units)
  <2>1. units' = Append(units, f) /\ source' = [source EXCEPT ![f] = disk[f]] /\ disk[f] # Unreadable
    BY <1>4 DEF AddScript, CanAdd
  <2>2. units' \in Seq(File) /\ source' \in [File -> Text]
    BY <1>1, <2>1, AppendProperties
  <2>3. Elements(units') = Elements(units) \cup {f}
    <3> DEFINE n == Len(units)
    <3>1. n \in Nat /\ DOMAIN units = 1 .. n
      BY <1>1, LenProperties
    <3>2. DOMAIN units' = 1 .. n + 1 /\ units'[n + 1] = f /\ \A i \in 1 .. n : units'[i] = units[i]
      BY <1>1, <2>1, <3>1, AppendProperties
    <3> HIDE DEF n
    <3> QED
      BY <3>1, <3>2 DEF Elements
  <2>4. \A g \in Elements(units) : source'[g] = source[g]
    BY <1>1, <1>2, <1>4, <2>1
  <2>5. source'[f] = disk[f]
    BY <1>1, <2>1
  <2>6. Elements(units)' = Elements(units')
    BY DEF Elements
  <2> QED
    BY <1>2, <2>1, <2>2, <2>3, <2>4, <2>5, <2>6 DEF Kept
<1> QED
  BY <1>3, <1>4

LEMMA TypedRequire ==
  ASSUME Typed, NEW f \in File, NEW s \in StageId, NEW r \in DOMAIN RuleBook,
         toIndex = {}, CanAdd(f), AddScript(f), Require(f, s, r),
         stack # << >> => Awaits(Top, Call("require", f, s, r, 0)),
         UNCHANGED <<request, disk, index, registered, rooted, completed, activeStages, outcome>>
  PROVE  Typed' /\ Kept
<1> DEFINE c == Call("require", f, s, r, 0)
           d == Call("ensure", f, s, r, 0)
<1>1. /\ Kept
      /\ units' \in Seq(File) /\ source' \in [File -> Text]
      /\ f \in Elements(units)'
      /\ \A g \in File : g \in Elements(units) => g \in Elements(units)'
      /\ \A g \in Elements(units') : g \in File /\ source'[g] # Unreadable
  BY AddScriptFacts DEF index
<1>2. /\ c \in Frame /\ c.op = "require" /\ c.unit = f /\ c.arg = s /\ c.rules = r /\ c.at = 0
      /\ d \in Frame /\ d.op = "ensure" /\ d.unit = f /\ d.arg = s /\ d.rules = r /\ d.at = 0
  BY CallType
<1>3. stack' = stack \o <<c, d>> /\ activeUnits' = activeUnits \cup {f}
  BY DEF Require
<1>4. stack # << >> => Awaits(Top, c)
  OBVIOUS
<1> HIDE DEF c, d
<1>5. FrameOK(c) /\ FrameOK(d) /\ Awaits(c, d)
  BY <1>2 DEF FrameOK, Awaits
<1>6. Chain' /\ stack' \in Seq(Frame) /\ (\A i \in Depth : stack[i].unit \in Elements(units))'
  BY <1>1, <1>2, <1>3, <1>4, <1>5, RequireChain
<1>7. TypeOK'
  BY <1>1, <1>3, <1>6 DEF Typed, TypeOK, index
<1>8. Elements(units)' = Elements(units')
  BY DEF Elements
<1>9. Loaded'
  BY <1>1, <1>6, <1>8 DEF Typed, Loaded, index, TypeOK
<1> QED
  BY <1>1, <1>6, <1>7, <1>9 DEF Typed

LEMMA TypedStart ==
  ASSUME Typed, Start
  PROVE  Typed' /\ Kept
<1>1. request.stage \in StageId /\ request.rules \in DOMAIN RuleBook
  BY RulesAssumption DEF Typed, TypeOK
<1>2. stack = << >>
  <2>1. Elements(units) = {}
    BY DEF Start, Elements
  <2> QED
    BY <2>1, StackFacts
<1> QED
  BY <1>1, <1>2, FilesAssumption, TypedRequire DEF Start

(* The file that a load has got to.                                        *)
LEMMA ProviderFacts ==
  ASSUME Typed, HasProvider
  PROVE  /\ stack # << >> /\ Top.op = "load" /\ Top.arg \in Module /\ Top.at > 0
         /\ Top.at \in DOMAIN providers[Top.arg]
         /\ Provider \in File
         /\ units # << >> /\ toIndex = {}
<1>1. stack # << >> /\ Top.op = "load" /\ Top.at <= Len(providers[Top.arg])
  BY DEF HasProvider, In
<1>2. Top.arg \in Module /\ Top.at > 0 /\ Top.at \in Nat
  BY <1>1, TopFacts DEF FrameOK
<1>3. providers[Top.arg] \in Seq(File)
  BY <1>2 DEF Typed, TypeOK
<1>4. Top.at \in DOMAIN providers[Top.arg]
  BY <1>1, <1>2, <1>3, LenProperties
<1>5. units # << >>
  <2>1. Top.unit \in Elements(units)
    BY <1>1, TopFacts
  <2> QED
    BY <2>1 DEF Elements
<1>6. toIndex = {}
  BY <1>5 DEF Typed, Loaded
<1>7. Provider \in File
  BY <1>3, <1>4, ElementOfSeq, LenProperties DEF Provider
<1> QED
  BY <1>1, <1>2, <1>4, <1>5, <1>6, <1>7

LEMMA TypedLoadProvider ==
  ASSUME Typed, LoadProvider
  PROVE  Typed' /\ Kept
<1> DEFINE c == Call("require", Provider, "Check", "normal", 0)
<1>1. /\ stack # << >> /\ Top.op = "load" /\ Top.at \in DOMAIN providers[Top.arg]
      /\ Provider \in File /\ toIndex = {} /\ Top.arg \in Module
  BY ProviderFacts DEF LoadProvider
<1>2. "Check" \in StageId /\ "normal" \in DOMAIN RuleBook
  BY RulesAssumption DEF StageId
<1>3. c.op = "require" /\ c.unit = Provider /\ c.arg = "Check"
  BY DEF Call
<1> HIDE DEF c
<1>4. Awaits(Top, c)
  BY <1>1, <1>3 DEF Awaits, Provider, LoadProvider, HasProvider
<1> QED
  BY <1>1, <1>2, <1>4, TypedRequire DEF LoadProvider, c

LEMMA TypedReturn ==
  ASSUME Typed, stack # << >>, GoTo(Return)
  PROVE  Typed' /\ Kept
<1>1. Kept /\ GoTo(stack') /\ stack' = Return
  BY KeptGoTo
<1> QED
  BY <1>1, ReturnChain, TypedGoTo

LEMMA TypedAdvance ==
  ASSUME Typed, stack # << >>, GoTo(Advance(stack)), FrameOK(Moved(Top))
  PROVE  Typed' /\ Kept
<1>1. Kept /\ GoTo(stack') /\ stack' = Advance(stack)
  BY KeptGoTo
<1> QED
  BY <1>1, AdvanceChain, TypedGoTo

LEMMA TypedPush ==
  ASSUME Typed, stack # << >>, NEW d \in Frame, GoTo(Append(stack, d)), FrameOK(d),
         Awaits(Top, d), d.unit \in Elements(units)
  PROVE  Typed' /\ Kept
<1>1. Kept /\ GoTo(stack') /\ stack' = Append(stack, d)
  BY KeptGoTo
<1>2. d.unit \in Elements(units)'
  BY <1>1 DEF Kept, GoTo, Elements
<1> QED
  BY <1>1, <1>2, PushChain, TypedGoTo

LEMMA TypedRequireReturn ==
  ASSUME Typed, RequireReturn
  PROVE  Typed' /\ Kept
<1>1. Kept /\ stack # << >> /\ stack' = Return
  BY DEF RequireReturn, In, Kept, index, Elements
<1>2. Chain' /\ stack' \in Seq(Frame) /\ (\A i \in Depth : stack[i].unit \in Elements(units))'
  BY <1>1, ReturnChain
<1>3. TypeOK'
  BY <1>2 DEF RequireReturn, Typed, TypeOK, index
<1>4. Loaded'
  BY <1>2 DEF RequireReturn, Typed, Loaded, index, Elements
<1> QED
  BY <1>1, <1>2, <1>3, <1>4 DEF Typed

(* A call that goes on stays one the chain allows.                         *)
LEMMA MovedOK ==
  ASSUME Typed, stack # << >>,
         Top.op = "ensure" => /\ Top.arg \in DOMAIN RuleBook[Top.rules]
                              /\ Top.at <= Len(Rule) + 1 /\ Len(Rule) \in Nat
  PROVE  FrameOK(Moved(Top))
<1> DEFINE c == Top
           d == Moved(Top)
<1>1. /\ d.op = c.op /\ d.unit = c.unit /\ d.arg = c.arg /\ d.rules = c.rules /\ d.at = c.at + 1
      /\ c.at \in Nat /\ FrameOK(c)
  BY TopFacts, MovedFrame
<1>2. RuleOf(d) = Rule
  BY <1>1 DEF RuleOf, Rule
<1>3. c.op = "ensure" => c.arg \in DOMAIN RuleBook[c.rules] /\ c.at <= Len(Rule) + 1
                         /\ Len(Rule) \in Nat
  OBVIOUS
<1> HIDE DEF c, d
<1>4. FrameOK(d)
  BY <1>1, <1>2, <1>3 DEF FrameOK
<1> QED
  BY <1>4 DEF d

LEMMA TypedEnsureEnter ==
  ASSUME Typed, EnsureEnter
  PROVE  Typed' /\ Kept
<1>1. /\ Kept /\ stack # << >> /\ stack' = Advance(stack)
      /\ Top.op = "ensure" /\ Top.at = 0 /\ Top.arg \in DOMAIN RuleBook[Top.rules]
      /\ activeStages' = [activeStages EXCEPT ![Top.unit] = @ \cup {Top.arg}]
  BY DEF EnsureEnter, In, Kept, index, Elements
<1>2. Top.unit \in File /\ Top.rules \in DOMAIN RuleBook /\ Top.arg \in StageId
  BY <1>1, TopFacts DEF FrameOK
<1>3. Len(Rule) \in Nat
  BY <1>1, <1>2, RulesAssumption, LenProperties DEF Rule
<1>4. FrameOK(Moved(Top))
  BY <1>1, <1>3, MovedOK
<1>5. Chain' /\ stack' \in Seq(Frame) /\ (\A i \in Depth : stack[i].unit \in Elements(units))'
  BY <1>1, <1>4, AdvanceChain
<1>6. activeStages' \in [File -> SUBSET StageId]
  BY <1>1, <1>2 DEF Typed, TypeOK
<1>7. TypeOK'
  BY <1>5, <1>6 DEF EnsureEnter, Typed, TypeOK, index
<1>8. Loaded'
  BY <1>5 DEF EnsureEnter, Typed, Loaded, index, Elements
<1> QED
  BY <1>1, <1>5, <1>7, <1>8 DEF Typed

LEMMA TypedEnsureDependency ==
  ASSUME Typed, EnsureDependency
  PROVE  Typed' /\ Kept
<1> DEFINE d == Call("ensure", Top.unit, Rule[Top.at], Top.rules, 0)
<1>1. /\ stack # << >> /\ Top.op = "ensure" /\ Top.at > 0 /\ Top.at <= Len(Rule)
      /\ GoTo(Append(stack, d))
  BY DEF EnsureDependency, In
<1>2. /\ Top.unit \in File /\ Top.unit \in Elements(units) /\ Top.rules \in DOMAIN RuleBook
      /\ Top.at \in Nat /\ RuleOf(Top) = Rule /\ Rule \in Seq(StageId)
  BY <1>1, TopFacts
<1>3. Rule[Top.at] \in StageId
  BY <1>1, <1>2, ElementOfSeq
<1>4. /\ d \in Frame /\ d.op = "ensure" /\ d.unit = Top.unit /\ d.arg = Rule[Top.at] /\ d.at = 0
  BY <1>2, <1>3, CallType
<1> HIDE DEF d
<1>5. FrameOK(d)
  BY <1>3, <1>4 DEF FrameOK
<1>6. Awaits(Top, d)
  BY <1>1, <1>2, <1>4 DEF Awaits
<1> QED
  BY <1>1, <1>2, <1>4, <1>5, <1>6, TypedPush

LEMMA TypedRunResolver ==
  ASSUME Typed, RunResolver
  PROVE  Typed' /\ Kept
<1> DEFINE d == Call("resolve", Top.unit, "Resolver", Top.rules, 1)
<1>1. /\ stack # << >> /\ Top.op = "ensure" /\ Top.at > 0 /\ Top.at = Len(Rule) + 1
      /\ Top.arg = "Resolver" /\ GoTo(Append(stack, d))
  BY DEF RunResolver, AtRun, In
<1>2. /\ Top.unit \in File /\ Top.unit \in Elements(units) /\ Top.rules \in DOMAIN RuleBook
      /\ RuleOf(Top) = Rule /\ "Resolver" \in StageId
  BY <1>1, TopFacts DEF StageId
<1>3. /\ d \in Frame /\ d.op = "resolve" /\ d.unit = Top.unit /\ d.arg = "Resolver" /\ d.at = 1
  BY <1>2, CallType
<1> HIDE DEF d
<1>4. FrameOK(d)
  BY <1>2, <1>3 DEF FrameOK
<1>5. Awaits(Top, d)
  BY <1>1, <1>2, <1>3 DEF Awaits
<1> QED
  BY <1>1, <1>2, <1>3, <1>4, <1>5, TypedPush

LEMMA TypedImportKnown ==
  ASSUME Typed, ImportKnown
  PROVE  Typed' /\ Kept
<1> DEFINE d == Call("load", Top.unit, ImportName, "normal", 1)
<1>1. /\ stack # << >> /\ Top.op = "resolve" /\ ImportName \in registered
      /\ GoTo(Append(stack, d))
  BY DEF ImportKnown, In
<1>2. Top.unit \in File /\ Top.unit \in Elements(units)
  BY <1>1, TopFacts
<1>3. ImportName \in Module /\ "normal" \in DOMAIN RuleBook
  BY <1>1, RulesAssumption DEF Typed, TypeOK
<1>4. /\ d \in Frame /\ d.op = "load" /\ d.unit = Top.unit /\ d.arg = ImportName /\ d.at = 1
  BY <1>2, <1>3, CallType
<1> HIDE DEF d
<1>5. FrameOK(d)
  BY <1>3, <1>4 DEF FrameOK
<1>6. Awaits(Top, d)
  BY <1>1, <1>4 DEF Awaits, ImportName
<1> QED
  BY <1>1, <1>2, <1>4, <1>5, <1>6, TypedPush

(* What a text declares is made of module names.                           *)
LEMMA DeclaredModules ==
  ASSUME NEW text \in Seq(Item)
  PROVE  Declared(text) \subseteq Module
<1> SUFFICES ASSUME NEW i \in DOMAIN text
             PROVE  text[i].name \in Module
  BY DEF Declared
<1>1. text[i] \in Item
  BY ElementOfSeq
<1> QED
  BY <1>1 DEF Item

LEMMA TypedRunStage ==
  ASSUME Typed, RunStage
  PROVE  Typed' /\ Kept
<1>1. /\ Kept /\ stack # << >> /\ stack' = Advance(stack)
      /\ Top.op = "ensure" /\ Top.at > 0 /\ Top.at = Len(Rule) + 1
  BY DEF RunStage, AtRun, In, Kept, index, Elements
<1>2. /\ Top.unit \in File /\ Top.unit \in Elements(units)
      /\ Top.arg \in DOMAIN RuleBook[Top.rules] /\ Len(Rule) \in Nat
  BY <1>1, TopFacts
<1>3. FrameOK(Moved(Top))
  BY <1>1, <1>2, MovedOK
<1>4. Chain' /\ stack' \in Seq(Frame) /\ (\A i \in Depth : stack[i].unit \in Elements(units))'
  BY <1>1, <1>3, AdvanceChain
<1>5. rooted' \subseteq rooted \cup {Top.unit}
  BY DEF RunStage
<1>6. registered' \subseteq Module
  <2>1. source[Top.unit] \in Seq(Item)
    BY <1>2 DEF Typed, TypeOK, Text, Loaded
  <2>2. Declared(source[Top.unit]) \subseteq Module
    BY <2>1, DeclaredModules
  <2>3. {ImplicitName[f] : f \in {g \in {Top.unit} : StartsImplicit(source[g])}} \subseteq Module
    BY <1>2, TextsAssumption
  <2> QED
    BY <2>2, <2>3 DEF RunStage, Typed, TypeOK
<1>7. TypeOK'
  BY <1>2, <1>4, <1>5, <1>6 DEF RunStage, Typed, TypeOK, index, pipe
<1>8. Loaded'
  BY <1>2, <1>4, <1>5 DEF RunStage, Typed, Loaded, index, pipe, Elements
<1> QED
  BY <1>1, <1>4, <1>7, <1>8 DEF Typed

LEMMA TypedEnsureReturn ==
  ASSUME Typed, EnsureReturn
  PROVE  Typed' /\ Kept
<1>1. /\ Kept /\ stack # << >> /\ stack' = Return /\ Top.op = "ensure"
      /\ completed' = [completed EXCEPT ![Top.unit] = @ \cup {Top.arg}]
      /\ activeStages' = [activeStages EXCEPT ![Top.unit] = @ \ {Top.arg}]
  BY DEF EnsureReturn, In, Kept, index, Elements
<1>2. Top.unit \in File /\ Top.unit \in Elements(units) /\ Top.arg \in StageId
  BY <1>1, TopFacts DEF FrameOK
<1>3. Chain' /\ stack' \in Seq(Frame) /\ (\A i \in Depth : stack[i].unit \in Elements(units))'
  BY <1>1, ReturnChain
<1>4. completed' \in [File -> SUBSET StageId] /\ activeStages' \in [File -> SUBSET StageId]
  BY <1>1, <1>2 DEF Typed, TypeOK
<1>5. TypeOK'
  BY <1>3, <1>4 DEF EnsureReturn, Typed, TypeOK, index
<1>6. \A f \in File : completed'[f] # {} => f \in Elements(units)
  BY <1>1, <1>2 DEF Typed, TypeOK, Loaded
<1>7. Loaded'
  BY <1>3, <1>6 DEF EnsureReturn, Typed, Loaded, index, Elements
<1> QED
  BY <1>1, <1>3, <1>5, <1>7 DEF Typed

LEMMA TypedEdit ==
  ASSUME Typed, NEW f \in File, NEW t \in Edits, Edit(f, t)
  PROVE  Typed' /\ Kept
<1>1. disk' \in [File -> Text]
  BY TextsAssumption DEF Edit, Typed, TypeOK
<1>2. TypeOK'
  BY <1>1 DEF Edit, Typed, TypeOK, index, pipe
<1>3. Chain' /\ Loaded' /\ Kept
  BY DEF Edit, Typed, Chain, Loaded, Kept, Awaits, index, pipe, Depth, Elements
<1> QED
  BY <1>2, <1>3 DEF Typed

LEMMA TypedResolveNext ==
  ASSUME Typed, ResolveOther \/ ImportUnknown
  PROVE  Typed' /\ Kept
<1>1. stack # << >> /\ Top.op = "resolve" /\ GoTo(Advance(stack))
  BY DEF ResolveOther, ImportUnknown, In
<1> QED
  BY <1>1, MovedOK, TypedAdvance

LEMMA TypedReturns ==
  ASSUME Typed, EnsureCompleted \/ ResolveReturn \/ LoadReturn
  PROVE  Typed' /\ Kept
<1>1. stack # << >> /\ GoTo(Return)
  BY DEF EnsureCompleted, ResolveReturn, LoadReturn, In
<1> QED
  BY <1>1, TypedReturn

(* The steps that end the program.                                         *)
Ends == \/ \E f \in File : IndexUnreadable(f)
        \/ StartUnreadable \/ EnsureCyclic \/ EnsureUnknown
        \/ LoadUnreadable \/ LoadActive \/ Finish

LEMMA EndsFacts ==
  ASSUME Ends
  PROVE  /\ outcome' \in Failure \cup {"ok"}
         /\ UNCHANGED <<request, disk, index, registered, units, source, rooted, pipe, stack>>
BY DEF Ends, IndexUnreadable, StartUnreadable, EnsureCyclic, EnsureUnknown, LoadUnreadable,
       LoadActive, Finish, Throw, Failure

LEMMA TypedEnds ==
  ASSUME Typed, Ends
  PROVE  Typed' /\ Kept
<1>1. Kept
  BY EndsFacts DEF Kept, index, Elements
<1> QED
  BY <1>1, EndsFacts, TypedThrow

LEMMA TypedUnchanged ==
  ASSUME Typed, UNCHANGED vars
  PROVE  Typed'
<1>1. TypeOK'
  BY DEF vars, Typed, TypeOK
<1>2. Chain'
  BY DEF vars, Typed, Chain, Depth, Awaits
<1>3. Loaded'
  BY DEF vars, Typed, Loaded, Depth, Elements
<1> QED
  BY <1>1, <1>2, <1>3 DEF Typed

LEMMA TypedStep ==
  ASSUME Typed, [Next]_vars
  PROVE  Typed'
<1>1. CASE \E f \in File : IndexFile(f)
  BY <1>1, TypedIndexFile
<1>2. CASE Ends
  BY <1>2, TypedEnds
<1>3. CASE Start \/ LoadProvider
  BY <1>3, TypedStart, TypedLoadProvider
<1>4. CASE RequireReturn
  BY <1>4, TypedRequireReturn
<1>5. CASE EnsureEnter \/ EnsureDependency \/ RunStage \/ RunResolver \/ EnsureReturn
  BY <1>5, TypedEnsureEnter, TypedEnsureDependency, TypedRunStage, TypedRunResolver,
     TypedEnsureReturn
<1>6. CASE ResolveOther \/ ImportUnknown \/ ImportKnown
  BY <1>6, TypedResolveNext, TypedImportKnown
<1>7. CASE EnsureCompleted \/ ResolveReturn \/ LoadReturn
  BY <1>7, TypedReturns
<1>8. CASE \E f \in File, t \in Edits : Edit(f, t)
  BY <1>8, TypedEdit
<1>9. CASE UNCHANGED vars
  BY <1>9, TypedUnchanged
<1> QED
  BY <1>1, <1>2, <1>3, <1>4, <1>5, <1>6, <1>7, <1>8, <1>9
  DEF Next, Compile, Index, Ensure, Resolve, Load, Ends, Terminated

(* The type invariant holds for any number of files, any texts, any edits  *)
(* and any rule sets: no step of the recursion leaves the stack, the unit  *)
(* table or the stage sets with something that cannot be there.            *)
THEOREM TypeCorrect == Spec => []TypeOK
<1>1. Init => Typed
  BY TypedInit
<1>2. Typed /\ [Next]_vars => Typed'
  BY TypedStep
<1>3. Typed => TypeOK
  BY DEF Typed
<1> QED
  BY <1>1, <1>2, <1>3, PTL DEF Spec

-----------------------------------------------------------------------------
(* active_units_ and active_stages_ are the calls in progress.  A call is  *)
(* marked when it has an entry in one of them.                             *)
Marked(i) == Requiring(i) \/ Ensuring(i)

Same(i) == /\ stack'[i].op = stack[i].op
           /\ stack'[i].unit = stack[i].unit
           /\ stack'[i].arg = stack[i].arg
           /\ Ensuring(i)' <=> Ensuring(i)

(* No marked call is lost or moves, and the marked calls afterwards are    *)
(* those and perhaps call k.                                               *)
OnlyNew(k) == /\ \A i \in Depth : Marked(i) => i \in Depth' /\ Same(i)
              /\ \A i \in Depth' : Marked(i)' => i = k \/ (i \in Depth /\ Marked(i) /\ Same(i))

(* The same with one marked call, k, gone.                                 *)
OnlyGone(k) == /\ \A i \in Depth : Marked(i) => i = k \/ (i \in Depth' /\ Same(i))
               /\ \A i \in Depth' : Marked(i)' => i # k /\ i \in Depth /\ Marked(i) /\ Same(i)

(* The three parts of ActiveIsStack, for one entry each.                   *)
UnitEntry ==
  \A f \in File : f \in activeUnits <=> \E i \in Depth : Requiring(i) /\ stack[i].unit = f
StageEntry ==
  \A f \in File, s \in StageId :
    s \in activeStages[f] <=>
      \E i \in Depth : Ensuring(i) /\ stack[i].unit = f /\ stack[i].arg = s
OneEntry ==
  \A i, j \in Depth :
    /\ Requiring(i) /\ Requiring(j) /\ stack[i].unit = stack[j].unit => i = j
    /\ Ensuring(i) /\ Ensuring(j) /\ stack[i].unit = stack[j].unit
         /\ stack[i].arg = stack[j].arg => i = j

LEMMA EntriesAreActive ==
  ASSUME Typed
  PROVE  ActiveIsStack <=> UnitEntry /\ StageEntry /\ OneEntry
<1>1. /\ activeUnits \subseteq File
      /\ activeStages \in [File -> SUBSET StageId]
      /\ \A i \in Depth : stack[i].unit \in File
      /\ \A i \in Depth : Ensuring(i) => stack[i].arg \in StageId
  <2>1. \A i \in Depth : stack[i] \in Frame /\ FrameOK(stack[i])
    BY StackFacts
  <2>2. \A i \in Depth : stack[i].unit \in File
    BY <2>1 DEF Frame
  <2>3. \A i \in Depth : Ensuring(i) => stack[i].arg \in StageId
    BY <2>1 DEF Ensuring, FrameOK
  <2> QED
    BY <2>2, <2>3 DEF Typed, TypeOK
<1>2. activeUnits = {stack[i].unit : i \in {j \in Depth : Requiring(j)}} <=> UnitEntry
  BY <1>1 DEF UnitEntry
<1>3. (\A f \in File :
         activeStages[f] = {stack[i].arg : i \in {j \in Depth : Ensuring(j) /\ stack[j].unit = f}})
      <=> StageEntry
  <2>1. ASSUME NEW f \in File
        PROVE  activeStages[f] = {stack[i].arg : i \in {j \in Depth : Ensuring(j) /\ stack[j].unit = f}}
               <=> \A s \in StageId :
                     s \in activeStages[f] <=>
                       \E i \in Depth : Ensuring(i) /\ stack[i].unit = f /\ stack[i].arg = s
    <3> DEFINE A == activeStages[f]
    <3>1. A \subseteq StageId
      BY <1>1
    <3> HIDE DEF A
    <3>2. A = {stack[i].arg : i \in {j \in Depth : Ensuring(j) /\ stack[j].unit = f}}
               <=> \A s \in StageId :
                     s \in A <=>
                       \E i \in Depth : Ensuring(i) /\ stack[i].unit = f /\ stack[i].arg = s
      BY <1>1, <3>1
    <3> QED
      BY <3>2 DEF A
  <2> QED
    BY <2>1 DEF StageEntry
<1> QED
  BY <1>2, <1>3 DEF ActiveIsStack, OneEntry

LEMMA ActiveSame ==
  ASSUME UnitEntry, StageEntry, OneEntry, OnlyNew(0), 0 \notin Depth',
         UNCHANGED <<activeUnits, activeStages>>
  PROVE  UnitEntry' /\ StageEntry' /\ OneEntry'
<1>1. \A i : i \in Depth /\ Marked(i) <=> i \in Depth' /\ Marked(i)'
  BY DEF OnlyNew, Marked, Same, Requiring
<1>2. \A i \in Depth : Marked(i) => /\ Requiring(i)' <=> Requiring(i)
                                    /\ Ensuring(i)' <=> Ensuring(i)
                                    /\ stack'[i].unit = stack[i].unit
                                    /\ stack'[i].arg = stack[i].arg
  BY DEF OnlyNew, Same, Requiring
<1>3. UnitEntry'
  BY <1>1, <1>2 DEF UnitEntry, Marked
<1>4. StageEntry'
  BY <1>1, <1>2 DEF StageEntry, Marked
<1>5. OneEntry'
  BY <1>1, <1>2 DEF OneEntry, Marked
<1> QED
  BY <1>3, <1>4, <1>5

LEMMA ActiveUnitNew ==
  ASSUME UnitEntry, StageEntry, OneEntry, NEW k, OnlyNew(k), k \in Depth', k \notin Depth,
         NEW f \in File, Requiring(k)', stack'[k].unit = f, ~Ensuring(k)', f \notin activeUnits,
         activeUnits' = activeUnits \cup {f}, activeStages' = activeStages
  PROVE  UnitEntry' /\ StageEntry' /\ OneEntry'
<1>1. \A i : (i \in Depth /\ Marked(i)) \/ i = k <=> i \in Depth' /\ Marked(i)'
  BY DEF OnlyNew, Marked, Same, Requiring
<1>2. \A i \in Depth : Marked(i) => /\ Requiring(i)' <=> Requiring(i)
                                    /\ Ensuring(i)' <=> Ensuring(i)
                                    /\ stack'[i].unit = stack[i].unit
                                    /\ stack'[i].arg = stack[i].arg
  BY DEF OnlyNew, Same, Requiring
<1>3. UnitEntry'
  BY <1>1, <1>2 DEF UnitEntry, Marked
<1>4. StageEntry'
  BY <1>1, <1>2 DEF StageEntry, Marked
<1>5. OneEntry'
  BY <1>1, <1>2 DEF OneEntry, UnitEntry, Marked
<1> QED
  BY <1>3, <1>4, <1>5

LEMMA ActiveUnitGone ==
  ASSUME UnitEntry, StageEntry, OneEntry, NEW k, OnlyGone(k), k \in Depth,
         NEW f \in File, Requiring(k), stack[k].unit = f, ~Ensuring(k),
         activeUnits' = activeUnits \ {f}, activeStages' = activeStages
  PROVE  UnitEntry' /\ StageEntry' /\ OneEntry'
<1>1. \A i : i \in Depth /\ Marked(i) /\ i # k <=> i \in Depth' /\ Marked(i)'
  BY DEF OnlyGone, Marked, Same, Requiring
<1>2. \A i \in Depth : Marked(i) /\ i # k => /\ Requiring(i)' <=> Requiring(i)
                                             /\ Ensuring(i)' <=> Ensuring(i)
                                             /\ stack'[i].unit = stack[i].unit
                                             /\ stack'[i].arg = stack[i].arg
  BY DEF OnlyGone, Same, Requiring
<1>3. UnitEntry'
  BY <1>1, <1>2 DEF UnitEntry, OneEntry, Marked
<1>4. StageEntry'
  BY <1>1, <1>2 DEF StageEntry, Marked
<1>5. OneEntry'
  BY <1>1, <1>2 DEF OneEntry, Marked
<1> QED
  BY <1>3, <1>4, <1>5

LEMMA ActiveStageNew ==
  ASSUME Typed, UnitEntry, StageEntry, OneEntry, NEW k, OnlyNew(k), k \in Depth', ~Marked(k),
         NEW f \in File, NEW s \in StageId, ~Requiring(k)', Ensuring(k)', stack'[k].unit = f,
         stack'[k].arg = s, s \notin activeStages[f],
         activeStages' = [activeStages EXCEPT ![f] = @ \cup {s}], activeUnits' = activeUnits
  PROVE  UnitEntry' /\ StageEntry' /\ OneEntry'
<1>1. \A i : (i \in Depth /\ Marked(i)) \/ i = k <=> i \in Depth' /\ Marked(i)'
  BY DEF OnlyNew, Marked, Same, Requiring
<1>2. \A i \in Depth : Marked(i) => /\ Requiring(i)' <=> Requiring(i)
                                    /\ Ensuring(i)' <=> Ensuring(i)
                                    /\ stack'[i].unit = stack[i].unit
                                    /\ stack'[i].arg = stack[i].arg
  BY DEF OnlyNew, Same, Requiring
<1>3. \A g \in File : \A t : t \in activeStages'[g] <=> t \in activeStages[g] \/ (g = f /\ t = s)
  BY DEF Typed, TypeOK
<1>4. UnitEntry'
  BY <1>1, <1>2 DEF UnitEntry, Marked
<1>5. StageEntry'
  BY <1>1, <1>2, <1>3 DEF StageEntry, Marked
<1>6. OneEntry'
  BY <1>1, <1>2 DEF OneEntry, StageEntry, Marked
<1> QED
  BY <1>4, <1>5, <1>6

LEMMA ActiveStageGone ==
  ASSUME Typed, UnitEntry, StageEntry, OneEntry, NEW k, OnlyGone(k), k \in Depth,
         NEW f \in File, NEW s \in StageId, ~Requiring(k), Ensuring(k), stack[k].unit = f,
         stack[k].arg = s,
         activeStages' = [activeStages EXCEPT ![f] = @ \ {s}], activeUnits' = activeUnits
  PROVE  UnitEntry' /\ StageEntry' /\ OneEntry'
<1>1. \A i : i \in Depth /\ Marked(i) /\ i # k <=> i \in Depth' /\ Marked(i)'
  BY DEF OnlyGone, Marked, Same, Requiring
<1>2. \A i \in Depth : Marked(i) /\ i # k => /\ Requiring(i)' <=> Requiring(i)
                                             /\ Ensuring(i)' <=> Ensuring(i)
                                             /\ stack'[i].unit = stack[i].unit
                                             /\ stack'[i].arg = stack[i].arg
  BY DEF OnlyGone, Same, Requiring
<1>3. \A g \in File : \A t : t \in activeStages'[g] <=> t \in activeStages[g] /\ ~(g = f /\ t = s)
  BY DEF Typed, TypeOK
<1>4. UnitEntry'
  BY <1>1, <1>2 DEF UnitEntry, Marked
<1>5. StageEntry'
  BY <1>1, <1>2, <1>3 DEF StageEntry, OneEntry, Marked
<1>6. OneEntry'
  BY <1>1, <1>2 DEF OneEntry, Marked
<1> QED
  BY <1>4, <1>5, <1>6

(* What the moves of the stack do to the marked calls.                     *)
LEMMA PushMarks ==
  ASSUME Typed, NEW d \in Frame, d.op # "require", d.at = 0 \/ d.op # "ensure",
         stack' = Append(stack, d)
  PROVE  OnlyNew(0) /\ 0 \notin Depth'
<1>1. PICK n \in Nat : n = Len(stack) /\ stack \in Seq(Frame)
  BY StackFacts
<1>2. /\ Len(stack') = n + 1
      /\ \A i \in 1 .. n : stack'[i] = stack[i]
      /\ stack'[n + 1] = d
  BY <1>1, AppendStack
<1>3. Depth' = 1 .. n + 1 /\ Depth = 1 .. n
  BY <1>1, <1>2 DEF Depth
<1>4. \A i \in Depth : i \in Depth' /\ Same(i)
  BY <1>2, <1>3 DEF Same, Ensuring
<1>5. \A i \in Depth' : i \in Depth \/ i = n + 1
  BY <1>3
<1>6. ~Marked(n + 1)'
  BY <1>2 DEF Marked, Requiring, Ensuring
<1>7. \A i \in Depth : Marked(i)' <=> Marked(i)
  BY <1>4 DEF Marked, Same, Requiring
<1> QED
  BY <1>3, <1>4, <1>5, <1>6, <1>7 DEF OnlyNew

LEMMA AdvanceMarks ==
  ASSUME Typed, stack # << >>, stack' = Advance(stack), Top.op # "ensure" \/ Top.at > 0
  PROVE  OnlyNew(0) /\ 0 \notin Depth'
<1>1. PICK n \in Nat : n = Len(stack) /\ stack \in Seq(Frame) /\ n \in Depth /\ Top = stack[n]
                       /\ Top \in Frame
  BY StackFacts DEF Top
<1>2. /\ Len(stack') = n
      /\ \A i \in 1 .. n - 1 : stack'[i] = stack[i]
      /\ stack'[n] = Moved(stack[n])
  BY <1>1, AdvanceStack
<1>3. Depth' = 1 .. n /\ Depth = 1 .. n
  BY <1>1, <1>2 DEF Depth
<1>4. Same(n)
  <2>1. stack[n] \in Frame /\ stack[n].at \in Nat /\ (stack[n].op = "ensure" => stack[n].at > 0)
    BY <1>1, TopFacts
  <2> QED
    BY <1>2, <2>1, MovedFrame DEF Same, Ensuring
<1>5. \A i \in Depth : i \in Depth' /\ Same(i)
  <2> TAKE i \in Depth
  <2>1. i = n \/ i \in 1 .. n - 1
    BY <1>1, <1>3
  <2> QED
    BY <1>2, <1>3, <1>4, <2>1 DEF Same, Ensuring
<1>6. \A i \in Depth : Marked(i)' <=> Marked(i)
  BY <1>5 DEF Marked, Same, Requiring
<1> QED
  BY <1>3, <1>5, <1>6 DEF OnlyNew

(* The call on top is gone, and its caller keeps its mark.                 *)
LEMMA ReturnMarks ==
  ASSUME Typed, stack # << >>, stack' = Return
  PROVE  /\ OnlyGone(Len(stack)) /\ Len(stack) \in Depth
         /\ ~Marked(Len(stack)) => OnlyNew(0) /\ 0 \notin Depth'
<1>1. PICK n \in Nat : Len(stack) = n + 1 /\ stack \in Seq(Frame) /\ n + 1 \in Depth
  <2>1. Len(stack) \in Nat /\ Len(stack) \in 1 .. Len(stack) /\ stack \in Seq(Frame)
    BY StackFacts DEF Depth
  <2>2. Len(stack) - 1 \in Nat /\ Len(stack) = (Len(stack) - 1) + 1
    BY <2>1
  <2> QED
    BY <2>1, <2>2 DEF Depth
<1>2. /\ Len(stack') = n
      /\ \A i \in 1 .. n - 1 : stack'[i] = stack[i]
      /\ n > 0 => stack'[n] = Moved(stack[n])
  BY <1>1, ReturnStack
<1>3. Depth' = 1 .. n /\ Depth = 1 .. n + 1
  BY <1>1, <1>2 DEF Depth
<1>4. n > 0 => Same(n)
  <2> SUFFICES ASSUME n > 0 PROVE Same(n)
    OBVIOUS
  <2>1. n \in 1 .. Len(stack) - 1 /\ n \in Depth
    BY <1>1, <1>3
  <2>2. stack[n] \in Frame /\ Awaits(stack[n], stack[n + 1])
    BY <2>1, StackFacts DEF Typed, Chain
  <2>3. stack[n].op = "ensure" => stack[n].at > 0
    BY <2>2 DEF Awaits
  <2>4. stack[n].at \in Nat
    BY <2>2 DEF Frame
  <2>5. stack'[n] = Moved(stack[n])
    BY <1>2
  <2> QED
    BY <2>2, <2>3, <2>4, <2>5, MovedFrame DEF Same, Ensuring
<1>5. \A i \in Depth' : i \in Depth /\ Same(i) /\ i # n + 1
  <2> TAKE i \in Depth'
  <2>1. (n > 0 /\ i = n) \/ i \in 1 .. n - 1
    BY <1>3
  <2>2. i \in Depth /\ i # n + 1
    BY <1>3
  <2> QED
    BY <1>2, <1>4, <2>1, <2>2 DEF Same, Ensuring
<1>6. \A i \in Depth' : Marked(i)' <=> Marked(i)
  BY <1>5 DEF Marked, Same, Requiring
<1>7. \A i \in Depth : i = n + 1 \/ i \in Depth'
  BY <1>3
<1> QED
  BY <1>1, <1>3, <1>5, <1>6, <1>7 DEF OnlyNew, OnlyGone

LEMMA RequireMarks ==
  ASSUME Typed, NEW f \in File, NEW s \in StageId, NEW r \in DOMAIN RuleBook, Require(f, s, r)
  PROVE  \E k : /\ OnlyNew(k) /\ k \in Depth' /\ k \notin Depth
                /\ Requiring(k)' /\ stack'[k].unit = f /\ ~Ensuring(k)'
<1> DEFINE c == Call("require", f, s, r, 0)
           d == Call("ensure", f, s, r, 0)
<1>1. PICK n \in Nat : n = Len(stack) /\ stack \in Seq(Frame)
  BY StackFacts
<1>2. c \in Frame /\ d \in Frame /\ c.op = "require" /\ c.unit = f /\ d.op = "ensure" /\ d.at = 0
  BY CallType
<1>3. stack' = stack \o <<c, d>>
  BY DEF Require
<1> HIDE DEF c, d
<1>4. /\ Len(stack') = n + 2
      /\ \A i \in 1 .. n : stack'[i] = stack[i]
      /\ stack'[n + 1] = c
      /\ stack'[n + 2] = d
  BY <1>1, <1>2, <1>3, AppendTwo
<1>5. Depth' = 1 .. n + 2 /\ Depth = 1 .. n
  BY <1>1, <1>4 DEF Depth
<1>6. \A i \in Depth : i \in Depth' /\ Same(i)
  BY <1>4, <1>5 DEF Same, Ensuring
<1>7. \A i \in Depth' : i \in Depth \/ i = n + 1 \/ i = n + 2
  BY <1>5
<1>8. ~Marked(n + 2)'
  BY <1>2, <1>4 DEF Marked, Requiring, Ensuring
<1>9. \A i \in Depth : Marked(i)' <=> Marked(i)
  BY <1>6 DEF Marked, Same, Requiring
<1>10. Requiring(n + 1)' /\ stack'[n + 1].unit = f /\ ~Ensuring(n + 1)'
  BY <1>2, <1>4 DEF Requiring, Ensuring
<1>11. OnlyNew(n + 1)
  BY <1>6, <1>7, <1>8, <1>9 DEF OnlyNew
<1>12. n + 1 \in Depth' /\ n + 1 \notin Depth
  BY <1>5
<1> QED
  BY <1>10, <1>11, <1>12

Entries == UnitEntry /\ StageEntry /\ OneEntry

LEMMA EntriesInit == Init => Entries
<1> SUFFICES ASSUME Init PROVE Entries
  OBVIOUS
<1>1. Depth = {}
  <2>1. stack = << >> /\ Len(<< >>) = 0
    BY EmptySeq DEF Init
  <2> QED
    BY <2>1 DEF Depth
<1> QED
  BY <1>1 DEF Init, Entries, UnitEntry, StageEntry, OneEntry

LEMMA EntriesSame ==
  ASSUME Entries, UNCHANGED <<activeUnits, activeStages>>, stack' = stack
  PROVE  Entries'
BY DEF Entries, UnitEntry, StageEntry, OneEntry, Depth, Requiring, Ensuring

LEMMA EntriesRequire ==
  ASSUME Typed, Entries, NEW f \in File, NEW s \in StageId, NEW r \in DOMAIN RuleBook,
         Require(f, s, r), activeStages' = activeStages
  PROVE  Entries'
<1>1. f \notin activeUnits /\ activeUnits' = activeUnits \cup {f}
  BY DEF Require
<1>2. PICK k : /\ OnlyNew(k) /\ k \in Depth' /\ k \notin Depth
               /\ Requiring(k)' /\ stack'[k].unit = f /\ ~Ensuring(k)'
  BY RequireMarks
<1> QED
  BY <1>1, <1>2, ActiveUnitNew DEF Entries

LEMMA EntriesStart ==
  ASSUME Typed, Entries, Start \/ LoadProvider
  PROVE  Entries'
<1>1. CASE Start
  <2>1. request.stage \in StageId /\ request.rules \in DOMAIN RuleBook
    BY RulesAssumption DEF Typed, TypeOK
  <2> QED
    BY <1>1, <2>1, FilesAssumption, EntriesRequire DEF Start
<1>2. CASE LoadProvider
  <2>1. Provider \in File /\ "Check" \in StageId /\ "normal" \in DOMAIN RuleBook
    BY <1>2, ProviderFacts, RulesAssumption DEF LoadProvider, StageId
  <2> QED
    BY <1>2, <2>1, EntriesRequire DEF LoadProvider
<1> QED
  BY <1>1, <1>2

LEMMA EntriesPush ==
  ASSUME Typed, Entries, EnsureDependency \/ RunResolver \/ ImportKnown
  PROVE  Entries'
<1>1. UNCHANGED <<activeUnits, activeStages>>
  BY DEF EnsureDependency, RunResolver, ImportKnown, GoTo, pipe
<1>2. CASE EnsureDependency
  <2> DEFINE d == Call("ensure", Top.unit, Rule[Top.at], Top.rules, 0)
  <2>1. stack' = Append(stack, d) /\ d.op = "ensure" /\ d.at = 0
    BY <1>2 DEF EnsureDependency, GoTo, Call
  <2>2. d \in Frame
    <3>1. /\ stack # << >> /\ Top.op = "ensure" /\ Top.at > 0 /\ Top.at <= Len(Rule)
      BY <1>2 DEF EnsureDependency, In
    <3>2. Top.unit \in File /\ Top.rules \in DOMAIN RuleBook /\ Top.at \in Nat /\ Rule \in Seq(StageId)
      BY <3>1, TopFacts
    <3>3. Rule[Top.at] \in StageId
      BY <3>1, <3>2, ElementOfSeq
    <3> QED
      BY <3>2, <3>3, CallType
  <2> HIDE DEF d
  <2> QED
    BY <1>1, <2>1, <2>2, PushMarks, ActiveSame DEF Entries
<1>3. CASE RunResolver
  <2> DEFINE d == Call("resolve", Top.unit, "Resolver", Top.rules, 1)
  <2>1. stack' = Append(stack, d) /\ d.op = "resolve"
    BY <1>3 DEF RunResolver, GoTo, Call
  <2>2. d \in Frame
    BY <1>3, TopFacts, CallType DEF RunResolver, AtRun, In, StageId
  <2> HIDE DEF d
  <2> QED
    BY <1>1, <2>1, <2>2, PushMarks, ActiveSame DEF Entries
<1>4. CASE ImportKnown
  <2> DEFINE d == Call("load", Top.unit, ImportName, "normal", 1)
  <2>1. stack' = Append(stack, d) /\ d.op = "load"
    BY <1>4 DEF ImportKnown, GoTo, Call
  <2>2. d \in Frame
    <3>1. ImportName \in Module /\ "normal" \in DOMAIN RuleBook /\ stack # << >>
      BY <1>4, RulesAssumption DEF ImportKnown, Typed, TypeOK, In
    <3> QED
      BY <3>1, TopFacts, CallType
  <2> HIDE DEF d
  <2> QED
    BY <1>1, <2>1, <2>2, PushMarks, ActiveSame DEF Entries
<1> QED
  BY <1>2, <1>3, <1>4

LEMMA EntriesAdvance ==
  ASSUME Typed, Entries, ResolveOther \/ ImportUnknown \/ RunStage
  PROVE  Entries'
<1>1. /\ stack # << >> /\ stack' = Advance(stack)
      /\ Top.op # "ensure" \/ Top.at > 0
      /\ UNCHANGED <<activeUnits, activeStages>>
  BY DEF ResolveOther, ImportUnknown, RunStage, AtRun, In, GoTo, pipe
<1> QED
  BY <1>1, AdvanceMarks, ActiveSame DEF Entries

LEMMA EntriesEnter ==
  ASSUME Typed, Entries, EnsureEnter
  PROVE  Entries'
<1>1. /\ stack # << >> /\ Top.op = "ensure" /\ Top.at = 0 /\ stack' = Advance(stack)
      /\ Top.arg \notin activeStages[Top.unit]
      /\ activeStages' = [activeStages EXCEPT ![Top.unit] = @ \cup {Top.arg}]
      /\ activeUnits' = activeUnits
  BY DEF EnsureEnter, In
<1>2. PICK n \in Nat : n = Len(stack) /\ stack \in Seq(Frame) /\ n \in Depth /\ Top = stack[n]
                       /\ Top \in Frame
  BY <1>1, StackFacts DEF Top
<1>3. Top.unit \in File /\ Top.arg \in StageId
  BY <1>1, TopFacts DEF FrameOK
<1>4. /\ Len(stack') = n
      /\ \A i \in 1 .. n - 1 : stack'[i] = stack[i]
      /\ stack'[n] = Moved(stack[n])
  BY <1>1, <1>2, AdvanceStack
<1>5. Depth' = 1 .. n /\ Depth = 1 .. n
  BY <1>2, <1>4 DEF Depth
<1>6. stack'[n].op = "ensure" /\ stack'[n].unit = Top.unit /\ stack'[n].arg = Top.arg
      /\ stack'[n].at = 1
  BY <1>1, <1>2, <1>4, MovedFrame
<1>7. ~Marked(n) /\ ~Requiring(n)' /\ Ensuring(n)'
  BY <1>1, <1>2, <1>6 DEF Marked, Requiring, Ensuring
<1>8. \A i \in Depth : i # n => i \in Depth' /\ Same(i)
  <2> TAKE i \in Depth
  <2>1. i # n => i \in 1 .. n - 1
    BY <1>2, <1>5
  <2> QED
    BY <1>4, <1>5, <2>1 DEF Same, Ensuring
<1>9. \A i \in Depth : i # n => (Marked(i)' <=> Marked(i))
  BY <1>8 DEF Marked, Same, Requiring
<1>10. OnlyNew(n)
  BY <1>5, <1>7, <1>8, <1>9 DEF OnlyNew
<1> QED
  BY <1>1, <1>2, <1>3, <1>5, <1>6, <1>7, <1>10, ActiveStageNew DEF Entries

LEMMA EntriesReturn ==
  ASSUME Typed, Entries, EnsureCompleted \/ ResolveReturn \/ LoadReturn
  PROVE  Entries'
<1>1. /\ stack # << >> /\ stack' = Return
      /\ Top.op \in {"ensure", "resolve", "load"} /\ (Top.op = "ensure" => Top.at = 0)
      /\ UNCHANGED <<activeUnits, activeStages>>
  BY DEF EnsureCompleted, ResolveReturn, LoadReturn, In, GoTo, pipe
<1>2. ~Marked(Len(stack))
  BY <1>1 DEF Marked, Requiring, Ensuring, Top
<1> QED
  BY <1>1, <1>2, ReturnMarks, ActiveSame DEF Entries

LEMMA EntriesRequireReturn ==
  ASSUME Typed, Entries, RequireReturn
  PROVE  Entries'
<1>1. /\ stack # << >> /\ stack' = Return /\ Top.op = "require"
      /\ activeUnits' = activeUnits \ {Top.unit} /\ activeStages' = activeStages
  BY DEF RequireReturn, In
<1>2. Top.unit \in File
  BY <1>1, TopFacts
<1>3. Requiring(Len(stack)) /\ ~Ensuring(Len(stack)) /\ stack[Len(stack)].unit = Top.unit
  BY <1>1 DEF Requiring, Ensuring, Top
<1> QED
  BY <1>1, <1>2, <1>3, ReturnMarks, ActiveUnitGone DEF Entries

LEMMA EntriesEnsureReturn ==
  ASSUME Typed, Entries, EnsureReturn
  PROVE  Entries'
<1>1. /\ stack # << >> /\ stack' = Return /\ Top.op = "ensure" /\ Top.at > 0
      /\ activeStages' = [activeStages EXCEPT ![Top.unit] = @ \ {Top.arg}]
      /\ activeUnits' = activeUnits
  BY DEF EnsureReturn, In
<1>2. Top.unit \in File /\ Top.arg \in StageId
  BY <1>1, TopFacts DEF FrameOK
<1>3. ~Requiring(Len(stack)) /\ Ensuring(Len(stack))
      /\ stack[Len(stack)].unit = Top.unit /\ stack[Len(stack)].arg = Top.arg
  BY <1>1 DEF Requiring, Ensuring, Top
<1> QED
  BY <1>1, <1>2, <1>3, ReturnMarks, ActiveStageGone DEF Entries

LEMMA EntriesStep ==
  ASSUME Typed, Entries, [Next]_vars
  PROVE  Entries'
<1>1. CASE (\E f \in File : IndexFile(f)) \/ Ends \/ (\E f \in File, t \in Edits : Edit(f, t))
           \/ UNCHANGED vars
  <2>1. UNCHANGED <<activeUnits, activeStages>> /\ stack' = stack
    BY <1>1, EndsFacts DEF IndexFile, Edit, vars, pipe
  <2> QED
    BY <2>1, EntriesSame
<1>2. CASE Start \/ LoadProvider
  BY <1>2, EntriesStart
<1>3. CASE RequireReturn
  BY <1>3, EntriesRequireReturn
<1>4. CASE EnsureEnter
  BY <1>4, EntriesEnter
<1>5. CASE EnsureReturn
  BY <1>5, EntriesEnsureReturn
<1>6. CASE EnsureDependency \/ RunResolver \/ ImportKnown
  BY <1>6, EntriesPush
<1>7. CASE ResolveOther \/ ImportUnknown \/ RunStage
  BY <1>7, EntriesAdvance
<1>8. CASE EnsureCompleted \/ ResolveReturn \/ LoadReturn
  BY <1>8, EntriesReturn
<1> QED
  BY <1>1, <1>2, <1>3, <1>4, <1>5, <1>6, <1>7, <1>8
  DEF Next, Compile, Index, Ensure, Resolve, Load, Ends, Terminated

(* At every moment active_units_ and active_stages_ hold exactly one entry *)
(* for each require() and ensure() in progress: neither guard ever reports *)
(* a cycle because of an entry that a finished call left behind.           *)
THEOREM ActiveSetsAreTheStack == Spec => []ActiveIsStack
<1>1. Init => Typed /\ Entries
  BY TypedInit, EntriesInit
<1>2. Typed /\ Entries /\ [Next]_vars => Typed' /\ Entries'
  BY TypedStep, EntriesStep
<1>3. Typed /\ Entries => ActiveIsStack
  BY EntriesAreActive DEF Entries
<1> QED
  BY <1>1, <1>2, <1>3, PTL DEF Spec

-----------------------------------------------------------------------------
(* What the calls in progress have achieved.                               *)

(* A step that takes nothing back: stages stay complete, and a parsed unit *)
(* keeps its root.                                                         *)
Grows == /\ Kept
         /\ \A f \in File : completed[f] \subseteq completed'[f]
         /\ rooted \subseteq rooted'

LEMMA UnitTexts ==
  ASSUME Typed
  PROVE  \A f \in Elements(units) :
           /\ f \in File
           /\ source[f] \in Seq(Item)
           /\ ImportsOf(source[f]) \subseteq Module
           /\ \A j \in DOMAIN source[f] : source[f][j].name \in Module
<1> TAKE f \in Elements(units)
<1>1. f \in File
  <2>1. units \in Seq(File)
    BY DEF Typed, TypeOK
  <2> QED
    BY <2>1, ElementOfSeq, LenProperties DEF Elements
<1>2. source[f] \in Seq(Item)
  BY <1>1 DEF Typed, TypeOK, Loaded, Text
<1>3. \A j \in DOMAIN source[f] : source[f][j].name \in Module
  <2> TAKE j \in DOMAIN source[f]
  <2>1. source[f][j] \in Item
    BY <1>2, ElementOfSeq, LenProperties
  <2> QED
    BY <2>1 DEF Item
<1>4. ImportsOf(source[f]) \subseteq Module
  BY <1>3 DEF ImportsOf
<1> QED
  BY <1>1, <1>2, <1>3, <1>4

LEMMA CheckedKept ==
  ASSUME Typed, Grows
  PROVE  \A m \in Module : Checked(m) => Checked(m)'
<1> TAKE m \in Module
<1>1. providers[m] \in Seq(File)
  BY DEF Typed, TypeOK
<1>2. \A f \in Elements(providers[m]) : f \in File
  BY <1>1, ElementOfSeq, LenProperties DEF Elements
<1>3. Elements(providers[m])' = Elements(providers[m])
  BY DEF Grows, Kept, Elements
<1> QED
  BY <1>2, <1>3 DEF Checked, Grows

LEMMA AchievedKept ==
  ASSUME Typed, Grows
  PROVE  \A c \in Frame :
           c.unit \in Elements(units) /\ FrameOK(c) /\ Achieved(c) => Achieved(c)'
<1> SUFFICES ASSUME NEW c \in Frame, c.unit \in Elements(units), FrameOK(c), Achieved(c)
             PROVE  Achieved(c)'
  OBVIOUS
<1>1. c.unit \in File /\ source'[c.unit] = source[c.unit]
  BY UnitTexts DEF Grows, Kept
<1>2. (c.op = "require" /\ c.at > 0 => c.arg \in completed[c.unit])'
  BY <1>1 DEF Achieved, Grows
<1>3. (c.op = "ensure" /\ c.at > 0 =>
       /\ \A j \in 1 .. Len(RuleOf(c)) : j < c.at => RuleOf(c)[j] \in completed[c.unit]
       /\ c.at = Len(RuleOf(c)) + 2 =>
            /\ c.arg = "Parser" /\ Parses(source[c.unit]) => c.unit \in rooted
            /\ c.arg = "Resolver" => \A m \in ImportsOf(source[c.unit]) : Checked(m))'
  <2>1. c.op = "ensure" /\ c.at > 0 =>
          \A j \in 1 .. Len(RuleOf(c)) : j < c.at => RuleOf(c)[j] \in completed'[c.unit]
    BY <1>1 DEF Achieved, Grows
  <2>2. c.op = "ensure" /\ c.at > 0 /\ c.at = Len(RuleOf(c)) + 2 =>
          (c.arg = "Parser" /\ Parses(source'[c.unit]) => c.unit \in rooted')
    BY <1>1 DEF Achieved, Grows
  <2>3. c.op = "ensure" /\ c.at > 0 /\ c.at = Len(RuleOf(c)) + 2 /\ c.arg = "Resolver" =>
          \A m \in ImportsOf(source'[c.unit]) : Checked(m)'
    BY <1>1, UnitTexts, CheckedKept DEF Achieved
  <2>4. RuleOf(c)' = RuleOf(c) /\ Parses(source[c.unit])' = Parses(source'[c.unit])
        /\ ImportsOf(source[c.unit])' = ImportsOf(source'[c.unit])
    BY DEF RuleOf, Parses, ImportsOf, IsImport, Abandoned
  <2> QED
    BY <2>1, <2>2, <2>3, <2>4
<1>4. (c.op = "resolve" =>
       \A j \in DOMAIN source[c.unit] :
         j < c.at /\ IsImport(source[c.unit], j) => Checked(source[c.unit][j].name))'
  <2>1. \A j : IsImport(source[c.unit], j)' = IsImport(source[c.unit], j)
    BY <1>1 DEF IsImport, Parses, Abandoned
  <2> QED
    BY <1>1, <2>1, UnitTexts, CheckedKept DEF Achieved
<1>5. (c.op = "load" =>
       \A j \in DOMAIN providers[c.arg] :
         j < c.at => "Check" \in completed[providers[c.arg][j]])'
  <2> SUFFICES ASSUME c.op = "load", NEW j \in DOMAIN providers[c.arg], j < c.at
               PROVE  "Check" \in completed'[providers[c.arg][j]]
    BY DEF Grows, Kept
  <2>1. c.arg \in Module
    BY DEF FrameOK
  <2>2. providers[c.arg] \in Seq(File)
    BY <2>1 DEF Typed, TypeOK
  <2>3. providers[c.arg][j] \in File
    BY <2>2, ElementOfSeq, LenProperties
  <2> QED
    BY <2>3 DEF Achieved, Grows
<1> QED
  BY <1>2, <1>3, <1>4, <1>5 DEF Achieved

(* The part of Progress that is about the stack, and the rest.             *)
Calls ==
  /\ \A i \in Depth : Achieved(stack[i])
  /\ stack # << >> /\ Top.op = "require" => Top.at > 0

Facts ==
  /\ \A m \in Module : providers[m] # << >> => m \in registered
  /\ \A f \in rooted : Parses(source[f])
  /\ \A f \in File : "Parser" \in completed[f] /\ Parses(source[f]) => f \in rooted
  /\ DependenciesFirst
  /\ ImportsChecked

LEMMA UsesKept ==
  ASSUME Kept
  PROVE  \A f \in Elements(units) : Uses(f)' = Uses(f)
<1> TAKE f \in Elements(units)
<1>1. f \in Elements(units') /\ source'[f] = source[f] /\ providers' = providers
  BY DEF Kept
<1>2. Elements(units)' = Elements(units')
  BY DEF Elements
<1>3. ImportsOf(source[f])' = ImportsOf(source[f])
  BY <1>1 DEF ImportsOf, IsImport, Parses, Abandoned
<1>4. \A m : Elements(providers[m])' = Elements(providers[m])
  BY <1>1 DEF Elements
<1> QED
  BY <1>1, <1>2, <1>3, <1>4 DEF Uses

LEMMA FactsKept ==
  ASSUME Typed, Facts, Grows, UNCHANGED <<completed, activeStages, rooted>>,
         registered \subseteq registered'
  PROVE  Facts'
<1>1. \A f \in File : completed[f] # {} => f \in Elements(units)
  BY DEF Typed, Loaded
<1>2. (\A m \in Module : providers[m] # << >> => m \in registered)'
  BY DEF Facts, Grows, Kept
<1>3. (\A f \in rooted : Parses(source[f]))'
  <2>1. \A f \in rooted : source'[f] = source[f]
    BY DEF Typed, Loaded, Grows, Kept
  <2> QED
    BY <2>1 DEF Facts, Parses
<1>4. (\A f \in File : "Parser" \in completed[f] /\ Parses(source[f]) => f \in rooted)'
  <2>1. \A f \in File : "Parser" \in completed[f] => source'[f] = source[f]
    BY <1>1 DEF Grows, Kept
  <2> QED
    BY <2>1 DEF Facts, Parses
<1>5. DependenciesFirst'
  BY DEF Facts, DependenciesFirst, Elements
<1>6. ImportsChecked'
  <2>1. \A f \in File : "Resolver" \in completed[f] => Uses(f)' = Uses(f)
    BY <1>1, UsesKept DEF Grows
  <2> QED
    BY <2>1 DEF Facts, ImportsChecked
<1> QED
  BY <1>2, <1>3, <1>4, <1>5, <1>6 DEF Facts

LEMMA CallsPush ==
  ASSUME Typed, Calls, Grows, NEW d \in Frame, d.op # "require", Achieved(d)',
         stack' = Append(stack, d)
  PROVE  Calls'
<1>1. PICK n \in Nat : n = Len(stack) /\ stack \in Seq(Frame)
                       /\ \A i \in Depth : /\ stack[i] \in Frame /\ FrameOK(stack[i])
                                           /\ stack[i].unit \in Elements(units)
  BY StackFacts DEF Typed, Loaded
<1>2. /\ Len(stack') = n + 1
      /\ \A i \in 1 .. n : stack'[i] = stack[i]
      /\ stack'[n + 1] = d
  BY <1>1, AppendStack
<1>3. Depth' = 1 .. n + 1 /\ Depth = 1 .. n
  BY <1>1, <1>2 DEF Depth
<1>4. \A i \in 1 .. n : Achieved(stack[i])'
  <2> TAKE i \in 1 .. n
  <2>1. Achieved(stack[i]) /\ stack[i] \in Frame /\ FrameOK(stack[i])
        /\ stack[i].unit \in Elements(units) /\ stack'[i] = stack[i]
    BY <1>1, <1>2, <1>3 DEF Calls
  <2> QED
    BY <2>1, AchievedKept
<1>5. Achieved(stack[n + 1])'
  BY <1>2
<1>6. Top' = d
  BY <1>2 DEF Top
<1>7. \A i \in 1 .. n + 1 : i \in 1 .. n \/ i = n + 1
  BY <1>1
<1>8. (\A i \in Depth : Achieved(stack[i]))'
  BY <1>3, <1>4, <1>5, <1>7
<1> QED
  BY <1>6, <1>8 DEF Calls

LEMMA CallsAdvance ==
  ASSUME Typed, Calls, Grows, stack # << >>, stack' = Advance(stack),
         \A c \in Frame : c = Moved(Top) => Achieved(c)'
  PROVE  Calls'
<1>1. PICK n \in Nat : /\ n = Len(stack) /\ stack \in Seq(Frame) /\ n \in Depth
                       /\ Top = stack[n] /\ Top \in Frame
                       /\ \A i \in Depth : /\ stack[i] \in Frame /\ FrameOK(stack[i])
                                           /\ stack[i].unit \in Elements(units)
  BY StackFacts DEF Typed, Loaded, Top
<1>2. /\ Len(stack') = n
      /\ \A i \in 1 .. n - 1 : stack'[i] = stack[i]
      /\ stack'[n] = Moved(stack[n])
  BY <1>1, AdvanceStack
<1>3. Depth' = 1 .. n /\ Depth = 1 .. n
  BY <1>1, <1>2 DEF Depth
<1>4. \A i \in 1 .. n - 1 : Achieved(stack[i])'
  <2> TAKE i \in 1 .. n - 1
  <2>1. i \in Depth
    BY <1>1, <1>3
  <2>2. Achieved(stack[i]) /\ stack[i] \in Frame /\ FrameOK(stack[i])
        /\ stack[i].unit \in Elements(units) /\ stack'[i] = stack[i]
    BY <1>1, <1>2, <2>1 DEF Calls
  <2> QED
    BY <2>2, AchievedKept
<1>5. Achieved(stack[n])'
  BY <1>1, <1>2, MovedFrame
<1>6. Top'.at > 0
  <2>1. Top' = Moved(Top) /\ Top.at \in Nat
    BY <1>1, <1>2, TopFacts DEF Top
  <2> QED
    BY <1>1, <2>1, MovedFrame
<1>7. \A i \in 1 .. n : i \in 1 .. n - 1 \/ i = n
  BY <1>1
<1>8. (\A i \in Depth : Achieved(stack[i]))'
  BY <1>3, <1>4, <1>5, <1>7
<1> QED
  BY <1>6, <1>8 DEF Calls

LEMMA CallsReturn ==
  ASSUME Typed, Calls, Grows, NEW n \in Nat, Len(stack) = n + 1, stack' = Return,
         \A c \in Frame : n > 0 /\ c = Moved(stack[n]) => Achieved(c)'
  PROVE  Calls'
<1>1. /\ stack \in Seq(Frame)
      /\ \A i \in Depth : /\ stack[i] \in Frame /\ FrameOK(stack[i])
                          /\ stack[i].unit \in Elements(units)
  BY StackFacts DEF Typed, Loaded
<1>2. /\ Len(stack') = n
      /\ \A i \in 1 .. n - 1 : stack'[i] = stack[i]
      /\ n > 0 => stack'[n] = Moved(stack[n])
  BY <1>1, ReturnStack
<1>3. Depth' = 1 .. n /\ Depth = 1 .. n + 1
  BY <1>2 DEF Depth
<1>4. \A i \in 1 .. n - 1 : Achieved(stack[i])'
  <2> TAKE i \in 1 .. n - 1
  <2>1. i \in Depth
    BY <1>3
  <2>2. Achieved(stack[i]) /\ stack[i] \in Frame /\ FrameOK(stack[i])
        /\ stack[i].unit \in Elements(units) /\ stack'[i] = stack[i]
    BY <1>1, <1>2, <2>1 DEF Calls
  <2> QED
    BY <2>2, AchievedKept
<1>5. n > 0 => Achieved(stack[n])' /\ Top'.at > 0
  <2> SUFFICES ASSUME n > 0 PROVE Achieved(stack[n])' /\ Top'.at > 0
    OBVIOUS
  <2>1. stack[n] \in Frame /\ stack'[n] = Moved(stack[n])
    BY <1>1, <1>2, <1>3
  <2>2. Moved(stack[n]) \in Frame /\ Moved(stack[n]).at = stack[n].at + 1 /\ stack[n].at \in Nat
    BY <2>1, MovedFrame DEF Frame
  <2>3. Achieved(stack[n])'
    BY <2>1, <2>2
  <2>4. Top' = Moved(stack[n])
    BY <1>2, <2>1 DEF Top
  <2> QED
    BY <2>2, <2>3, <2>4
<1>6. stack' # << >> => n > 0
  BY <1>2
<1>7. \A i \in 1 .. n : i \in 1 .. n - 1 \/ (n > 0 /\ i = n)
  OBVIOUS
<1>8. (\A i \in Depth : Achieved(stack[i]))'
  BY <1>3, <1>4, <1>5, <1>7
<1> QED
  BY <1>5, <1>6, <1>8 DEF Calls

LEMMA CallsRequire ==
  ASSUME Typed, Calls, Grows, NEW f \in File, NEW s \in StageId, NEW r \in DOMAIN RuleBook,
         Require(f, s, r)
  PROVE  Calls'
<1> DEFINE c == Call("require", f, s, r, 0)
           d == Call("ensure", f, s, r, 0)
<1>1. PICK n \in Nat : n = Len(stack) /\ stack \in Seq(Frame)
                       /\ \A i \in Depth : /\ stack[i] \in Frame /\ FrameOK(stack[i])
                                           /\ stack[i].unit \in Elements(units)
  BY StackFacts DEF Typed, Loaded
<1>2. /\ c \in Frame /\ c.op = "require" /\ c.at = 0
      /\ d \in Frame /\ d.op = "ensure" /\ d.at = 0
  BY CallType
<1>3. stack' = stack \o <<c, d>>
  BY DEF Require
<1> HIDE DEF c, d
<1>4. /\ Len(stack') = n + 2
      /\ \A i \in 1 .. n : stack'[i] = stack[i]
      /\ stack'[n + 1] = c
      /\ stack'[n + 2] = d
  BY <1>1, <1>2, <1>3, AppendTwo
<1>5. Depth' = 1 .. n + 2 /\ Depth = 1 .. n
  BY <1>1, <1>4 DEF Depth
<1>6. \A i \in 1 .. n : Achieved(stack[i])'
  <2> TAKE i \in 1 .. n
  <2>1. Achieved(stack[i]) /\ stack[i] \in Frame /\ FrameOK(stack[i])
        /\ stack[i].unit \in Elements(units) /\ stack'[i] = stack[i]
    BY <1>1, <1>4, <1>5 DEF Calls
  <2> QED
    BY <2>1, AchievedKept
<1>7. Achieved(stack[n + 1])' /\ Achieved(stack[n + 2])'
  BY <1>2, <1>4 DEF Achieved
<1>8. Top'.op = "ensure"
  BY <1>2, <1>4 DEF Top
<1>9. \A i \in 1 .. n + 2 : i \in 1 .. n \/ i = n + 1 \/ i = n + 2
  BY <1>1
<1>10. (\A i \in Depth : Achieved(stack[i]))'
  BY <1>5, <1>6, <1>7, <1>9
<1> QED
  BY <1>8, <1>10 DEF Calls

Built == Calls /\ Facts

LEMMA BuiltInit == Init => Built
<1> SUFFICES ASSUME Init PROVE Built
  OBVIOUS
<1>1. stack = << >> /\ Depth = {}
  <2>1. stack = << >> /\ Len(<< >>) = 0
    BY EmptySeq DEF Init
  <2> QED
    BY <2>1 DEF Depth
<1>2. Calls
  BY <1>1 DEF Calls
<1>3. \A f \in File : completed[f] = {}
  BY DEF Init
<1>4. DependenciesFirst /\ ImportsChecked
  BY <1>3 DEF DependenciesFirst, ImportsChecked
<1>5. Facts
  BY <1>3, <1>4 DEF Facts, Init
<1> QED
  BY <1>2, <1>5 DEF Built

(* Steps that leave the stages and the roots alone take nothing back.      *)
LEMMA GrowsGoTo ==
  ASSUME Typed, Kept, UNCHANGED <<completed, rooted>>
  PROVE  Grows
BY DEF Grows

LEMMA BuiltIndexFile ==
  ASSUME Typed, Built, NEW f \in File, IndexFile(f)
  PROVE  Built'
<1>1. units = << >> /\ Elements(units) = {}
  BY DEF IndexFile, Typed, Loaded, Elements
<1>2. Depth = {} /\ stack = << >>
  <2>1. stack = << >> /\ Len(<< >>) = 0
    BY <1>1, StackFacts, EmptySeq
  <2> QED
    BY <2>1 DEF Depth
<1>3. \A g \in File : completed'[g] = {}
  BY <1>1 DEF Typed, Loaded, IndexFile, pipe
<1>4. rooted' = {}
  BY <1>1 DEF Typed, Loaded, IndexFile
<1>5. (\A m \in Module : providers[m] # << >> => m \in registered)'
  <2> SUFFICES ASSUME NEW m \in Module, providers'[m] # << >>
               PROVE  m \in registered'
    OBVIOUS
  <2>1. providers[m] # << >> \/ m \in Declared(disk[f])
    BY DEF IndexFile, Typed, TypeOK
  <2> QED
    BY <2>1 DEF Built, Facts, IndexFile
<1>6. DependenciesFirst' /\ ImportsChecked'
  BY <1>3 DEF DependenciesFirst, ImportsChecked
<1>7. Facts'
  BY <1>3, <1>4, <1>5, <1>6 DEF Facts
<1>8. Calls'
  BY <1>2 DEF IndexFile, Calls, Depth
<1> QED
  BY <1>7, <1>8 DEF Built

LEMMA BuiltSame ==
  ASSUME Typed, Built, Grows, UNCHANGED <<completed, activeStages, rooted, registered, stack>>
  PROVE  Built'
<1>1. Facts'
  BY FactsKept DEF Built
<1>2. Calls'
  <2>1. \A i \in Depth : /\ stack[i] \in Frame /\ FrameOK(stack[i])
                         /\ stack[i].unit \in Elements(units) /\ Achieved(stack[i])
    BY StackFacts DEF Typed, Loaded, Built, Calls
  <2>2. Depth' = Depth
    BY DEF Depth
  <2>3. \A i \in Depth : Achieved(stack[i])'
    BY <2>1, AchievedKept
  <2>4. (\A i \in Depth : Achieved(stack[i]))'
    BY <2>2, <2>3
  <2> QED
    BY <2>4 DEF Built, Calls, Top
<1> QED
  BY <1>1, <1>2 DEF Built

LEMMA BuiltRequire ==
  ASSUME Typed, Built, Start \/ LoadProvider
  PROVE  Built'
<1>1. Kept /\ UNCHANGED <<completed, activeStages, rooted, registered>>
  BY TypedStart, TypedLoadProvider DEF Start, LoadProvider
<1>2. Grows
  BY <1>1 DEF Grows
<1>3. Facts'
  BY <1>1, <1>2, FactsKept DEF Built
<1>4. Calls'
  <2>1. CASE Start
    <3>1. request.stage \in StageId /\ request.rules \in DOMAIN RuleBook
      BY RulesAssumption DEF Typed, TypeOK
    <3> QED
      BY <1>2, <2>1, <3>1, FilesAssumption, CallsRequire DEF Start, Built
  <2>2. CASE LoadProvider
    <3>1. Provider \in File /\ "Check" \in StageId /\ "normal" \in DOMAIN RuleBook
      BY <2>2, ProviderFacts, RulesAssumption DEF LoadProvider, StageId
    <3> QED
      BY <1>2, <2>2, <3>1, CallsRequire DEF LoadProvider, Built
  <2> QED
    BY <2>1, <2>2
<1> QED
  BY <1>3, <1>4 DEF Built

LEMMA BuiltPush ==
  ASSUME Typed, Built, NEW d \in Frame, Kept, GoTo(Append(stack, d)), d.op # "require",
         Achieved(d)'
  PROVE  Built'
<1>1. Grows /\ UNCHANGED <<completed, activeStages, rooted, registered>> /\ stack' = Append(stack, d)
  BY DEF Grows, GoTo, pipe
<1> QED
  BY <1>1, CallsPush, FactsKept DEF Built

LEMMA BuiltDependency ==
  ASSUME Typed, Built, EnsureDependency
  PROVE  Built'
<1> DEFINE d == Call("ensure", Top.unit, Rule[Top.at], Top.rules, 0)
<1>1. Kept /\ GoTo(Append(stack, d)) /\ d.op = "ensure" /\ d.at = 0
  BY TypedEnsureDependency DEF EnsureDependency, Call
<1>2. d \in Frame
  <2>1. /\ stack # << >> /\ Top.op = "ensure" /\ Top.at > 0 /\ Top.at <= Len(Rule)
    BY DEF EnsureDependency, In
  <2>2. Top.unit \in File /\ Top.rules \in DOMAIN RuleBook /\ Top.at \in Nat /\ Rule \in Seq(StageId)
    BY <2>1, TopFacts
  <2>3. Rule[Top.at] \in StageId
    BY <2>1, <2>2, ElementOfSeq
  <2> QED
    BY <2>2, <2>3, CallType
<1> HIDE DEF d
<1>3. \A c \in Frame : c.op = "ensure" /\ c.at = 0 => Achieved(c)'
  BY DEF Achieved
<1> QED
  BY <1>1, <1>2, <1>3, BuiltPush

LEMMA BuiltRunResolver ==
  ASSUME Typed, Built, RunResolver
  PROVE  Built'
<1> DEFINE d == Call("resolve", Top.unit, "Resolver", Top.rules, 1)
<1>1. Kept /\ GoTo(Append(stack, d)) /\ d.op = "resolve" /\ d.at = 1 /\ d.unit = Top.unit
  BY TypedRunResolver DEF RunResolver, Call
<1>2. stack # << >>
  BY DEF RunResolver, AtRun, In
<1>3. d \in Frame
  BY <1>2, TopFacts, CallType DEF StageId
<1>4. d.unit \in Elements(units)
  BY <1>1, <1>2, TopFacts
<1> HIDE DEF d
<1>5. \A c \in Frame : c.op = "resolve" /\ c.at = 1 /\ c.unit \in Elements(units) => Achieved(c)'
  <2> TAKE c \in Frame
  <2> HAVE c.op = "resolve" /\ c.at = 1 /\ c.unit \in Elements(units)
  <2>1. source'[c.unit] = source[c.unit] /\ source[c.unit] \in Seq(Item)
    BY <1>1, UnitTexts DEF Kept
  <2>2. \A j \in DOMAIN source'[c.unit] : ~(j < c.at)
    BY <2>1, LenProperties
  <2> QED
    BY <2>2 DEF Achieved
<1> QED
  BY <1>1, <1>3, <1>4, <1>5, BuiltPush

LEMMA BuiltImportKnown ==
  ASSUME Typed, Built, ImportKnown
  PROVE  Built'
<1> DEFINE d == Call("load", Top.unit, ImportName, "normal", 1)
<1>1. Kept /\ GoTo(Append(stack, d)) /\ d.op = "load" /\ d.at = 1 /\ d.arg = ImportName
  BY TypedImportKnown DEF ImportKnown, Call
<1>2. ImportName \in Module /\ "normal" \in DOMAIN RuleBook /\ stack # << >>
  BY RulesAssumption DEF ImportKnown, Typed, TypeOK, In
<1>3. d \in Frame
  BY <1>2, TopFacts, CallType
<1>4. d.arg \in Module
  BY <1>1, <1>2
<1> HIDE DEF d
<1>5. \A c \in Frame : c.op = "load" /\ c.at = 1 /\ c.arg \in Module => Achieved(c)'
  <2> TAKE c \in Frame
  <2> HAVE c.op = "load" /\ c.at = 1 /\ c.arg \in Module
  <2>1. providers'[c.arg] \in Seq(File)
    BY <1>1 DEF Kept, Typed, TypeOK
  <2>2. \A j \in DOMAIN providers'[c.arg] : ~(j < c.at)
    BY <2>1, LenProperties
  <2> QED
    BY <2>2 DEF Achieved
<1> QED
  BY <1>1, <1>3, <1>4, <1>5, BuiltPush

(* The top of the stack, in the invariant.                                 *)
LEMMA TopAchieved ==
  ASSUME Typed, Built, stack # << >>
  PROVE  Achieved(Top)
BY StackFacts DEF Built, Calls, Top

LEMMA BuiltResolveNext ==
  ASSUME Typed, Built, ResolveOther \/ ImportUnknown
  PROVE  Built'
<1>1. /\ stack # << >> /\ Top.op = "resolve" /\ GoTo(Advance(stack)) /\ stack' = Advance(stack)
      /\ UNCHANGED <<completed, activeStages, rooted, registered>>
  BY DEF ResolveOther, ImportUnknown, In, GoTo, pipe
<1>2. Kept /\ Grows
  BY <1>1, TypedResolveNext DEF Grows
<1>3. \A c \in Frame : c = Moved(Top) => Achieved(c)'
  <2> SUFFICES ASSUME NEW c \in Frame, c = Moved(Top) PROVE Achieved(c)'
    OBVIOUS
  <2> DEFINE u == Top.unit
             k == Top.at
  <2>1. /\ c.op = "resolve" /\ c.unit = u /\ c.at = k + 1 /\ k \in Nat
        /\ u \in Elements(units) /\ Top \in Frame
    BY <1>1, TopFacts, MovedFrame
  <2>2. /\ source'[u] = source[u]
        /\ source[u] \in Seq(Item)
        /\ \A j \in DOMAIN source[u] : source[u][j].name \in Module
    BY <1>2, <2>1, UnitTexts DEF Kept
  <2>3. \A j \in DOMAIN source[u] :
          j < k /\ IsImport(source[u], j) => Checked(source[u][j].name)
    BY <1>1, TopAchieved DEF Achieved
  <2>4. ASSUME k \in DOMAIN source[u], IsImport(source[u], k)
        PROVE  Checked(source[u][k].name)
    <3>1. CASE ResolveOther
      BY <2>4, <3>1 DEF ResolveOther, Imports
    <3>2. CASE ImportUnknown
      <4>1. source[u][k].name \notin registered /\ source[u][k].name \in Module
        BY <2>2, <2>4, <3>2 DEF ImportUnknown, ImportName
      <4>2. providers[source[u][k].name] = << >>
        BY <4>1 DEF Built, Facts
      <4> QED
        BY <4>2 DEF Checked, Elements
    <3> QED
      BY <3>1, <3>2
  <2>5. \A j \in DOMAIN source[u] :
          j < k + 1 /\ IsImport(source[u], j) => Checked(source[u][j].name)
    <3> TAKE j \in DOMAIN source[u]
    <3>1. j < k + 1 => j < k \/ j = k
      BY <2>1, <2>2, LenProperties
    <3> QED
      BY <2>3, <2>4, <3>1
  <2> HIDE DEF u, k
  <2>6. Achieved(c)
    BY <2>1, <2>5 DEF Achieved
  <2>7. FrameOK(c)
    BY <1>1, MovedOK
  <2> QED
    BY <1>2, <2>1, <2>6, <2>7, AchievedKept
<1> QED
  BY <1>1, <1>2, <1>3, CallsAdvance, FactsKept DEF Built

LEMMA BuiltEnter ==
  ASSUME Typed, Built, EnsureEnter
  PROVE  Built'
<1>1. /\ stack # << >> /\ Top.op = "ensure" /\ Top.at = 0 /\ stack' = Advance(stack)
      /\ Top.arg \notin completed[Top.unit] /\ Top.arg \in DOMAIN RuleBook[Top.rules]
      /\ activeStages' = [activeStages EXCEPT ![Top.unit] = @ \cup {Top.arg}]
      /\ UNCHANGED <<completed, rooted, registered>>
  BY DEF EnsureEnter, In, Pending
<1>2. Kept /\ Grows
  BY <1>1, TypedEnsureEnter DEF Grows
<1>3. /\ Top.unit \in File /\ Top.unit \in Elements(units) /\ Top.rules \in DOMAIN RuleBook
      /\ Top \in Frame
  BY <1>1, TopFacts
<1>4. Len(Rule) \in Nat
  BY <1>1, <1>3, RulesAssumption, LenProperties DEF Rule
<1>5. \A c \in Frame : c = Moved(Top) => Achieved(c)'
  <2> SUFFICES ASSUME NEW c \in Frame, c = Moved(Top) PROVE Achieved(c)'
    OBVIOUS
  <2>1. c.op = "ensure" /\ c.at = 1 /\ c.unit = Top.unit /\ RuleOf(c) = Rule
    BY <1>1, <1>3, MovedFrame DEF RuleOf, Rule
  <2>2. Achieved(c)
    <3>1. \A j \in 1 .. Len(RuleOf(c)) : ~(j < c.at)
      BY <1>4, <2>1
    <3>2. c.at # Len(RuleOf(c)) + 2
      BY <1>4, <2>1
    <3> QED
      BY <2>1, <3>1, <3>2 DEF Achieved
  <2>3. FrameOK(c)
    BY <1>1, <1>4, MovedOK
  <2> QED
    BY <1>2, <1>3, <2>1, <2>2, <2>3, AchievedKept
<1>6. Calls'
  BY <1>1, <1>2, <1>5, CallsAdvance DEF Built
<1>7. DependenciesFirst'
  <2>1. \A f \in File : completed[f] \cap activeStages'[f] = {} \/ DOMAIN Normal = {}
    BY <1>1, <1>3 DEF Built, Facts, DependenciesFirst, Typed, TypeOK
  <2>2. \A f \in File, s \in DOMAIN Normal :
          s \in completed[f] => Elements(Normal[s]) \subseteq completed[f]
    BY DEF Built, Facts, DependenciesFirst
  <2>3. \A s \in DOMAIN Normal : Elements(Normal[s])' = Elements(Normal[s])
    BY DEF Elements
  <2> QED
    BY <1>1, <2>1, <2>2, <2>3 DEF DependenciesFirst
<1>8. ImportsChecked'
  <2>1. \A f \in File : "Resolver" \in completed[f] => Uses(f)' = Uses(f)
    BY <1>2, UsesKept DEF Typed, Loaded
  <2> QED
    BY <1>1, <2>1 DEF Built, Facts, ImportsChecked
<1>9. Facts'
  <2>1. UNCHANGED <<source, providers>>
    BY DEF EnsureEnter, index
  <2> QED
    BY <1>1, <1>7, <1>8, <2>1 DEF Built, Facts, Parses
<1> QED
  BY <1>6, <1>9 DEF Built

LEMMA BuiltRunStage ==
  ASSUME Typed, Built, RunStage
  PROVE  Built'
<1>1. /\ stack # << >> /\ Top.op = "ensure" /\ Top.at > 0 /\ Top.at = Len(Rule) + 1
      /\ Top.arg # "Resolver" /\ stack' = Advance(stack)
      /\ rooted \subseteq rooted' /\ registered \subseteq registered'
      /\ rooted' \subseteq rooted \cup {f \in {Top.unit} : Parses(source[f])}
      /\ Top.arg = "Parser" /\ Parses(source[Top.unit]) => Top.unit \in rooted'
      /\ UNCHANGED <<completed, activeStages, source, providers>>
  BY DEF RunStage, AtRun, In, pipe, index
<1>2. Kept /\ Grows
  BY <1>1, TypedRunStage DEF Grows
<1>3. /\ Top.unit \in File /\ Top.unit \in Elements(units) /\ Top \in Frame
      /\ Top.arg \in DOMAIN RuleBook[Top.rules] /\ Len(Rule) \in Nat /\ RuleOf(Top) = Rule
  BY <1>1, TopFacts
<1>4. \A c \in Frame : c = Moved(Top) => Achieved(c)'
  <2> SUFFICES ASSUME NEW c \in Frame, c = Moved(Top) PROVE Achieved(c)'
    OBVIOUS
  <2>1. /\ c.op = "ensure" /\ c.at = Top.at + 1 /\ c.unit = Top.unit /\ c.arg = Top.arg
        /\ RuleOf(c) = Rule
    BY <1>1, <1>3, MovedFrame DEF RuleOf, Rule
  <2>2. \A j \in 1 .. Len(Rule) : Rule[j] \in completed[Top.unit]
    <3>1. \A j \in 1 .. Len(Rule) : j < Top.at
      BY <1>1, <1>3
    <3> QED
      BY <1>1, <1>3, <3>1, TopAchieved DEF Achieved
  <2>3. \A j \in 1 .. Len(RuleOf(c)) : RuleOf(c)[j] \in completed[c.unit]
    BY <2>1, <2>2
  <2>4. c.arg = "Parser" /\ Parses(source[c.unit]) => c.unit \in rooted'
    BY <1>1, <2>1
  <2>5. c.op = "ensure" /\ c.arg # "Resolver"
    BY <1>1, <2>1
  <2>6. RuleOf(c)' = RuleOf(c)
    BY DEF RuleOf
  <2>7. Parses(source[c.unit])' = Parses(source[c.unit])
    BY <1>1 DEF Parses
  <2> QED
    BY <1>1, <2>3, <2>4, <2>5, <2>6, <2>7 DEF Achieved
<1>5. Calls'
  BY <1>1, <1>2, <1>4, CallsAdvance DEF Built
<1>6. DependenciesFirst'
  BY <1>1 DEF Built, Facts, DependenciesFirst, Elements
<1>7. ImportsChecked'
  <2>1. \A f \in File : "Resolver" \in completed[f] => Uses(f)' = Uses(f)
    BY <1>2, UsesKept DEF Typed, Loaded
  <2> QED
    BY <1>1, <2>1 DEF Built, Facts, ImportsChecked
<1>8. (\A f \in rooted : Parses(source[f]))'
  BY <1>1 DEF Built, Facts, Parses
<1>9. Facts'
  BY <1>1, <1>6, <1>7, <1>8 DEF Built, Facts, Parses
<1> QED
  BY <1>5, <1>9 DEF Built

(* The caller of the call on top.                                          *)
LEMMA CallerFacts ==
  ASSUME Typed, Built, stack # << >>
  PROVE  \E n \in Nat :
           /\ Len(stack) = n + 1 /\ Top = stack[n + 1]
           /\ n > 0 => /\ stack[n] \in Frame /\ FrameOK(stack[n]) /\ Achieved(stack[n])
                       /\ stack[n].unit \in Elements(units)
                       /\ Awaits(stack[n], Top)
                       /\ FrameOK(Moved(stack[n]))
<1>1. PICK n \in Nat : Len(stack) = n + 1
  <2>1. Len(stack) \in Nat /\ Len(stack) \in 1 .. Len(stack)
    BY StackFacts DEF Depth
  <2>2. Len(stack) - 1 \in Nat /\ Len(stack) = (Len(stack) - 1) + 1
    BY <2>1
  <2> QED
    BY <2>2
<1>2. Top = stack[n + 1]
  BY <1>1 DEF Top
<1>3. n > 0 => n \in Depth /\ n \in 1 .. Len(stack) - 1
  BY <1>1 DEF Depth
<1>4. n > 0 => /\ stack[n] \in Frame /\ FrameOK(stack[n]) /\ Achieved(stack[n])
               /\ stack[n].unit \in Elements(units)
               /\ Awaits(stack[n], Top)
  BY <1>2, <1>3, StackFacts DEF Typed, Chain, Loaded, Built, Calls
<1>5. n > 0 => FrameOK(Moved(stack[n]))
  <2> SUFFICES ASSUME n > 0 PROVE FrameOK(Moved(stack[n]))
    OBVIOUS
  <2> DEFINE c == stack[n]
             d == Moved(stack[n])
  <2>1. /\ c \in Frame /\ FrameOK(c) /\ Awaits(c, Top)
        /\ d.op = c.op /\ d.unit = c.unit /\ d.arg = c.arg /\ d.rules = c.rules /\ d.at = c.at + 1
    BY <1>4, MovedFrame
  <2> HIDE DEF c, d
  <2>2. RuleOf(d) = RuleOf(c) /\ c.at \in Nat /\ c.rules \in DOMAIN RuleBook
    BY <2>1 DEF RuleOf, Frame
  <2>3. d.op = "ensure" => c.at > 0
    BY <2>1 DEF Awaits
  <2>4. d.op = "ensure" => c.arg \in DOMAIN RuleBook[c.rules]
    BY <2>1, <2>3 DEF FrameOK
  <2>5. d.op = "ensure" => Len(RuleOf(c)) \in Nat /\ c.at <= Len(RuleOf(c)) + 1
    <3>1. d.op = "ensure" => Len(RuleOf(c)) \in Nat
      BY <2>2, <2>4, RulesAssumption, LenProperties DEF RuleOf
    <3> HIDE DEF RuleOf
    <3> QED
      BY <2>1, <2>2, <3>1 DEF Awaits
  <2>6. FrameOK(d)
    BY <2>1, <2>2, <2>3, <2>4, <2>5 DEF FrameOK
  <2> QED
    BY <2>6 DEF d
<1> QED
  BY <1>1, <1>2, <1>4, <1>5

(* A call whose callee has done its part has achieved one step more.       *)
LEMMA CallerAchieved ==
  ASSUME Typed, NEW c \in Frame, NEW d \in Frame, FrameOK(c), Achieved(c), Awaits(c, d),
         c.unit \in Elements(units),
         d.op = "ensure" => d.arg \in completed[d.unit],
         d.op = "require" => d.arg \in completed[d.unit],
         d.op = "load" => Checked(d.arg),
         d.op = "resolve" => \A m \in ImportsOf(source[d.unit]) : Checked(m)
  PROVE  Achieved(Moved(c))
<1> DEFINE e == Moved(c)
<1>1. /\ e.op = c.op /\ e.unit = c.unit /\ e.arg = c.arg /\ e.rules = c.rules /\ e.at = c.at + 1
      /\ c.at \in Nat /\ RuleOf(e) = RuleOf(c) /\ c.rules \in DOMAIN RuleBook
  BY MovedFrame DEF Frame, RuleOf
<1> SUFFICES Achieved(e)
  OBVIOUS
<1> HIDE DEF e
<1>2. CASE c.op = "require"
  BY <1>1, <1>2 DEF Achieved, Awaits
<1>3. CASE c.op = "ensure"
  <2>1. c.at > 0 /\ d.unit = c.unit /\ c.arg \in DOMAIN RuleBook[c.rules]
    BY <1>3 DEF Awaits, FrameOK
  <2>2. Len(RuleOf(c)) \in Nat
    BY <1>1, <2>1, RulesAssumption, LenProperties DEF RuleOf
  <2>3. \A j \in 1 .. Len(RuleOf(c)) : j < c.at => RuleOf(c)[j] \in completed[c.unit]
    BY <1>3, <2>1 DEF Achieved
  <2>4. CASE d.op = "ensure" /\ c.at <= Len(RuleOf(c)) /\ d.arg = RuleOf(c)[c.at]
    <3>1. \A j \in 1 .. Len(RuleOf(c)) : j < c.at + 1 => RuleOf(c)[j] \in completed[c.unit]
      <4> TAKE j \in 1 .. Len(RuleOf(c))
      <4>1. j < c.at + 1 => j < c.at \/ j = c.at
        BY <1>1, <2>2
      <4> QED
        BY <2>1, <2>3, <2>4, <4>1
    <3>2. c.at + 1 # Len(RuleOf(c)) + 2
      BY <1>1, <2>2, <2>4
    <3> QED
      BY <1>1, <1>3, <3>1, <3>2 DEF Achieved
  <2>5. CASE d.op = "resolve" /\ c.at = Len(RuleOf(c)) + 1 /\ c.arg = "Resolver"
    <3>1. \A j \in 1 .. Len(RuleOf(c)) : RuleOf(c)[j] \in completed[c.unit]
      BY <2>2, <2>3, <2>5
    <3>2. \A m \in ImportsOf(source[c.unit]) : Checked(m)
      BY <2>1, <2>5
    <3> QED
      BY <1>1, <1>3, <2>5, <3>1, <3>2 DEF Achieved
  <2> QED
    BY <1>3, <2>4, <2>5 DEF Awaits
<1>4. CASE c.op = "resolve"
  <2>1. d.op = "load" /\ d.arg = source[c.unit][c.at].name
    BY <1>4 DEF Awaits
  <2>2. \A j \in DOMAIN source[c.unit] :
          j < c.at + 1 /\ IsImport(source[c.unit], j) => Checked(source[c.unit][j].name)
    <3> TAKE j \in DOMAIN source[c.unit]
    <3>1. source[c.unit] \in Seq(Item)
      BY UnitTexts
    <3>2. j < c.at + 1 => j < c.at \/ j = c.at
      BY <1>1, <3>1, LenProperties
    <3> QED
      BY <1>4, <2>1, <3>2 DEF Achieved
  <2> QED
    BY <1>1, <1>4, <2>2 DEF Achieved
<1>5. CASE c.op = "load"
  <2>1. d.op = "require" /\ d.unit = providers[c.arg][c.at] /\ d.arg = "Check" /\ c.arg \in Module
    BY <1>5 DEF Awaits, FrameOK
  <2>2. \A j \in DOMAIN providers[c.arg] :
          j < c.at + 1 => "Check" \in completed[providers[c.arg][j]]
    <3> TAKE j \in DOMAIN providers[c.arg]
    <3>1. providers[c.arg] \in Seq(File)
      BY <2>1 DEF Typed, TypeOK
    <3>2. j < c.at + 1 => j < c.at \/ j = c.at
      BY <1>1, <3>1, LenProperties
    <3> QED
      BY <1>5, <2>1, <3>2 DEF Achieved
  <2> QED
    BY <1>1, <1>5, <2>2 DEF Achieved
<1>6. c.op \in {"require", "ensure", "resolve", "load"}
  BY DEF Frame
<1> QED
  BY <1>2, <1>3, <1>4, <1>5, <1>6

(* A return whose callee has done its part, with nothing else changed but  *)
(* the entry of the call.                                                  *)
LEMMA BuiltReturn ==
  ASSUME Typed, Built, stack # << >>, stack' = Return, Kept,
         UNCHANGED <<completed, activeStages, rooted, registered>>,
         Top.op = "ensure" => Top.arg \in completed[Top.unit],
         Top.op = "require" => Top.arg \in completed[Top.unit],
         Top.op = "load" => Checked(Top.arg),
         Top.op = "resolve" => \A m \in ImportsOf(source[Top.unit]) : Checked(m)
  PROVE  Built'
<1>1. Grows
  BY DEF Grows
<1>2. PICK n \in Nat :
        /\ Len(stack) = n + 1
        /\ n > 0 => /\ stack[n] \in Frame /\ FrameOK(stack[n]) /\ Achieved(stack[n])
                    /\ stack[n].unit \in Elements(units)
                    /\ Awaits(stack[n], Top)
                    /\ FrameOK(Moved(stack[n]))
  BY CallerFacts
<1>3. Top \in Frame
  BY TopFacts
<1>4. n > 0 => Achieved(Moved(stack[n]))
  BY <1>2, <1>3, CallerAchieved
<1>5. \A c \in Frame : n > 0 /\ c = Moved(stack[n]) => Achieved(c)'
  BY <1>1, <1>2, <1>4, MovedFrame, AchievedKept
<1>6. Calls'
  BY <1>1, <1>2, <1>5, CallsReturn DEF Built
<1> QED
  BY <1>1, <1>6, FactsKept DEF Built

LEMMA BuiltReturns ==
  ASSUME Typed, Built, EnsureCompleted \/ ResolveReturn \/ LoadReturn \/ RequireReturn
  PROVE  Built'
<1>1. /\ stack # << >> /\ stack' = Return
      /\ UNCHANGED <<completed, activeStages, rooted, registered>>
  BY DEF EnsureCompleted, ResolveReturn, LoadReturn, RequireReturn, In, GoTo, pipe
<1>2. Kept
  BY TypedReturns, TypedRequireReturn
<1>3. Top \in Frame /\ FrameOK(Top) /\ Achieved(Top) /\ Top.unit \in File /\ Top.at \in Nat
      /\ Top.unit \in Elements(units)
  BY <1>1, TopFacts, TopAchieved
<1>4. Top.op = "ensure" => Top.arg \in completed[Top.unit]
  BY DEF EnsureCompleted, ResolveReturn, LoadReturn, RequireReturn, In, Pending
<1>5. Top.op = "require" => Top.arg \in completed[Top.unit]
  BY <1>1, <1>3 DEF Built, Calls, Achieved
<1>6. Top.op = "load" => Checked(Top.arg)
  <2> SUFFICES ASSUME Top.op = "load", NEW j \in DOMAIN providers[Top.arg]
               PROVE  "Check" \in completed[providers[Top.arg][j]]
    BY DEF Checked, Elements
  <2>1. Top.at > Len(providers[Top.arg])
    BY DEF EnsureCompleted, ResolveReturn, LoadReturn, RequireReturn, In
  <2>2. Top.arg \in Module
    BY <1>3 DEF FrameOK
  <2>3. providers[Top.arg] \in Seq(File)
    BY <2>2 DEF Typed, TypeOK
  <2>4. j < Top.at
    BY <1>3, <2>1, <2>3, LenProperties
  <2> QED
    BY <1>3, <2>4 DEF Achieved
<1>7. Top.op = "resolve" => \A m \in ImportsOf(source[Top.unit]) : Checked(m)
  <2> SUFFICES ASSUME Top.op = "resolve", NEW m \in ImportsOf(source[Top.unit])
               PROVE  Checked(m)
    OBVIOUS
  <2> DEFINE u == Top.unit
  <2>1. Top.at > ItemCount
    BY DEF EnsureCompleted, ResolveReturn, LoadReturn, RequireReturn, In
  <2>2. PICK j \in DOMAIN source[u] : IsImport(source[u], j) /\ m = source[u][j].name
    BY DEF ImportsOf
  <2>3. Parses(source[u])
    BY <2>2 DEF IsImport
  <2>4. "Parser" \in completed[u]
    <3>1. PICK n \in Nat :
            /\ Len(stack) = n + 1
            /\ n > 0 => /\ stack[n] \in Frame /\ FrameOK(stack[n]) /\ Achieved(stack[n])
                        /\ Awaits(stack[n], Top)
      BY <1>1, CallerFacts
    <3>2. n > 0
      <4> SUFFICES ASSUME n = 0 PROVE FALSE
        BY <3>1
      <4>1. Top = stack[1] /\ stack[1].op = "require"
        BY <1>1, <3>1 DEF Top, Typed, Chain
      <4> QED
        BY <4>1
    <3> DEFINE c == stack[n]
    <3>3. c \in Frame /\ FrameOK(c) /\ Achieved(c) /\ Awaits(c, Top)
      BY <3>1, <3>2
    <3> HIDE DEF c
    <3>4. c.op = "ensure" /\ c.at > 0 /\ c.unit = u /\ c.arg = "Resolver"
          /\ c.at = Len(RuleOf(c)) + 1
      BY <3>3 DEF Awaits, Frame
    <3>5. RuleOf(c) = <<"SymbolCollector">>
      <4>1. c.rules \in DOMAIN RuleBook /\ c.arg \in DOMAIN RuleBook[c.rules]
        BY <3>3, <3>4 DEF Frame, FrameOK
      <4>2. "Resolver" \in DOMAIN Normal /\ Normal["Resolver"] = <<"SymbolCollector">>
        BY DEF Normal
      <4> QED
        BY <3>4, <4>1, <4>2, RulesAssumption DEF RuleOf
    <3>6. "SymbolCollector" \in completed[u]
      <4>1. 1 \in 1 .. Len(RuleOf(c)) /\ 1 < c.at /\ RuleOf(c)[1] = "SymbolCollector"
        BY <3>4, <3>5
      <4> QED
        BY <3>3, <3>4, <4>1 DEF Achieved
    <3>7. "SymbolCollector" \in DOMAIN Normal /\ Normal["SymbolCollector"] = <<"Parser">>
      BY DEF Normal
    <3>8. Elements(Normal["SymbolCollector"]) \subseteq completed[u]
      BY <1>3, <3>6, <3>7 DEF Built, Facts, DependenciesFirst
    <3>9. "Parser" \in Elements(<<"Parser">>)
      <4>1. 1 \in DOMAIN <<"Parser">> /\ <<"Parser">>[1] = "Parser"
        OBVIOUS
      <4> QED
        BY <4>1 DEF Elements
    <3> QED
      BY <3>7, <3>8, <3>9
  <2>5. u \in rooted
    BY <1>3, <2>3, <2>4 DEF Built, Facts
  <2>6. j < Top.at
    <3>1. source[u] \in Seq(Item)
      BY <1>3, UnitTexts
    <3> QED
      BY <1>3, <2>1, <2>5, <3>1, LenProperties DEF ItemCount
  <2> QED
    BY <1>3, <2>2, <2>6 DEF Achieved
<1> QED
  BY <1>1, <1>2, <1>4, <1>5, <1>6, <1>7, BuiltReturn

(* CallerAchieved again, as a formula that can be primed.                  *)
CallersGoOn ==
  \A c \in Frame, d \in Frame :
    /\ FrameOK(c) /\ Achieved(c) /\ Awaits(c, d)
    /\ c.unit \in Elements(units)
    /\ d.op = "ensure" /\ d.arg \in completed[d.unit]
    => Achieved(Moved(c))

LEMMA CallersGoOnNow == Typed => CallersGoOn
<1> SUFFICES ASSUME Typed, NEW c \in Frame, NEW d \in Frame, FrameOK(c), Achieved(c),
                    Awaits(c, d), c.unit \in Elements(units), d.op = "ensure",
                    d.arg \in completed[d.unit]
             PROVE  Achieved(Moved(c))
  BY DEF CallersGoOn
<1> QED
  BY CallerAchieved

LEMMA CallersGoOnNext == Typed' => CallersGoOn'
<1>1. Typed => CallersGoOn
  BY CallersGoOnNow
<1> QED
  BY <1>1, PTL

LEMMA BuiltEnsureReturn ==
  ASSUME Typed, Built, EnsureReturn
  PROVE  Built'
<1>1. /\ stack # << >> /\ stack' = Return /\ Top.op = "ensure" /\ Top.at > 0
      /\ Top.at = Len(Rule) + 2
      /\ completed' = [completed EXCEPT ![Top.unit] = @ \cup {Top.arg}]
      /\ activeStages' = [activeStages EXCEPT ![Top.unit] = @ \ {Top.arg}]
      /\ UNCHANGED <<rooted, registered, source, providers, units>>
  BY DEF EnsureReturn, In, index
<1>2. PICK d \in Frame : d = Top
  BY <1>1, TopFacts
<1>3. PICK u \in File, s \in StageId : u = Top.unit /\ s = Top.arg
  BY <1>1, TopFacts DEF FrameOK
<1>4. \A f \in File : \A t : t \in completed'[f] <=> t \in completed[f] \/ (f = u /\ t = s)
  BY <1>1, <1>3 DEF Typed, TypeOK
<1>5. \A f \in File : \A t : t \in activeStages'[f] <=> t \in activeStages[f] /\ ~(f = u /\ t = s)
  BY <1>1, <1>3 DEF Typed, TypeOK
<1>6. Kept /\ Typed' /\ Grows
  BY <1>1, <1>4, TypedEnsureReturn DEF Grows
<1>7. /\ FrameOK(Top) /\ Achieved(Top) /\ RuleOf(Top) = Rule /\ u \in Elements(units)
      /\ Len(Rule) \in Nat /\ Rule \in Seq(StageId)
      /\ Top.rules \in DOMAIN RuleBook /\ s \in DOMAIN RuleBook[Top.rules]
  BY <1>1, <1>3, TopFacts, TopAchieved
<1>8. /\ \A j \in 1 .. Len(Rule) : Rule[j] \in completed[u]
      /\ s = "Parser" /\ Parses(source[u]) => u \in rooted
      /\ s = "Resolver" => \A m \in ImportsOf(source[u]) : Checked(m)
  <2>1. \A j \in 1 .. Len(Rule) : j < Top.at
    BY <1>1, <1>7
  <2> QED
    BY <1>1, <1>3, <1>7, <2>1 DEF Achieved
<1>9. Calls'
  <2>1. PICK n \in Nat :
          /\ Len(stack) = n + 1
          /\ n > 0 => /\ stack[n] \in Frame /\ FrameOK(stack[n]) /\ Achieved(stack[n])
                      /\ stack[n].unit \in Elements(units)
                      /\ Awaits(stack[n], Top)
    BY <1>1, CallerFacts
  <2>2. ASSUME NEW c \in Frame, n > 0, c = Moved(stack[n]) PROVE Achieved(c)'
    <3>1. PICK b \in Frame : b = stack[n]
      BY <2>1, <2>2
    <3>2. FrameOK(b) /\ Achieved(b)' /\ Awaits(b, d)' /\ b.unit \in Elements(units)'
      BY <1>2, <1>6, <2>1, <2>2, <3>1, AchievedKept, AwaitsKept DEF Kept, Elements
    <3>3. d.op = "ensure" /\ d.arg \in completed'[d.unit]
      BY <1>1, <1>2, <1>3, <1>4
    <3>4. CallersGoOn'
      BY <1>6, CallersGoOnNext
    <3>5. Achieved(Moved(b))'
      BY <3>2, <3>3, <3>4 DEF CallersGoOn
    <3>6. c = Moved(b)
      BY <2>2, <3>1
    <3> QED
      BY <3>5, <3>6
  <2>3. \A c \in Frame : n > 0 /\ c = Moved(stack[n]) => Achieved(c)'
    BY <2>2
  <2> QED
    BY <1>1, <1>6, <2>1, <2>3, CallsReturn DEF Built
<1>10. DependenciesFirst'
  <2>1. ASSUME NEW f \in File, NEW t \in DOMAIN Normal, t \in completed'[f]
        PROVE  Elements(Normal[t]) \subseteq completed'[f]
    <3>1. CASE t \in completed[f]
      BY <1>4, <2>1, <3>1 DEF Built, Facts, DependenciesFirst
    <3>2. CASE t \notin completed[f]
      <4>1. f = u /\ t = s
        BY <1>4, <2>1, <3>2
      <4>2. Normal[t] = Rule
        BY <1>3, <1>7, <4>1, RulesAssumption DEF Rule
      <4>3. DOMAIN Rule = 1 .. Len(Rule)
        BY <1>7, LenProperties
      <4> QED
        BY <1>4, <1>8, <4>1, <4>2, <4>3 DEF Elements
    <3> QED
      BY <3>1, <3>2
  <2>2. ASSUME NEW f \in File PROVE completed'[f] \cap activeStages'[f] = {} \/ DOMAIN Normal = {}
    BY <1>4, <1>5 DEF Built, Facts, DependenciesFirst
  <2>3. \A t \in DOMAIN Normal : Elements(Normal[t])' = Elements(Normal[t])
    BY DEF Elements
  <2> QED
    BY <2>1, <2>2, <2>3 DEF DependenciesFirst
<1>11. ImportsChecked'
  <2> SUFFICES ASSUME NEW f \in File, "Resolver" \in completed'[f], NEW g \in Uses(f)'
               PROVE  "Check" \in completed'[g]
    BY DEF ImportsChecked
  <2>1. f \in Elements(units)
    BY <1>4, <1>7 DEF Typed, Loaded
  <2>2. g \in Uses(f)
    BY <1>6, <2>1, UsesKept
  <2>3. PICK m \in ImportsOf(source[f]) : g \in Elements(providers[m])
    BY <2>1, <2>2 DEF Uses
  <2>4. "Check" \in completed[g]
    <3>1. CASE "Resolver" \in completed[f]
      BY <2>2, <3>1 DEF Built, Facts, ImportsChecked
    <3>2. CASE "Resolver" \notin completed[f]
      <4>1. f = u /\ s = "Resolver"
        BY <1>4, <3>2
      <4> QED
        BY <1>8, <2>3, <4>1 DEF Checked
    <3> QED
      BY <3>1, <3>2
  <2>5. g \in File
    <3>1. m \in Module
      BY <2>1, UnitTexts
    <3>2. providers[m] \in Seq(File)
      BY <3>1 DEF Typed, TypeOK
    <3> QED
      BY <2>3, <3>2, ElementOfSeq, LenProperties DEF Elements
  <2> QED
    BY <1>4, <2>4, <2>5
<1>12. Facts'
  <2>1. (\A f \in File : "Parser" \in completed[f] /\ Parses(source[f]) => f \in rooted)'
    BY <1>1, <1>4, <1>8 DEF Built, Facts, Parses
  <2>2. (\A f \in rooted : Parses(source[f]))'
    BY <1>1 DEF Built, Facts, Parses
  <2> QED
    BY <1>1, <1>10, <1>11, <2>1, <2>2 DEF Built, Facts
<1> QED
  BY <1>9, <1>12 DEF Built

LEMMA BuiltStep ==
  ASSUME Typed, Built, [Next]_vars
  PROVE  Built'
<1>1. CASE \E f \in File : IndexFile(f)
  BY <1>1, BuiltIndexFile
<1>2. CASE Ends \/ (\E f \in File, t \in Edits : Edit(f, t)) \/ UNCHANGED vars
  <2>1. UNCHANGED <<completed, activeStages, rooted, registered, stack>> /\ Kept
    BY <1>2, EndsFacts DEF Edit, vars, pipe, index, Kept, Elements
  <2>2. Grows
    BY <2>1 DEF Grows
  <2> QED
    BY <2>1, <2>2, BuiltSame
<1>3. CASE Start \/ LoadProvider
  BY <1>3, BuiltRequire
<1>4. CASE EnsureEnter
  BY <1>4, BuiltEnter
<1>5. CASE EnsureReturn
  BY <1>5, BuiltEnsureReturn
<1>6. CASE EnsureDependency \/ RunResolver \/ ImportKnown
  BY <1>6, BuiltDependency, BuiltRunResolver, BuiltImportKnown
<1>7. CASE RunStage
  BY <1>7, BuiltRunStage
<1>8. CASE ResolveOther \/ ImportUnknown
  BY <1>8, BuiltResolveNext
<1>9. CASE EnsureCompleted \/ ResolveReturn \/ LoadReturn \/ RequireReturn
  BY <1>9, BuiltReturns
<1> QED
  BY <1>1, <1>2, <1>3, <1>4, <1>5, <1>6, <1>7, <1>8, <1>9
  DEF Next, Compile, Index, Ensure, Resolve, Load, Ends, Terminated

LEMMA BuiltAlways == Spec => [](Typed /\ Built)
<1>1. Init => Typed /\ Built
  BY TypedInit, BuiltInit
<1>2. Typed /\ Built /\ [Next]_vars => Typed' /\ Built'
  BY TypedStep, BuiltStep
<1> QED
  BY <1>1, <1>2, PTL DEF Spec

(* A stage is complete only after every stage it depends on, and never     *)
(* while it is being run, whatever rule sets the callers of require() mix. *)
THEOREM StagesInOrder == Spec => []DependenciesFirst
<1>1. Typed /\ Built => DependenciesFirst
  BY DEF Built, Facts
<1> QED
  BY <1>1, BuiltAlways, PTL

(* When the Resolver stage of a unit completes, every file of every module *)
(* it imports has been checked, for any number of files and modules, any   *)
(* order of providers and any shape of import graph: load_module() either  *)
(* reaches every provider or the compilation ends with an exception.       *)
THEOREM ImportsAreChecked == Spec => []ImportsChecked
<1>1. Typed /\ Built => ImportsChecked
  BY DEF Built, Facts
<1> QED
  BY <1>1, BuiltAlways, PTL

(* What a unit was compiled from never changes under it: whatever is       *)
(* edited, its text is the one add_script() read when it was created.      *)
THEOREM SourcesAreFrozen == Spec => SourceFrozen
<1> DEFINE A == \A f \in File :
                  f \in Elements(units) => source'[f] = source[f] /\ f \in Elements(units')
<1>1. Typed /\ Next => A \/ UNCHANGED vars
  <2> SUFFICES ASSUME Typed, Next PROVE A \/ UNCHANGED vars
    OBVIOUS
  <2>1. CASE \E f \in File : IndexFile(f)
    BY <2>1 DEF IndexFile, Elements
  <2>2. CASE Ends
    BY <2>2, TypedEnds DEF Kept
  <2>3. CASE Start \/ LoadProvider
    BY <2>3, TypedStart, TypedLoadProvider DEF Kept
  <2>4. CASE RequireReturn
    BY <2>4, TypedRequireReturn DEF Kept
  <2>5. CASE EnsureEnter \/ EnsureDependency \/ RunStage \/ RunResolver \/ EnsureReturn
    BY <2>5, TypedEnsureEnter, TypedEnsureDependency, TypedRunStage, TypedRunResolver,
       TypedEnsureReturn DEF Kept
  <2>6. CASE ResolveOther \/ ImportUnknown \/ ImportKnown
    BY <2>6, TypedResolveNext, TypedImportKnown DEF Kept
  <2>7. CASE EnsureCompleted \/ ResolveReturn \/ LoadReturn
    BY <2>7, TypedReturns DEF Kept
  <2>8. CASE \E f \in File, t \in Edits : Edit(f, t)
    BY <2>8, TypedEdit DEF Kept
  <2>9. CASE UNCHANGED vars
    BY <2>9
  <2> QED
    BY <2>1, <2>2, <2>3, <2>4, <2>5, <2>6, <2>7, <2>8, <2>9
    DEF Next, Compile, Index, Ensure, Resolve, Load, Ends, Terminated
<1>2. Typed /\ [Next]_vars => [A]_vars
  BY <1>1
<1>3. Init => Typed
  BY TypedInit
<1>4. Typed /\ [Next]_vars => Typed'
  BY TypedStep
<1>5. Spec => [][A]_vars
  BY <1>2, <1>3, <1>4, PTL DEF Spec
<1> QED
  BY <1>5 DEF SourceFrozen

-----------------------------------------------------------------------------
(***************************************************************************)
(* What rests on which call waits for which: what an exception says of     *)
(* the files and the stages, and what a success does.                      *)
(***************************************************************************)

(* A call is still there, wherever it has got to.                          *)
SameCall(i) == /\ stack'[i].op = stack[i].op
               /\ stack'[i].unit = stack[i].unit
               /\ stack'[i].arg = stack[i].arg
               /\ stack'[i].rules = stack[i].rules

LEMMA AdvanceCalls ==
  ASSUME Typed, stack # << >>, stack' = Advance(stack)
  PROVE  Len(stack') = Len(stack) /\ \A i \in Depth : SameCall(i)
<1>1. PICK n \in Nat : n = Len(stack) /\ stack \in Seq(Frame)
  BY StackFacts
<1>2. /\ Len(stack') = n
      /\ \A i \in 1 .. n - 1 : stack'[i] = stack[i]
      /\ stack'[n] = Moved(stack[n])
  BY <1>1, AdvanceStack
<1>3. \A i \in Depth : stack[i] \in Frame /\ (i = n \/ i \in 1 .. n - 1)
  BY <1>1, StackFacts DEF Depth
<1> QED
  BY <1>1, <1>2, <1>3, MovedFrame DEF SameCall

LEMMA ReturnCalls ==
  ASSUME Typed, stack # << >>, stack' = Return
  PROVE  \E n \in Nat : Len(stack) = n + 1 /\ Len(stack') = n /\ \A i \in 1 .. n : SameCall(i)
<1>1. PICK n \in Nat : Len(stack) = n + 1 /\ stack \in Seq(Frame)
  <2>1. Len(stack) \in Nat /\ Len(stack) \in 1 .. Len(stack) /\ stack \in Seq(Frame)
    BY StackFacts DEF Depth
  <2>2. Len(stack) - 1 \in Nat /\ Len(stack) = (Len(stack) - 1) + 1
    BY <2>1
  <2> QED
    BY <2>1, <2>2
<1>2. /\ Len(stack') = n
      /\ \A i \in 1 .. n - 1 : stack'[i] = stack[i]
      /\ n > 0 => stack'[n] = Moved(stack[n])
  BY <1>1, ReturnStack
<1>3. \A i \in 1 .. n : stack[i] \in Frame /\ ((i = n /\ n > 0) \/ i \in 1 .. n - 1)
  BY <1>1, StackFacts DEF Depth
<1>4. \A i \in 1 .. n : SameCall(i)
  BY <1>2, <1>3, MovedFrame DEF SameCall
<1> QED
  BY <1>1, <1>2, <1>4

LEMMA PushCalls ==
  ASSUME Typed, stack # << >>, NEW d \in Frame, stack' = Append(stack, d)
  PROVE  \E n \in Nat : /\ Len(stack) = n /\ n > 0 /\ Len(stack') = n + 1
                        /\ stack'[n + 1] = d
                        /\ \A i \in 1 .. n : SameCall(i)
<1>1. PICK n \in Nat : n = Len(stack) /\ stack \in Seq(Frame) /\ n > 0
  BY StackFacts DEF Depth
<1>2. /\ Len(stack') = n + 1
      /\ \A i \in 1 .. n : stack'[i] = stack[i]
      /\ stack'[n + 1] = d
  BY <1>1, AppendStack
<1> QED
  BY <1>1, <1>2 DEF SameCall

(* The two calls that Require() enters, above the n that were there.       *)
Entered(n, f, s, r) ==
  /\ Len(stack) = n /\ Len(stack') = n + 2
  /\ \A i \in 1 .. n : SameCall(i)
  /\ stack'[n + 1].op = "require" /\ stack'[n + 1].unit = f
  /\ stack'[n + 1].arg = s /\ stack'[n + 1].rules = r
  /\ stack'[n + 2].op = "ensure" /\ stack'[n + 2].unit = f
  /\ stack'[n + 2].arg = s /\ stack'[n + 2].rules = r

LEMMA RequireCalls ==
  ASSUME Typed, NEW f \in File, NEW s \in StageId, NEW r \in DOMAIN RuleBook, Require(f, s, r)
  PROVE  \E n \in Nat : Entered(n, f, s, r)
<1> DEFINE c == Call("require", f, s, r, 0)
           d == Call("ensure", f, s, r, 0)
<1>1. PICK n \in Nat : n = Len(stack) /\ stack \in Seq(Frame)
  BY StackFacts
<1>2. /\ c \in Frame /\ c.op = "require" /\ c.unit = f /\ c.arg = s /\ c.rules = r
      /\ d \in Frame /\ d.op = "ensure" /\ d.unit = f /\ d.arg = s /\ d.rules = r
  BY CallType
<1>3. stack' = stack \o <<c, d>>
  BY DEF Require
<1> HIDE DEF c, d
<1>4. /\ Len(stack') = n + 2
      /\ \A i \in 1 .. n : stack'[i] = stack[i]
      /\ stack'[n + 1] = c
      /\ stack'[n + 2] = d
  BY <1>1, <1>2, <1>3, AppendTwo
<1> QED
  BY <1>1, <1>2, <1>4 DEF SameCall, Entered

(* Caller and callee are calls for one unit, unless the callee is a        *)
(* require().                                                              *)
LEMMA CallerOfTop ==
  ASSUME Typed, NEW n \in Nat, n > 0, Len(stack) = n + 1
  PROVE  /\ n \in Depth /\ n + 1 \in Depth /\ Top = stack[n + 1] /\ Awaits(stack[n], Top)
         /\ Top.op # "require" => Top.unit = stack[n].unit
         /\ Top.op = "ensure" => stack[n].op \in {"require", "ensure"}
<1>1. n \in Depth /\ n + 1 \in Depth /\ n \in 1 .. Len(stack) - 1 /\ Top = stack[n + 1]
  BY DEF Depth, Top
<1>2. Awaits(stack[n], Top) /\ stack[n].op \in {"require", "ensure", "resolve", "load"}
  <2>1. stack[n] \in Frame
    BY <1>1, StackFacts
  <2>2. \A c \in Frame : c.op \in {"require", "ensure", "resolve", "load"}
    BY DEF Frame
  <2> QED
    BY <1>1, <2>1, <2>2 DEF Typed, Chain
<1> QED
  BY <1>1, <1>2 DEF Awaits
-----------------------------------------------------------------------------
(* Waiting, for each of the moves of the stack.                            *)
LEMMA ImportsKept ==
  ASSUME Typed, Kept
  PROVE  \A f \in Elements(units) : ImportsOf(source[f])' = ImportsOf(source[f])
BY DEF Kept, ImportsOf, IsImport, Parses, Abandoned

LEMMA WaitingSame ==
  ASSUME Typed, Waiting, Kept, Len(stack') = Len(stack), \A i \in Depth : SameCall(i)
  PROVE  Waiting'
<1>1. PICK n \in Nat : n = Len(stack) /\ n = Len(stack') /\ Depth = 1 .. n /\ Depth' = 1 .. n
  BY StackFacts DEF Depth
<1>2. \A i \in Depth : stack[i].unit \in Elements(units)
  BY DEF Typed, Loaded
<1>3. (\A i \in Depth : stack[i].op = "load" => stack[i].arg \in ImportsOf(source[stack[i].unit]))'
  <2> TAKE i \in Depth'
  <2>1. SameCall(i) /\ source'[stack'[i].unit] = source[stack[i].unit]
    BY <1>1, <1>2 DEF SameCall, Kept
  <2>2. ImportsOf(source[stack[i].unit])' = ImportsOf(source[stack[i].unit])
    BY <2>1 DEF ImportsOf, IsImport, Parses, Abandoned
  <2>3. stack[i].op = "load" => stack[i].arg \in ImportsOf(source[stack[i].unit])
    BY <1>1 DEF Waiting
  <2> QED
    BY <2>1, <2>2, <2>3 DEF SameCall
<1>4. (\A i \in Depth : \E k \in 1 .. i : Requiring(k) /\ stack[k].unit = stack[i].unit)'
  <2> TAKE i \in Depth'
  <2>1. PICK k \in 1 .. i : Requiring(k) /\ stack[k].unit = stack[i].unit
    BY <1>1 DEF Waiting
  <2>2. k \in Depth
    BY <1>1
  <2> QED
    BY <1>1, <2>1, <2>2 DEF Requiring, SameCall
<1>5. (\A i \in Depth : \/ stack[i].unit = Top.unit
                        \/ \E j \in 2 .. Len(stack) : Requiring(j) /\ stack[j - 1].unit = stack[i].unit)'
  <2> TAKE i \in Depth'
  <2>1. CASE stack[i].unit = Top.unit
    BY <1>1, <2>1 DEF Top, SameCall
  <2>2. CASE \E j \in 2 .. Len(stack) : Requiring(j) /\ stack[j - 1].unit = stack[i].unit
    <3>1. PICK j \in 2 .. Len(stack) : Requiring(j) /\ stack[j - 1].unit = stack[i].unit
      BY <2>2
    <3>2. j \in Depth /\ j - 1 \in Depth
      BY <1>1
    <3> QED
      BY <1>1, <3>1, <3>2 DEF Requiring, SameCall
  <2> QED
    BY <1>1, <2>1, <2>2 DEF Waiting
<1>6. (\A i, j \in Depth :
        i < j /\ stack[i].unit = stack[j].unit /\ stack[j].op = "ensure" => stack[i].op \in {"require", "ensure"})'
  <2>1. \A i \in Depth : stack'[i].op = stack[i].op /\ stack'[i].unit = stack[i].unit
    BY DEF SameCall
  <2>2. \A i, j \in Depth :
          i < j /\ stack[i].unit = stack[j].unit /\ stack[j].op = "ensure" => stack[i].op \in {"require", "ensure"}
    BY DEF Waiting
  <2> QED
    BY <1>1, <2>1, <2>2
<1> QED
  BY <1>3, <1>4, <1>5, <1>6 DEF Waiting

LEMMA WaitingPush ==
  ASSUME Typed, Waiting, Kept, stack # << >>, NEW d \in Frame, stack' = Append(stack, d),
         d.unit = Top.unit, d.op # "require", d.op = "ensure" => Top.op = "ensure",
         d.op = "load" => d.arg \in ImportsOf(source[d.unit])
  PROVE  Waiting'
<1>1. PICK n \in Nat : /\ Len(stack) = n /\ n > 0 /\ Len(stack') = n + 1
                       /\ stack'[n + 1] = d
                       /\ \A i \in 1 .. n : SameCall(i)
  BY PushCalls
<1>2. Depth = 1 .. n /\ Depth' = 1 .. n + 1 /\ Top = stack[n] /\ Top' = d
  BY <1>1 DEF Depth, Top
<1>3. \A i \in Depth : stack[i].unit \in Elements(units)
  BY DEF Typed, Loaded
<1>4. \A i \in Depth' : i \in Depth \/ i = n + 1
  BY <1>1, <1>2
<1>5. (\A i \in Depth : stack[i].op = "load" => stack[i].arg \in ImportsOf(source[stack[i].unit]))'
  <2> TAKE i \in Depth'
  <2>1. CASE i \in Depth
    <3>1. SameCall(i) /\ source'[stack'[i].unit] = source[stack[i].unit]
      BY <1>1, <1>2, <1>3, <2>1 DEF SameCall, Kept
    <3>2. ImportsOf(source[stack[i].unit])' = ImportsOf(source[stack[i].unit])
      BY <3>1 DEF ImportsOf, IsImport, Parses, Abandoned
    <3>3. stack[i].op = "load" => stack[i].arg \in ImportsOf(source[stack[i].unit])
      BY <2>1 DEF Waiting
    <3> QED
      BY <3>1, <3>2, <3>3 DEF SameCall
  <2>2. CASE i = n + 1
    <3>1. stack'[i] = d /\ source'[d.unit] = source[d.unit]
      BY <1>1, <1>2, <1>3, <2>2 DEF Kept
    <3> QED
      BY <3>1 DEF ImportsOf, IsImport, Parses, Abandoned
  <2> QED
    BY <1>4, <2>1, <2>2
<1>6. (\A i \in Depth : \E k \in 1 .. i : Requiring(k) /\ stack[k].unit = stack[i].unit)'
  <2> TAKE i \in Depth'
  <2>1. CASE i \in Depth
    <3>1. PICK k \in 1 .. i : Requiring(k) /\ stack[k].unit = stack[i].unit
      BY <2>1 DEF Waiting
    <3>2. k \in Depth
      BY <1>2, <2>1
    <3> QED
      BY <1>1, <1>2, <2>1, <3>1, <3>2 DEF Requiring, SameCall
  <2>2. CASE i = n + 1
    <3>1. n \in Depth
      BY <1>1, <1>2
    <3>2. PICK k \in 1 .. n : Requiring(k) /\ stack[k].unit = stack[n].unit
      BY <3>1 DEF Waiting
    <3>3. k \in 1 .. i
      BY <2>2
    <3> QED
      BY <1>1, <1>2, <2>2, <3>2, <3>3 DEF Requiring, SameCall
  <2> QED
    BY <1>4, <2>1, <2>2
<1>7. (\A i \in Depth : \/ stack[i].unit = Top.unit
                        \/ \E j \in 2 .. Len(stack) : Requiring(j) /\ stack[j - 1].unit = stack[i].unit)'
  <2> TAKE i \in Depth'
  <2>1. CASE i = n + 1
    BY <1>1, <1>2, <2>1
  <2>2. CASE i \in Depth /\ stack[i].unit = Top.unit
    BY <1>1, <1>2, <2>2 DEF SameCall
  <2>3. CASE i \in Depth /\ \E j \in 2 .. Len(stack) : Requiring(j) /\ stack[j - 1].unit = stack[i].unit
    <3>1. PICK j \in 2 .. Len(stack) : Requiring(j) /\ stack[j - 1].unit = stack[i].unit
      BY <2>3
    <3>2. j \in 1 .. n /\ j - 1 \in 1 .. n /\ j \in 2 .. Len(stack')
      BY <1>1
    <3> QED
      BY <1>1, <1>2, <2>3, <3>1, <3>2 DEF Requiring, SameCall
  <2> QED
    BY <1>4, <2>1, <2>2, <2>3 DEF Waiting
<1>8. (\A i, j \in Depth :
        i < j /\ stack[i].unit = stack[j].unit /\ stack[j].op = "ensure" => stack[i].op \in {"require", "ensure"})'
  <2> TAKE i \in Depth', j \in Depth'
  <2>1. CASE i \in Depth /\ j \in Depth
    BY <1>1, <1>2, <2>1 DEF Waiting, SameCall
  <2>2. CASE i \in Depth /\ j = n + 1 /\ stack'[j].op = "ensure" /\ stack'[i].unit = stack'[j].unit
    <3>1. stack[n].op = "ensure" /\ stack[i].unit = stack[n].unit /\ n \in Depth
      BY <1>1, <1>2, <2>2 DEF SameCall
    <3>2. i < n \/ i = n
      BY <1>1, <1>2, <2>2
    <3> QED
      BY <1>1, <1>2, <2>2, <3>1, <3>2 DEF Waiting, SameCall
  <2>3. i < j => (i \in Depth /\ j \in Depth) \/ (i \in Depth /\ j = n + 1)
    BY <1>1, <1>2
  <2> QED
    BY <1>1, <2>1, <2>2, <2>3
<1> QED
  BY <1>5, <1>6, <1>7, <1>8 DEF Waiting

(* A unit that is not active has no call in progress.                      *)
LEMMA NoCallOfInactive ==
  ASSUME Typed, Waiting, Entries, NEW f \in File, f \notin activeUnits
  PROVE  \A i \in Depth : stack[i].unit # f
<1> SUFFICES ASSUME NEW i \in Depth, stack[i].unit = f PROVE FALSE
  OBVIOUS
<1>1. PICK k \in 1 .. i : Requiring(k) /\ stack[k].unit = f
  BY DEF Waiting
<1>2. k \in Depth
  BY StackFacts DEF Depth
<1> QED
  BY <1>1, <1>2 DEF Entries, UnitEntry

LEMMA WaitingRequire ==
  ASSUME Typed, Waiting, Entries, Kept,
         NEW f \in File, NEW s \in StageId, NEW r \in DOMAIN RuleBook, Require(f, s, r)
  PROVE  Waiting'
<1>0. PICK n \in Nat : Entered(n, f, s, r)
  BY RequireCalls
<1>1. /\ Len(stack) = n /\ Len(stack') = n + 2
      /\ \A i \in 1 .. n : SameCall(i)
      /\ stack'[n + 1].op = "require" /\ stack'[n + 1].unit = f
      /\ stack'[n + 2].op = "ensure" /\ stack'[n + 2].unit = f
  BY <1>0 DEF Entered
<1>2. Depth = 1 .. n /\ Depth' = 1 .. n + 2 /\ Top = stack[n] /\ Top' = stack'[n + 2]
  BY <1>1 DEF Depth, Top
<1>3. \A i \in Depth' : i \in Depth \/ i = n + 1 \/ i = n + 2
  BY <1>1, <1>2
<1>4. \A i \in Depth : stack[i].unit \in Elements(units) /\ SameCall(i) /\ i \in Nat /\ i <= n
  BY <1>1, <1>2 DEF Typed, Loaded
<1>5. \A i \in Depth : stack[i].unit # f
  <2>1. f \notin activeUnits
    BY DEF Require
  <2> QED
    BY <2>1, NoCallOfInactive
<1>6. (\A i \in Depth : stack[i].op = "load" => stack[i].arg \in ImportsOf(source[stack[i].unit]))'
  <2> TAKE i \in Depth'
  <2>1. CASE i \in Depth
    <3>1. SameCall(i) /\ source'[stack'[i].unit] = source[stack[i].unit]
      BY <1>4, <2>1 DEF SameCall, Kept
    <3>2. ImportsOf(source[stack[i].unit])' = ImportsOf(source[stack[i].unit])
      BY <3>1 DEF ImportsOf, IsImport, Parses, Abandoned
    <3>3. stack[i].op = "load" => stack[i].arg \in ImportsOf(source[stack[i].unit])
      BY <2>1 DEF Waiting
    <3> QED
      BY <3>1, <3>2, <3>3 DEF SameCall
  <2> QED
    BY <1>1, <1>3, <2>1
<1>7. (\A i \in Depth : \E k \in 1 .. i : Requiring(k) /\ stack[k].unit = stack[i].unit)'
  <2> TAKE i \in Depth'
  <2>1. CASE i \in Depth
    <3>1. PICK k \in 1 .. i : Requiring(k) /\ stack[k].unit = stack[i].unit
      BY <2>1 DEF Waiting
    <3>2. k \in Depth
      BY <1>2, <2>1
    <3> QED
      BY <1>4, <2>1, <3>1, <3>2 DEF Requiring, SameCall
  <2>2. CASE i = n + 1 \/ i = n + 2
    <3>1. n + 1 \in 1 .. i
      BY <2>2
    <3> QED
      BY <1>1, <2>2, <3>1 DEF Requiring
  <2> QED
    BY <1>3, <2>1, <2>2
<1>8. (\A i \in Depth : \/ stack[i].unit = Top.unit
                        \/ \E j \in 2 .. Len(stack) : Requiring(j) /\ stack[j - 1].unit = stack[i].unit)'
  <2> TAKE i \in Depth'
  <2>1. CASE i = n + 1 \/ i = n + 2
    BY <1>1, <1>2, <2>1
  <2>2. CASE i \in Depth /\ stack[i].unit = Top.unit
    <3>1. n + 1 \in 2 .. Len(stack') /\ (n + 1) - 1 = n /\ n \in Depth
      BY <1>1, <1>2, <2>2
    <3>2. stack'[n].unit = stack'[i].unit
      BY <1>2, <1>4, <2>2, <3>1 DEF SameCall
    <3> QED
      BY <1>1, <3>1, <3>2 DEF Requiring
  <2>3. CASE i \in Depth /\ \E j \in 2 .. Len(stack) : Requiring(j) /\ stack[j - 1].unit = stack[i].unit
    <3>1. PICK j \in 2 .. Len(stack) : Requiring(j) /\ stack[j - 1].unit = stack[i].unit
      BY <2>3
    <3>2. j \in Depth /\ j - 1 \in Depth /\ j \in 2 .. Len(stack')
      BY <1>1, <1>2
    <3> QED
      BY <1>4, <2>3, <3>1, <3>2 DEF Requiring, SameCall
  <2> QED
    BY <1>3, <2>1, <2>2, <2>3 DEF Waiting
<1>9. (\A i, j \in Depth :
        i < j /\ stack[i].unit = stack[j].unit /\ stack[j].op = "ensure" => stack[i].op \in {"require", "ensure"})'
  <2> TAKE i \in Depth', j \in Depth'
  <2>1. CASE i \in Depth /\ j \in Depth
    BY <1>4, <2>1 DEF Waiting, SameCall
  <2>2. CASE i \in Depth /\ j = n + 2
    BY <1>1, <1>4, <1>5, <2>2 DEF SameCall
  <2>3. CASE j = n + 1 \/ i = n + 1
    BY <1>1, <2>3
  <2>4. i < j => (i \in Depth /\ j \in Depth) \/ (i \in Depth /\ j = n + 2) \/ j = n + 1 \/ i = n + 1
    BY <1>1, <1>2
  <2> QED
    BY <2>1, <2>2, <2>3, <2>4
<1> QED
  BY <1>6, <1>7, <1>8, <1>9 DEF Waiting

LEMMA WaitingReturn ==
  ASSUME Typed, Waiting, Entries, Kept, stack # << >>, stack' = Return
  PROVE  Waiting'
<1>1. PICK n \in Nat : Len(stack) = n + 1 /\ Len(stack') = n /\ \A i \in 1 .. n : SameCall(i)
  BY ReturnCalls
<1>2. Depth = 1 .. n + 1 /\ Depth' = 1 .. n /\ Top = stack[n + 1] /\ Top' = stack'[n]
  BY <1>1 DEF Depth, Top
<1>3. \A i \in Depth' : /\ i \in Depth /\ i # n + 1 /\ SameCall(i)
                        /\ stack[i].unit \in Elements(units)
                        /\ \A k \in 1 .. i : k \in Depth'
  BY <1>1, <1>2 DEF Typed, Loaded
<1>4. (\A i \in Depth : stack[i].op = "load" => stack[i].arg \in ImportsOf(source[stack[i].unit]))'
  <2> TAKE i \in Depth'
  <2>1. SameCall(i) /\ source'[stack'[i].unit] = source[stack[i].unit]
    BY <1>3 DEF SameCall, Kept
  <2>2. ImportsOf(source[stack[i].unit])' = ImportsOf(source[stack[i].unit])
    BY <2>1 DEF ImportsOf, IsImport, Parses, Abandoned
  <2>3. stack[i].op = "load" => stack[i].arg \in ImportsOf(source[stack[i].unit])
    BY <1>3 DEF Waiting
  <2> QED
    BY <2>1, <2>2, <2>3 DEF SameCall
<1>5. (\A i \in Depth : \E k \in 1 .. i : Requiring(k) /\ stack[k].unit = stack[i].unit)'
  <2> TAKE i \in Depth'
  <2>1. PICK k \in 1 .. i : Requiring(k) /\ stack[k].unit = stack[i].unit
    BY <1>3 DEF Waiting
  <2> QED
    BY <1>3, <2>1 DEF Requiring, SameCall
<1>6. (\A i \in Depth : \/ stack[i].unit = Top.unit
                        \/ \E j \in 2 .. Len(stack) : Requiring(j) /\ stack[j - 1].unit = stack[i].unit)'
  <2> TAKE i \in Depth'
  <2>1. n > 0 /\ n \in Depth' /\ n + 1 \in Depth
    BY <1>1, <1>2
  <2>2. CASE stack[i].unit = Top.unit
    <3>1. Top.op # "require"
      <4> SUFFICES ASSUME Top.op = "require" PROVE FALSE
        OBVIOUS
      <4>1. PICK k \in 1 .. i : Requiring(k) /\ stack[k].unit = stack[i].unit
        BY <1>3 DEF Waiting
      <4>2. k \in Depth /\ k # n + 1
        BY <1>2, <1>3
      <4> QED
        BY <1>2, <2>1, <2>2, <4>1, <4>2 DEF Entries, OneEntry, Requiring
    <3>2. Top.unit = stack[n].unit
      BY <1>1, <2>1, <3>1, CallerOfTop
    <3> QED
      BY <1>2, <1>3, <2>1, <2>2, <3>2 DEF SameCall
  <2>3. CASE \E j \in 2 .. Len(stack) : Requiring(j) /\ stack[j - 1].unit = stack[i].unit
    <3>1. PICK j \in 2 .. Len(stack) : Requiring(j) /\ stack[j - 1].unit = stack[i].unit
      BY <2>3
    <3>2. CASE j = n + 1
      <4>1. stack[n].unit = stack[i].unit
        BY <3>1, <3>2
      <4> QED
        BY <1>2, <1>3, <2>1, <4>1 DEF SameCall
    <3>3. CASE j # n + 1
      <4>1. j \in Depth' /\ j - 1 \in Depth' /\ j \in 2 .. Len(stack')
        BY <1>1, <1>2, <3>3
      <4> QED
        BY <1>3, <3>1, <4>1 DEF Requiring, SameCall
    <3> QED
      BY <3>2, <3>3
  <2> QED
    BY <1>3, <2>2, <2>3 DEF Waiting
<1>7. (\A i, j \in Depth :
        i < j /\ stack[i].unit = stack[j].unit /\ stack[j].op = "ensure" => stack[i].op \in {"require", "ensure"})'
  <2> TAKE i \in Depth', j \in Depth'
  <2> QED
    BY <1>3 DEF Waiting, SameCall
<1> QED
  BY <1>4, <1>5, <1>6, <1>7 DEF Waiting
-----------------------------------------------------------------------------
(* What is needed of a rule set, and the place of a stage under normal().  *)
LEMMA DependsType ==
  \A r \in DOMAIN RuleBook, s \in StageId : Depends(r, s) \subseteq StageId
<1> SUFFICES ASSUME NEW r \in DOMAIN RuleBook, NEW s \in StageId
             PROVE  Depends(r, s) \subseteq StageId
  OBVIOUS
<1>1. CASE s \in DOMAIN RuleBook[r]
  <2>1. RuleBook[r][s] \in Seq(StageId)
    BY <1>1, RulesAssumption
  <2> QED
    BY <1>1, <2>1, ElementOfSeq, LenProperties DEF Depends, Elements
<1> QED
  BY <1>1 DEF Depends

LEMMA NeededClosed ==
  \A r \in DOMAIN RuleBook, target \in StageId :
    /\ NeededFor[r][target] \subseteq StageId
    /\ target \in NeededFor[r][target]
    /\ \A s \in NeededFor[r][target] : Depends(r, s) \subseteq NeededFor[r][target]
BY DependsType DEF NeededFor

LEMMA PlaceFalls ==
  \A s \in DOMAIN Normal : \A t \in Elements(Normal[s]) :
    t \in DOMAIN Normal /\ Place[t] \in Nat /\ Place[s] \in Nat /\ Place[t] < Place[s]
<1> SUFFICES ASSUME NEW s \in DOMAIN Normal, NEW t \in Elements(Normal[s])
             PROVE  t \in DOMAIN Normal /\ Place[t] \in Nat /\ Place[s] \in Nat /\ Place[t] < Place[s]
  OBVIOUS
<1>1. s \in {"Lex", "Parser", "SymbolCollector", "Resolver", "Check", "Lowering", "Transpile"}
  BY DEF Normal
<1>2. CASE s = "Lex"
  BY <1>2 DEF Normal, Elements
<1>3. CASE s = "Parser"
  BY <1>3 DEF Normal, Elements, Place
<1>4. CASE s = "SymbolCollector"
  BY <1>4 DEF Normal, Elements, Place
<1>5. CASE s = "Resolver"
  BY <1>5 DEF Normal, Elements, Place
<1>6. CASE s = "Check"
  BY <1>6 DEF Normal, Elements, Place
<1>7. CASE s = "Lowering"
  BY <1>7 DEF Normal, Elements, Place
<1>8. CASE s = "Transpile"
  BY <1>8 DEF Normal, Elements, Place
<1> QED
  BY <1>1, <1>2, <1>3, <1>4, <1>5, <1>6, <1>7, <1>8

LEMMA RequestFacts ==
  ASSUME Typed
  PROVE  /\ request.stage \in StageId /\ request.rules \in DOMAIN RuleBook
         /\ Needed \subseteq StageId
         /\ request.stage \in Needed
         /\ \A s \in Needed : DependsOn(s) \subseteq Needed
<1>1. request.stage \in StageId /\ request.rules \in DOMAIN RuleBook
  BY RulesAssumption DEF Typed, TypeOK
<1> QED
  BY <1>1, NeededClosed DEF Needed, DependsOn
-----------------------------------------------------------------------------
(* Ruled, for each of the moves of the stack.                              *)
LEMMA RuledSame ==
  ASSUME Typed, Ruled, request' = request, Len(stack') = Len(stack), \A i \in Depth : SameCall(i)
  PROVE  Ruled'
<1>1. PICK n \in Nat : n = Len(stack) /\ n = Len(stack') /\ Depth = 1 .. n /\ Depth' = 1 .. n
  BY StackFacts DEF Depth
<1>2. Needed' = Needed
  BY DEF Needed
<1>3. (stack # << >> => stack[1].unit = Main)'
  <2> SUFFICES ASSUME stack' # << >> PROVE stack'[1].unit = Main
    OBVIOUS
  <2>1. 1 \in Depth /\ stack # << >>
    BY <1>1, StackFacts DEF Typed, TypeOK
  <2> QED
    BY <2>1 DEF Ruled, SameCall
<1>4. (\A i \in Depth : stack[i].unit = Main /\ stack[i].op \in {"require", "ensure"} =>
        /\ stack[i].rules = request.rules
        /\ stack[i].arg \in Needed
        /\ Requiring(i) => stack[i].arg = request.stage)'
  BY <1>1, <1>2 DEF Ruled, SameCall, Requiring
<1>5. (\A i \in Depth : stack[i].unit # Main /\ stack[i].op \in {"require", "ensure"} =>
        /\ stack[i].rules = "normal"
        /\ stack[i].arg \in DOMAIN Normal
        /\ Requiring(i) => stack[i].arg = "Check")'
  BY <1>1 DEF Ruled, SameCall, Requiring
<1>6. (\A i, j \in Depth :
        i < j /\ stack[i].unit = stack[j].unit /\ stack[i].unit # Main
          /\ stack[i].op = "ensure" /\ stack[j].op = "ensure" => Place[stack[j].arg] < Place[stack[i].arg])'
  BY <1>1 DEF Ruled, SameCall
<1> QED
  BY <1>3, <1>4, <1>5, <1>6 DEF Ruled

LEMMA RuledReturn ==
  ASSUME Typed, Ruled, request' = request, stack # << >>, stack' = Return
  PROVE  Ruled'
<1>1. PICK n \in Nat : Len(stack) = n + 1 /\ Len(stack') = n /\ \A i \in 1 .. n : SameCall(i)
  BY ReturnCalls
<1>2. Depth' = 1 .. n /\ \A i \in Depth' : i \in Depth /\ SameCall(i)
  BY <1>1 DEF Depth
<1>3. Needed' = Needed
  BY DEF Needed
<1>4. (stack # << >> => stack[1].unit = Main)'
  <2> SUFFICES ASSUME stack' # << >> PROVE stack'[1].unit = Main
    OBVIOUS
  <2>1. stack' \in Seq(Frame)
    BY <1>1, ReturnStack, StackFacts
  <2>2. 1 \in Depth'
    BY <1>1, <1>2, <2>1
  <2> QED
    BY <1>2, <2>2 DEF Ruled, SameCall
<1>5. (\A i \in Depth : stack[i].unit = Main /\ stack[i].op \in {"require", "ensure"} =>
        /\ stack[i].rules = request.rules
        /\ stack[i].arg \in Needed
        /\ Requiring(i) => stack[i].arg = request.stage)'
  BY <1>2, <1>3 DEF Ruled, SameCall, Requiring
<1>6. (\A i \in Depth : stack[i].unit # Main /\ stack[i].op \in {"require", "ensure"} =>
        /\ stack[i].rules = "normal"
        /\ stack[i].arg \in DOMAIN Normal
        /\ Requiring(i) => stack[i].arg = "Check")'
  BY <1>2 DEF Ruled, SameCall, Requiring
<1>7. (\A i, j \in Depth :
        i < j /\ stack[i].unit = stack[j].unit /\ stack[i].unit # Main
          /\ stack[i].op = "ensure" /\ stack[j].op = "ensure" => Place[stack[j].arg] < Place[stack[i].arg])'
  BY <1>2 DEF Ruled, SameCall
<1> QED
  BY <1>4, <1>5, <1>6, <1>7 DEF Ruled

LEMMA RuledPush ==
  ASSUME Typed, Ruled, request' = request, stack # << >>, NEW d \in Frame,
         stack' = Append(stack, d), d.op # "require",
         d.op = "ensure" /\ d.unit = Main => d.rules = request.rules /\ d.arg \in Needed,
         d.op = "ensure" /\ d.unit # Main =>
           /\ d.rules = "normal" /\ d.arg \in DOMAIN Normal
           /\ \A i \in Depth : stack[i].unit = d.unit /\ stack[i].op = "ensure" =>
                                 Place[d.arg] < Place[stack[i].arg]
  PROVE  Ruled'
<1>1. PICK n \in Nat : /\ Len(stack) = n /\ n > 0 /\ Len(stack') = n + 1
                       /\ stack'[n + 1] = d
                       /\ \A i \in 1 .. n : SameCall(i)
  BY PushCalls
<1>2. Depth = 1 .. n /\ Depth' = 1 .. n + 1
  BY <1>1 DEF Depth
<1>3. \A i \in Depth' : (i \in Depth /\ SameCall(i)) \/ i = n + 1
  BY <1>1, <1>2
<1>4. Needed' = Needed
  BY DEF Needed
<1>5. (stack # << >> => stack[1].unit = Main)'
  BY <1>1 DEF Ruled, SameCall
<1>6. (\A i \in Depth : stack[i].unit = Main /\ stack[i].op \in {"require", "ensure"} =>
        /\ stack[i].rules = request.rules
        /\ stack[i].arg \in Needed
        /\ Requiring(i) => stack[i].arg = request.stage)'
  <2> TAKE i \in Depth'
  <2>1. CASE i \in Depth /\ SameCall(i)
    <3>1. /\ stack'[i].op = stack[i].op /\ stack'[i].unit = stack[i].unit
          /\ stack'[i].arg = stack[i].arg /\ stack'[i].rules = stack[i].rules
      BY <2>1 DEF SameCall
    <3> QED
      BY <1>4, <2>1, <3>1 DEF Ruled, Requiring
  <2>2. CASE i = n + 1
    BY <1>1, <1>4, <2>2 DEF Requiring
  <2> QED
    BY <1>3, <2>1, <2>2
<1>7. (\A i \in Depth : stack[i].unit # Main /\ stack[i].op \in {"require", "ensure"} =>
        /\ stack[i].rules = "normal"
        /\ stack[i].arg \in DOMAIN Normal
        /\ Requiring(i) => stack[i].arg = "Check")'
  <2> TAKE i \in Depth'
  <2>1. CASE i \in Depth /\ SameCall(i)
    <3>1. /\ stack'[i].op = stack[i].op /\ stack'[i].unit = stack[i].unit
          /\ stack'[i].arg = stack[i].arg /\ stack'[i].rules = stack[i].rules
      BY <2>1 DEF SameCall
    <3> QED
      BY <1>4, <2>1, <3>1 DEF Ruled, Requiring
  <2>2. CASE i = n + 1
    BY <1>1, <1>4, <2>2 DEF Requiring
  <2> QED
    BY <1>3, <2>1, <2>2
<1>8. (\A i, j \in Depth :
        i < j /\ stack[i].unit = stack[j].unit /\ stack[i].unit # Main
          /\ stack[i].op = "ensure" /\ stack[j].op = "ensure" => Place[stack[j].arg] < Place[stack[i].arg])'
  <2> TAKE i \in Depth', j \in Depth'
  <2>1. CASE i \in Depth /\ j \in Depth
    BY <1>1, <1>2, <2>1 DEF Ruled, SameCall
  <2>2. CASE i \in Depth /\ j = n + 1
    BY <1>1, <1>2, <2>2 DEF SameCall
  <2>3. i < j => (i \in Depth /\ j \in Depth) \/ (i \in Depth /\ j = n + 1)
    BY <1>1, <1>2
  <2> QED
    BY <2>1, <2>2, <2>3
<1> QED
  BY <1>5, <1>6, <1>7, <1>8 DEF Ruled

LEMMA RuledRequire ==
  ASSUME Typed, Waiting, Ruled, Entries, request' = request,
         NEW f \in File, NEW s \in StageId, NEW r \in DOMAIN RuleBook, Require(f, s, r),
         stack = << >> => f = Main /\ s = request.stage /\ r = request.rules,
         stack # << >> => s = "Check" /\ r = "normal"
  PROVE  Ruled'
<1>0. PICK n \in Nat : Entered(n, f, s, r)
  BY RequireCalls
<1>1. /\ Len(stack) = n /\ Len(stack') = n + 2
      /\ \A i \in 1 .. n : SameCall(i)
      /\ stack'[n + 1].op = "require" /\ stack'[n + 1].unit = f
      /\ stack'[n + 1].arg = s /\ stack'[n + 1].rules = r
      /\ stack'[n + 2].op = "ensure" /\ stack'[n + 2].unit = f
      /\ stack'[n + 2].arg = s /\ stack'[n + 2].rules = r
  BY <1>0 DEF Entered
<1>2. Depth = 1 .. n /\ Depth' = 1 .. n + 2
  BY <1>1 DEF Depth
<1>3. \A i \in Depth' : (i \in Depth /\ SameCall(i)) \/ i = n + 1 \/ i = n + 2
  BY <1>1, <1>2
<1>4. \A i \in Depth : SameCall(i) /\ stack[i].unit # f
  <2>1. f \notin activeUnits
    BY DEF Require
  <2> QED
    BY <1>1, <1>2, <2>1, NoCallOfInactive
<1>5. stack = << >> <=> n = 0
  BY <1>1, StackFacts DEF Typed, TypeOK
<1>6. /\ f = Main => stack = << >>
      /\ "Check" \in DOMAIN Normal
      /\ request.stage \in Needed
      /\ Needed' = Needed
  <2>1. stack # << >> => 1 \in Depth /\ stack[1].unit = Main
    BY <1>1, <1>2, <1>5 DEF Ruled
  <2>2. "Check" \in DOMAIN Normal
    BY DEF Normal
  <2>3. Needed' = Needed
    BY DEF Needed
  <2> QED
    BY <1>4, <2>1, <2>2, <2>3, RequestFacts
<1>7. (stack # << >> => stack[1].unit = Main)'
  <2>1. CASE n = 0
    BY <1>1, <1>5, <2>1
  <2>2. CASE n > 0
    BY <1>1, <1>5, <2>2 DEF Ruled, SameCall
  <2> QED
    BY <2>1, <2>2
<1>8. (\A i \in Depth : stack[i].unit = Main /\ stack[i].op \in {"require", "ensure"} =>
        /\ stack[i].rules = request.rules
        /\ stack[i].arg \in Needed
        /\ Requiring(i) => stack[i].arg = request.stage)'
  <2> TAKE i \in Depth'
  <2>1. CASE i \in Depth /\ SameCall(i)
    BY <1>6, <2>1 DEF Ruled, SameCall, Requiring
  <2>2. CASE i = n + 1 \/ i = n + 2
    BY <1>1, <1>6, <2>2 DEF Requiring
  <2> QED
    BY <1>3, <2>1, <2>2
<1>9. (\A i \in Depth : stack[i].unit # Main /\ stack[i].op \in {"require", "ensure"} =>
        /\ stack[i].rules = "normal"
        /\ stack[i].arg \in DOMAIN Normal
        /\ Requiring(i) => stack[i].arg = "Check")'
  <2> TAKE i \in Depth'
  <2>1. CASE i \in Depth /\ SameCall(i)
    BY <2>1 DEF Ruled, SameCall, Requiring
  <2>2. CASE i = n + 1 \/ i = n + 2
    BY <1>1, <1>6, <2>2 DEF Requiring
  <2> QED
    BY <1>3, <2>1, <2>2
<1>10. (\A i, j \in Depth :
        i < j /\ stack[i].unit = stack[j].unit /\ stack[i].unit # Main
          /\ stack[i].op = "ensure" /\ stack[j].op = "ensure" => Place[stack[j].arg] < Place[stack[i].arg])'
  <2> TAKE i \in Depth', j \in Depth'
  <2>1. CASE i \in Depth /\ j \in Depth
    BY <1>4, <2>1 DEF Ruled, SameCall
  <2>2. CASE i \in Depth /\ j \notin Depth
    BY <1>1, <1>3, <1>4, <2>2 DEF SameCall
  <2>3. CASE i = n + 1 \/ j = n + 1
    BY <1>1, <2>3
  <2>4. i < j => i \in Depth \/ i = n + 1
    BY <1>1, <1>2
  <2> QED
    BY <2>1, <2>2, <2>3, <2>4
<1> QED
  BY <1>7, <1>8, <1>9, <1>10 DEF Ruled
-----------------------------------------------------------------------------
(* Both, for every step.                                                   *)
Orderly == Waiting /\ Ruled

LEMMA NothingLeft ==
  ASSUME stack \in Seq(Frame)
  PROVE  Depth = {} => stack = << >>
<1>1. Len(stack) \in Nat /\ (Len(stack) = 0 => stack = << >>)
  OBVIOUS
<1>2. Len(stack) # 0 => 1 \in Depth
  BY <1>1 DEF Depth
<1> QED
  BY <1>1, <1>2

LEMMA NothingYet ==
  ASSUME Typed, units = << >>
  PROVE  stack = << >> /\ Depth = {} /\ Elements(units) = {}
<1>1. Elements(units) = {}
  BY DEF Elements
<1>2. Depth = {}
  BY <1>1 DEF Typed, Loaded
<1> QED
  BY <1>1, <1>2, NothingLeft DEF Typed, TypeOK

LEMMA OrderlyInit == Init => Orderly
<1> SUFFICES ASSUME Init PROVE Orderly
  OBVIOUS
<1>1. stack = << >> /\ Depth = {}
  BY DEF Init, Depth
<1> QED
  BY <1>1 DEF Orderly, Waiting, Ruled

LEMMA OrderlyIndex ==
  ASSUME Typed, NEW f \in File, IndexFile(f)
  PROVE  Orderly'
<1>1. stack' = stack /\ units = << >>
  BY DEF IndexFile, Typed, Loaded
<1>2. stack' = << >>
  BY <1>1, NothingYet
<1>3. Depth' = {}
  BY <1>2 DEF Depth
<1> QED
  BY <1>2, <1>3 DEF Orderly, Waiting, Ruled

LEMMA OrderlyIdle ==
  ASSUME Typed, Orderly, Kept, request' = request, stack' = stack
  PROVE  Orderly'
<1>1. Len(stack') = Len(stack) /\ \A i \in Depth : SameCall(i)
  BY DEF SameCall
<1> QED
  BY <1>1, WaitingSame, RuledSame DEF Orderly

LEMMA OrderlyAdvance ==
  ASSUME Typed, Orderly, RunStage \/ EnsureEnter \/ ResolveOther \/ ImportUnknown
  PROVE  Orderly'
<1>1. stack # << >> /\ stack' = Advance(stack) /\ request' = request
  BY DEF RunStage, EnsureEnter, ResolveOther, ImportUnknown, AtRun, In, GoTo
<1>2. Kept
  BY TypedRunStage, TypedEnsureEnter, TypedResolveNext
<1>3. Len(stack') = Len(stack) /\ \A i \in Depth : SameCall(i)
  BY <1>1, AdvanceCalls
<1> QED
  BY <1>1, <1>2, <1>3, WaitingSame, RuledSame DEF Orderly

LEMMA OrderlyReturn ==
  ASSUME Typed, Orderly, Entries,
         EnsureCompleted \/ EnsureReturn \/ ResolveReturn \/ LoadReturn \/ RequireReturn
  PROVE  Orderly'
<1>1. stack # << >> /\ stack' = Return /\ request' = request
  BY DEF EnsureCompleted, EnsureReturn, ResolveReturn, LoadReturn, RequireReturn, In, GoTo
<1>2. Kept
  BY TypedReturns, TypedRequireReturn, TypedEnsureReturn
<1> QED
  BY <1>1, <1>2, WaitingReturn, RuledReturn DEF Orderly

LEMMA OrderlyRequire ==
  ASSUME Typed, Orderly, Entries, Start \/ LoadProvider
  PROVE  Orderly'
<1>1. CASE Start
  <2>1. /\ Require(Main, request.stage, request.rules) /\ request' = request /\ units = << >>
        /\ Main \in File /\ request.stage \in StageId /\ request.rules \in DOMAIN RuleBook
    BY <1>1, RequestFacts, FilesAssumption DEF Start
  <2>2. stack = << >> /\ Kept
    BY <1>1, <2>1, NothingYet, TypedStart
  <2> QED
    BY <2>1, <2>2, WaitingRequire, RuledRequire DEF Orderly
<1>2. CASE LoadProvider
  <2>1. /\ stack # << >> /\ Provider \in File /\ request' = request
        /\ Require(Provider, "Check", "normal")
    BY <1>2, ProviderFacts DEF LoadProvider
  <2>2. "Check" \in StageId /\ "normal" \in DOMAIN RuleBook
    BY RulesAssumption DEF StageId
  <2>3. Kept
    BY <1>2, TypedLoadProvider
  <2> QED
    BY <2>1, <2>2, <2>3, WaitingRequire, RuledRequire DEF Orderly
<1> QED
  BY <1>1, <1>2

(* The rules by which the innermost ensure() runs.                         *)
LEMMA TopRuled ==
  ASSUME Typed, Orderly, stack # << >>, Top.op = "ensure"
  PROVE  /\ Top.unit = Main => Top.rules = request.rules /\ Top.arg \in Needed
         /\ Top.unit # Main => Top.rules = "normal" /\ Top.arg \in DOMAIN Normal
BY StackFacts DEF Orderly, Ruled, Top

LEMMA TopDepends ==
  ASSUME Typed, Orderly, stack # << >>, Top.op = "ensure", Top.at > 0
  PROVE  /\ Top.unit = Main => DependsOn(Top.arg) = Elements(Rule)
         /\ Top.unit # Main => Normal[Top.arg] = Rule
BY TopRuled, TopFacts, RulesAssumption DEF DependsOn, Depends, Rule

LEMMA OrderlyDependency ==
  ASSUME Typed, Orderly, EnsureDependency
  PROVE  Orderly'
<1> DEFINE s == Rule[Top.at]
           d == Call("ensure", Top.unit, s, Top.rules, 0)
<1>1. /\ stack # << >> /\ Top.op = "ensure" /\ Top.at > 0 /\ Top.at <= Len(Rule)
      /\ stack' = Append(stack, d) /\ request' = request
  BY DEF EnsureDependency, In, GoTo
<1>2. /\ Top.unit \in File /\ Top.rules \in DOMAIN RuleBook /\ Top.arg \in DOMAIN RuleBook[Top.rules]
      /\ Top.at \in Nat /\ Rule \in Seq(StageId)
  BY <1>1, TopFacts
<1>3. s \in StageId /\ s \in Elements(Rule)
  BY <1>1, <1>2, ElementOfSeq, LenProperties DEF Elements
<1>4. /\ d \in Frame /\ d.op = "ensure" /\ d.unit = Top.unit /\ d.arg = s /\ d.rules = Top.rules
  BY <1>2, <1>3, CallType
<1>5. Kept
  BY TypedEnsureDependency
<1> HIDE DEF d
<1>6. d.unit = Main => d.rules = request.rules /\ d.arg \in Needed
  BY <1>1, <1>3, <1>4, TopRuled, TopDepends, RequestFacts
<1>7. ASSUME d.unit # Main
      PROVE  /\ d.rules = "normal" /\ d.arg \in DOMAIN Normal
             /\ \A i \in Depth : stack[i].unit = d.unit /\ stack[i].op = "ensure" =>
                                   Place[d.arg] < Place[stack[i].arg]
  <2>1. Top.rules = "normal" /\ Top.arg \in DOMAIN Normal /\ Normal[Top.arg] = Rule
    BY <1>1, <1>4, <1>7, TopRuled, TopDepends
  <2>2. s \in DOMAIN Normal /\ Place[s] \in Nat /\ Place[Top.arg] \in Nat /\ Place[s] < Place[Top.arg]
    BY <1>3, <2>1, PlaceFalls
  <2>3. ASSUME NEW i \in Depth, stack[i].unit = d.unit, stack[i].op = "ensure"
        PROVE  Place[s] < Place[stack[i].arg]
    <3>1. Len(stack) \in Depth /\ Top = stack[Len(stack)] /\ (i = Len(stack) \/ i < Len(stack))
      BY <1>1, StackFacts DEF Top, Depth
    <3>2. CASE i = Len(stack)
      BY <2>2, <3>1, <3>2
    <3>3. CASE i < Len(stack)
      <4>1. Place[Top.arg] < Place[stack[i].arg]
        BY <1>1, <1>4, <1>7, <2>3, <3>1, <3>3 DEF Orderly, Ruled
      <4>2. stack[i].arg \in DOMAIN Normal
        BY <1>7, <2>3 DEF Orderly, Ruled
      <4>3. Place[stack[i].arg] \in Nat
        BY <4>2 DEF Place, Normal
      <4> QED
        BY <2>2, <4>1, <4>3
    <3> QED
      BY <3>1, <3>2, <3>3
  <2> QED
    BY <1>4, <2>1, <2>2, <2>3
<1>8. Waiting'
  BY <1>1, <1>4, <1>5, WaitingPush DEF Orderly
<1>9. Ruled'
  BY <1>1, <1>4, <1>6, <1>7, RuledPush DEF Orderly
<1> QED
  BY <1>8, <1>9 DEF Orderly

LEMMA OrderlyResolver ==
  ASSUME Typed, Orderly, RunResolver
  PROVE  Orderly'
<1> DEFINE d == Call("resolve", Top.unit, "Resolver", Top.rules, 1)
<1>1. stack # << >> /\ stack' = Append(stack, d) /\ request' = request
  BY DEF RunResolver, AtRun, In, GoTo
<1>2. d \in Frame /\ d.op = "resolve" /\ d.unit = Top.unit
  <2>1. Top.unit \in File /\ Top.rules \in DOMAIN RuleBook /\ "Resolver" \in StageId
    BY <1>1, TopFacts DEF StageId
  <2> QED
    BY <2>1, CallType
<1>3. Kept
  BY TypedRunResolver
<1> HIDE DEF d
<1> QED
  BY <1>1, <1>2, <1>3, WaitingPush, RuledPush DEF Orderly

LEMMA ImportNamed ==
  ASSUME Typed, In("resolve"), Top.at <= ItemCount, Imports(Top.at)
  PROVE  ImportName \in ImportsOf(source[Top.unit])
<1>1. /\ Top.unit \in Elements(units) /\ Top.at \in Nat /\ Top.at > 0
  BY TopFacts DEF In, FrameOK
<1>2. source[Top.unit] \in Seq(Item)
  BY <1>1, UnitTexts
<1>3. Top.at \in DOMAIN source[Top.unit]
  BY <1>1, <1>2, LenProperties DEF ItemCount
<1> QED
  BY <1>3 DEF ImportsOf, ImportName, Imports

LEMMA OrderlyImport ==
  ASSUME Typed, Orderly, ImportKnown
  PROVE  Orderly'
<1> DEFINE d == Call("load", Top.unit, ImportName, "normal", 1)
<1>1. stack # << >> /\ stack' = Append(stack, d) /\ request' = request /\ ImportName \in registered
  BY DEF ImportKnown, In, GoTo
<1>2. ImportName \in ImportsOf(source[Top.unit])
  BY ImportNamed DEF ImportKnown
<1>3. d \in Frame /\ d.op = "load" /\ d.unit = Top.unit /\ d.arg = ImportName
  <2>1. Top.unit \in File /\ ImportName \in Module /\ "normal" \in DOMAIN RuleBook
    BY <1>1, TopFacts, RulesAssumption DEF Typed, TypeOK
  <2> QED
    BY <2>1, CallType
<1>4. Kept
  BY TypedImportKnown
<1> HIDE DEF d
<1> QED
  BY <1>1, <1>2, <1>3, <1>4, WaitingPush, RuledPush DEF Orderly

LEMMA OrderlyStep ==
  ASSUME Typed, Orderly, Entries, [Next]_vars
  PROVE  Orderly'
<1>1. CASE \E f \in File : IndexFile(f)
  BY <1>1, OrderlyIndex
<1>2. CASE Ends \/ (\E f \in File, t \in Edits : Edit(f, t)) \/ UNCHANGED vars
  <2>1. stack' = stack /\ request' = request /\ Kept
    BY <1>2, EndsFacts DEF Edit, vars, index, Kept, Elements
  <2> QED
    BY <2>1, OrderlyIdle
<1>3. CASE Start \/ LoadProvider
  BY <1>3, OrderlyRequire
<1>4. CASE RunStage \/ EnsureEnter \/ ResolveOther \/ ImportUnknown
  BY <1>4, OrderlyAdvance
<1>5. CASE EnsureCompleted \/ EnsureReturn \/ ResolveReturn \/ LoadReturn \/ RequireReturn
  BY <1>5, OrderlyReturn
<1>6. CASE EnsureDependency \/ RunResolver \/ ImportKnown
  BY <1>6, OrderlyDependency, OrderlyResolver, OrderlyImport
<1> QED
  BY <1>1, <1>2, <1>3, <1>4, <1>5, <1>6
  DEF Next, Compile, Index, Ensure, Resolve, Load, Ends, Terminated
-----------------------------------------------------------------------------
(* What has been compiled.                                                 *)
LEMMA CyclicKept ==
  ASSUME Typed, Kept
  PROVE  \A S \in SUBSET Elements(units) : Cyclic(S)' <=> Cyclic(S)
<1> TAKE S \in SUBSET Elements(units)
<1>1. \A f \in S : Uses(f)' = Uses(f)
  BY UsesKept
<1> QED
  BY <1>1 DEF Cyclic

LEMMA CompiledInit == Init => Compiled
<1> SUFFICES ASSUME Init PROVE Compiled
  OBVIOUS
<1>1. Elements(units) = {} /\ (\A f \in File : completed[f] = {}) /\ Main \in File
  BY FilesAssumption DEF Init, Elements
<1> QED
  BY <1>1 DEF Compiled, Cyclic

LEMMA CompiledIndex ==
  ASSUME Typed, NEW f \in File, IndexFile(f)
  PROVE  Compiled'
<1>1. units = << >> /\ units' = units /\ completed' = completed
  BY DEF IndexFile, Typed, Loaded, pipe
<1>2. Elements(units) = {} /\ \A g \in File : completed[g] = {}
  BY <1>1, NothingYet DEF Typed, Loaded
<1>3. Elements(units)' = {}
  BY <1>1, <1>2 DEF Elements
<1> QED
  BY <1>1, <1>2, <1>3, FilesAssumption DEF Compiled, Cyclic

(* No stage completes.                                                     *)
LEMMA CompiledKept ==
  ASSUME Typed, Compiled, Kept, request' = request, completed' = completed,
         \A f \in Elements(units)' : f \in activeUnits' \/ (f \in Elements(units) /\ Target(f) \in completed[f])
  PROVE  Compiled'
<1>1. (\A f \in Elements(units) : f \in activeUnits \/ Target(f) \in completed[f])'
  BY DEF Target
<1>2. (\A s \in completed[Main] : DependsOn(s) \subseteq completed[Main])'
  BY DEF Compiled, DependsOn
<1>3. (\A S \in SUBSET {f \in File : "Resolver" \in completed[f]} : ~Cyclic(S))'
  <2>1. {f \in File : "Resolver" \in completed[f]} \subseteq Elements(units)
    BY DEF Typed, Loaded
  <2> QED
    BY <2>1, CyclicKept DEF Compiled
<1> QED
  BY <1>1, <1>2, <1>3 DEF Compiled

LEMMA CompiledIdle ==
  ASSUME Typed, Compiled, Kept, request' = request, UNCHANGED <<units, completed, activeUnits>>
  PROVE  Compiled'
<1>1. Elements(units)' = Elements(units)
  BY DEF Elements
<1> QED
  BY <1>1, CompiledKept DEF Compiled

LEMMA CompiledRequire ==
  ASSUME Typed, Compiled, Start \/ LoadProvider
  PROVE  Compiled'
<1>1. PICK f : AddScript(f) /\ activeUnits' = activeUnits \cup {f}
               /\ request' = request /\ completed' = completed
  BY DEF Start, LoadProvider, Require
<1>2. Kept
  BY TypedStart, TypedLoadProvider
<1>3. Elements(units)' \subseteq Elements(units) \cup {f}
  <2>1. CASE f \in Elements(units)
    BY <1>1, <2>1 DEF AddScript, Elements
  <2>2. CASE f \notin Elements(units)
    <3>1. units' = Append(units, f) /\ units \in Seq(File)
      BY <1>1, <2>2 DEF AddScript, Typed, TypeOK
    <3> QED
      BY <3>1, AppendProperties DEF Elements
  <2> QED
    BY <2>1, <2>2
<1> QED
  BY <1>1, <1>2, <1>3, CompiledKept DEF Compiled

LEMMA TopIsTarget ==
  ASSUME Typed, Orderly, stack # << >>, Top.op = "require"
  PROVE  Top.arg = Target(Top.unit)
BY StackFacts DEF Orderly, Ruled, Top, Target, Requiring

LEMMA CompiledRequireReturn ==
  ASSUME Typed, Built, Orderly, Compiled, RequireReturn
  PROVE  Compiled'
<1>1. /\ stack # << >> /\ Top.op = "require" /\ activeUnits' = activeUnits \ {Top.unit}
      /\ UNCHANGED <<request, units, completed>>
  BY DEF RequireReturn, In
<1>2. Kept
  BY TypedRequireReturn
<1>3. Top.arg = Target(Top.unit) /\ Achieved(Top)
  BY <1>1, TopIsTarget, TopAchieved
<1>4. Target(Top.unit) \in completed[Top.unit]
  BY <1>1, <1>3 DEF Achieved, Built, Facts, Progress, Calls
<1>5. Elements(units)' = Elements(units)
  BY <1>1 DEF Elements
<1> QED
  BY <1>1, <1>2, <1>4, <1>5, CompiledKept DEF Compiled

LEMMA CheckedResolved ==
  ASSUME Built, NEW f \in File, "Check" \in completed[f]
  PROVE  "Resolver" \in completed[f]
<1>1. "Check" \in DOMAIN Normal /\ Normal["Check"] = <<"Resolver">>
  BY DEF Normal
<1>2. "Resolver" \in Elements(<<"Resolver">>)
  BY DEF Elements
<1> QED
  BY <1>1, <1>2 DEF Built, Facts, DependenciesFirst

(* A file whose imports are all checked closes no circle: what it uses is  *)
(* resolved, and none of what is resolved uses it.                         *)
LEMMA NoCircleClosed ==
  ASSUME Typed, Built, NEW u \in File, "Resolver" \notin completed[u],
         \A g \in Uses(u) : g \in File /\ "Check" \in completed[g],
         \A S \in SUBSET {f \in File : "Resolver" \in completed[f]} : ~Cyclic(S)
  PROVE  \A S \in SUBSET ({f \in File : "Resolver" \in completed[f]} \cup {u}) : ~Cyclic(S)
<1> DEFINE Resolved == {f \in File : "Resolver" \in completed[f]}
<1> SUFFICES ASSUME NEW S \in SUBSET (Resolved \cup {u}), Cyclic(S) PROVE FALSE
  OBVIOUS
<1>1. \A g \in Uses(u) : g \in Resolved
  BY CheckedResolved
<1>2. \A f \in Resolved : u \notin Uses(f)
  <2> SUFFICES ASSUME NEW f \in Resolved, u \in Uses(f) PROVE FALSE
    OBVIOUS
  <2>1. "Check" \in completed[u]
    BY DEF Built, Facts, ImportsChecked
  <2> QED
    BY <2>1, CheckedResolved
<1>3. S \ {u} \in SUBSET Resolved /\ u \notin Resolved
  OBVIOUS
<1>4. S \ {u} # {}
  <2>1. CASE u \in S
    <3>1. PICK g \in S : g \in Uses(u)
      BY <2>1 DEF Cyclic
    <3> QED
      BY <1>1, <1>3, <3>1
  <2>2. CASE u \notin S
    BY <2>2 DEF Cyclic
  <2> QED
    BY <2>1, <2>2
<1>5. \A f \in S \ {u} : Uses(f) \cap (S \ {u}) # {}
  <2> TAKE f \in S \ {u}
  <2>1. f \in Resolved
    OBVIOUS
  <2>2. PICK g \in S : g \in Uses(f)
    BY DEF Cyclic
  <2> QED
    BY <1>2, <2>1, <2>2
<1>6. Cyclic(S \ {u})
  BY <1>4, <1>5 DEF Cyclic
<1> QED
  BY <1>3, <1>6

(* The files that a unit uses.                                             *)
LEMMA UsedFiles ==
  ASSUME Typed, NEW f \in File
  PROVE  Uses(f) \subseteq File
<1> SUFFICES ASSUME f \in Elements(units), NEW g \in Uses(f) PROVE g \in File
  BY DEF Uses
<1>1. PICK m \in ImportsOf(source[f]) : g \in Elements(providers[m])
  BY DEF Uses
<1>2. m \in Module
  BY <1>1, UnitTexts
<1>3. providers[m] \in Seq(File)
  BY <1>2 DEF Typed, TypeOK
<1> QED
  BY <1>1, <1>3, ElementOfSeq, LenProperties DEF Elements

(* What the innermost ensure() has behind it when it ends.                 *)
LEMMA StageRun ==
  ASSUME Typed, Built, stack # << >>, Top.op = "ensure", Top.at > 0, Top.at = Len(Rule) + 2
  PROVE  /\ Elements(Rule) \subseteq completed[Top.unit]
         /\ Top.arg = "Resolver" =>
              \A g \in Uses(Top.unit) : g \in File /\ "Check" \in completed[g]
<1>1. /\ Achieved(Top) /\ RuleOf(Top) = Rule /\ Rule \in Seq(StageId) /\ Len(Rule) \in Nat
      /\ Top.unit \in Elements(units) /\ Top.unit \in File
  BY TopFacts, TopAchieved
<1>2. \A j \in 1 .. Len(Rule) : Rule[j] \in completed[Top.unit]
  <2>1. \A j \in 1 .. Len(Rule) : j < Top.at
    BY <1>1
  <2> QED
    BY <1>1, <2>1 DEF Achieved
<1>3. Elements(Rule) \subseteq completed[Top.unit]
  BY <1>1, <1>2, LenProperties DEF Elements
<1>4. Top.arg = "Resolver" => \A m \in ImportsOf(source[Top.unit]) : Checked(m)
  BY <1>1 DEF Achieved
<1>5. \A g \in Uses(Top.unit) : g \in File
  BY <1>1, UsedFiles
<1> QED
  BY <1>1, <1>3, <1>4, <1>5 DEF Uses, Checked

LEMMA CompiledEnsureReturn ==
  ASSUME Typed, Built, Orderly, Compiled, EnsureReturn
  PROVE  Compiled'
<1>1. /\ stack # << >> /\ Top.op = "ensure" /\ Top.at > 0 /\ Top.at = Len(Rule) + 2
      /\ completed' = [completed EXCEPT ![Top.unit] = @ \cup {Top.arg}]
      /\ UNCHANGED <<request, units, activeUnits>>
  BY DEF EnsureReturn, In
<1>2. PICK u \in File, s \in StageId : u = Top.unit /\ s = Top.arg
  BY <1>1, TopFacts DEF FrameOK
<1>3. \A f \in File : \A t : t \in completed'[f] <=> t \in completed[f] \/ (f = u /\ t = s)
  BY <1>1, <1>2 DEF Typed, TypeOK
<1>4. Kept /\ Elements(units)' = Elements(units)
  BY <1>1, TypedEnsureReturn DEF Elements
<1>5. (\A f \in Elements(units) : f \in activeUnits \/ Target(f) \in completed[f])'
  <2>1. \A f \in Elements(units) : f \in File /\ (f \in activeUnits \/ Target(f) \in completed[f])
    BY UnitTexts DEF Compiled
  <2> QED
    BY <1>1, <1>3, <1>4, <2>1 DEF Target
<1>6. (\A t \in completed[Main] : DependsOn(t) \subseteq completed[Main])'
  <2>1. \A t \in completed[Main] : DependsOn(t) \subseteq completed[Main]
    BY DEF Compiled
  <2>2. u = Main => DependsOn(s) \subseteq completed[Main]
    BY <1>1, <1>2, TopDepends, StageRun
  <2>3. \A t : DependsOn(t)' = DependsOn(t)
    BY <1>1 DEF DependsOn
  <2> QED
    BY <1>3, <2>1, <2>2, <2>3, FilesAssumption
<1>7. (\A S \in SUBSET {f \in File : "Resolver" \in completed[f]} : ~Cyclic(S))'
  <2>1. \A S \in SUBSET {f \in File : "Resolver" \in completed[f]} : ~Cyclic(S)
    BY DEF Compiled
  <2>2. \A S \in SUBSET {f \in File : "Resolver" \in completed'[f]} : ~Cyclic(S)
    <3>1. CASE s = "Resolver" /\ "Resolver" \notin completed[u]
      <4>1. \A g \in Uses(u) : g \in File /\ "Check" \in completed[g]
        BY <1>1, <1>2, <3>1, StageRun
      <4>2. {f \in File : "Resolver" \in completed'[f]}
              \subseteq {f \in File : "Resolver" \in completed[f]} \cup {u}
        BY <1>3
      <4> QED
        BY <2>1, <3>1, <4>1, <4>2, NoCircleClosed
    <3>2. CASE ~(s = "Resolver" /\ "Resolver" \notin completed[u])
      <4>1. {f \in File : "Resolver" \in completed'[f]} = {f \in File : "Resolver" \in completed[f]}
        BY <1>3, <3>2
      <4> QED
        BY <2>1, <4>1
    <3> QED
      BY <3>1, <3>2
  <2>3. {f \in File : "Resolver" \in completed'[f]} \subseteq Elements(units)
    <3>1. \A f \in File : completed[f] # {} => f \in Elements(units)
      BY DEF Typed, Loaded
    <3>2. u \in Elements(units)
      BY <1>1, <1>2, TopFacts
    <3> QED
      BY <1>3, <3>1, <3>2
  <2> QED
    BY <1>4, <2>2, <2>3, CyclicKept
<1> QED
  BY <1>5, <1>6, <1>7 DEF Compiled

LEMMA CompiledStep ==
  ASSUME Typed, Built, Orderly, Compiled, [Next]_vars
  PROVE  Compiled'
<1>1. CASE \E f \in File : IndexFile(f)
  BY <1>1, CompiledIndex
<1>2. CASE Ends \/ (\E f \in File, t \in Edits : Edit(f, t)) \/ UNCHANGED vars
  <2>1. request' = request /\ Kept /\ UNCHANGED <<units, completed, activeUnits>>
    BY <1>2, EndsFacts DEF Edit, vars, index, pipe, Kept, Elements
  <2> QED
    BY <2>1, CompiledIdle
<1>3. CASE Start \/ LoadProvider
  BY <1>3, CompiledRequire
<1>4. CASE \/ RunStage \/ EnsureEnter \/ ResolveOther \/ ImportUnknown
           \/ EnsureCompleted \/ ResolveReturn \/ LoadReturn
           \/ EnsureDependency \/ RunResolver \/ ImportKnown
  <2>1. request' = request /\ UNCHANGED <<units, completed, activeUnits>>
    BY <1>4 DEF RunStage, EnsureEnter, ResolveOther, ImportUnknown, EnsureCompleted, ResolveReturn,
                LoadReturn, EnsureDependency, RunResolver, ImportKnown, GoTo, pipe
  <2>2. Kept
    BY <1>4, TypedRunStage, TypedEnsureEnter, TypedResolveNext, TypedReturns,
       TypedEnsureDependency, TypedRunResolver, TypedImportKnown
  <2> QED
    BY <2>1, <2>2, CompiledIdle
<1>5. CASE EnsureReturn
  BY <1>5, CompiledEnsureReturn
<1>6. CASE RequireReturn
  BY <1>6, CompiledRequireReturn
<1> QED
  BY <1>1, <1>2, <1>3, <1>4, <1>5, <1>6
  DEF Next, Compile, Index, Ensure, Resolve, Load, Ends, Terminated
-----------------------------------------------------------------------------
(* How a run ends.                                                         *)
LEMMA StepsRun ==
  ASSUME [Next]_vars
  PROVE  UNCHANGED vars \/ (Running /\ (outcome' = outcome \/ Ends))
<1>1. CASE \E f \in File : IndexFile(f)
  BY <1>1 DEF IndexFile
<1>2. CASE Ends
  BY <1>2 DEF Ends, IndexUnreadable, StartUnreadable, EnsureCyclic, EnsureUnknown, LoadUnreadable,
              LoadActive, Finish, In, HasProvider
<1>3. CASE \E f \in File, t \in Edits : Edit(f, t)
  BY <1>3 DEF Edit
<1>4. CASE Start \/ LoadProvider
  BY <1>4 DEF Start, LoadProvider, HasProvider, In
<1>5. CASE \/ RunStage \/ EnsureEnter \/ ResolveOther \/ ImportUnknown
           \/ EnsureCompleted \/ ResolveReturn \/ LoadReturn
           \/ EnsureDependency \/ RunResolver \/ ImportKnown \/ EnsureReturn \/ RequireReturn
  BY <1>5 DEF RunStage, EnsureEnter, ResolveOther, ImportUnknown, EnsureCompleted, ResolveReturn,
              LoadReturn, EnsureDependency, RunResolver, ImportKnown, EnsureReturn, RequireReturn,
              GoTo, AtRun, In
<1>6. CASE UNCHANGED vars
  BY <1>6
<1> QED
  BY <1>1, <1>2, <1>3, <1>4, <1>5, <1>6
  DEF Next, Compile, Index, Ensure, Resolve, Load, Ends, Terminated

LEMMA UnitsStep ==
  ASSUME Typed, [Next]_vars
  PROVE  \/ units' = units
         \/ Main \in Elements(units)'
         \/ units # << >> /\ Kept
<1>1. CASE \E f \in File : IndexFile(f)
  BY <1>1 DEF IndexFile
<1>2. CASE Ends \/ (\E f \in File, t \in Edits : Edit(f, t)) \/ UNCHANGED vars
  BY <1>2, EndsFacts DEF Edit, vars
<1>3. CASE Start
  <2>1. CanAdd(Main) /\ AddScript(Main) /\ toIndex = {} /\ UNCHANGED <<disk, providers>>
    BY <1>3 DEF Start, index
  <2> QED
    BY <2>1, FilesAssumption, AddScriptFacts
<1>4. CASE LoadProvider
  BY <1>4, TypedLoadProvider, ProviderFacts DEF LoadProvider
<1>5. CASE \/ RunStage \/ EnsureEnter \/ ResolveOther \/ ImportUnknown
           \/ EnsureCompleted \/ ResolveReturn \/ LoadReturn
           \/ EnsureDependency \/ RunResolver \/ ImportKnown \/ EnsureReturn \/ RequireReturn
  BY <1>5 DEF RunStage, EnsureEnter, ResolveOther, ImportUnknown, EnsureCompleted, ResolveReturn,
              LoadReturn, EnsureDependency, RunResolver, ImportKnown, EnsureReturn, RequireReturn,
              GoTo
<1> QED
  BY <1>1, <1>2, <1>3, <1>4, <1>5
  DEF Next, Compile, Index, Ensure, Resolve, Load, Ends, Terminated

LEMMA EndedStep ==
  ASSUME Typed, Orderly, Ended, [Next]_vars
  PROVE  Ended'
<1>1. (outcome = "ok" => stack = << >> /\ units # << >>)'
  <2>1. CASE UNCHANGED vars
    BY <2>1 DEF Ended, vars
  <2>2. CASE Running /\ outcome' = outcome
    BY <2>2 DEF Running
  <2>3. CASE Ends
    BY <2>3 DEF Ends, IndexUnreadable, StartUnreadable, EnsureCyclic, EnsureUnknown, LoadUnreadable,
                LoadActive, Finish, Throw
  <2> QED
    BY <2>1, <2>2, <2>3, StepsRun
<1>2. (units # << >> /\ stack = << >> => Main \in Elements(units))'
  <2>1. units # << >> => Main \in Elements(units)
    <3> SUFFICES ASSUME units # << >>, stack # << >> PROVE Main \in Elements(units)
      BY DEF Ended
    <3>1. 1 \in Depth
      BY NothingLeft DEF Typed, TypeOK, Depth
    <3> QED
      BY <3>1 DEF Typed, Loaded, Orderly, Ruled
  <2>2. CASE units' = units
    BY <2>1, <2>2 DEF Elements
  <2>3. CASE units # << >> /\ Kept
    BY <2>1, <2>3 DEF Kept, Elements
  <2> QED
    BY <2>2, <2>3, UnitsStep
<1> QED
  BY <1>1, <1>2 DEF Ended

LEMMA EndedInit == Init => Ended
BY DEF Init, Ended

LEMMA InductiveParts ==
  Typed /\ Built /\ Entries /\ Orderly /\ Compiled /\ Ended => Inductive
<1> SUFFICES ASSUME Typed, Built, Entries, Orderly, Compiled, Ended PROVE Inductive
  OBVIOUS
<1>1. ActiveIsStack
  BY EntriesAreActive DEF Entries
<1> QED
  BY <1>1 DEF Inductive, Typed, Built, Calls, Facts, Progress, Orderly

LEMMA InvariantAlways ==
  Spec => [](Typed /\ Built /\ Entries /\ Orderly /\ Compiled /\ Ended)
<1> DEFINE Inv == Typed /\ Built /\ Entries /\ Orderly /\ Compiled /\ Ended
<1>1. Init => Inv
  BY TypedInit, BuiltInit, EntriesInit, OrderlyInit, CompiledInit, EndedInit
<1>2. Inv /\ [Next]_vars => Inv'
  BY TypedStep, BuiltStep, EntriesStep, OrderlyStep, CompiledStep, EndedStep
<1> QED
  BY <1>1, <1>2, PTL DEF Spec

(* The invariant that the runs check is the one that is proved.            *)
THEOREM InvariantHolds == Spec => []Inductive
BY InductiveParts, InvariantAlways, PTL
-----------------------------------------------------------------------------
(* Circles of files.                                                       *)
LEMMA LoadUses ==
  ASSUME Typed, Waiting, NEW i \in Depth, stack[i].op = "load", NEW g,
         g \in Elements(providers[stack[i].arg])
  PROVE  g \in Uses(stack[i].unit)
BY DEF Typed, Loaded, Waiting, Uses

LEMMA ProviderUsed ==
  ASSUME Typed, Waiting, HasProvider
  PROVE  /\ Provider \in Uses(Top.unit)
         /\ Top.unit \in Elements(units)
<1>1. /\ stack # << >> /\ Top.op = "load" /\ Top.at \in DOMAIN providers[Top.arg]
  BY ProviderFacts
<1>2. Len(stack) \in Depth /\ Top = stack[Len(stack)] /\ Top.unit \in Elements(units)
  BY <1>1, StackFacts DEF Top
<1>3. Provider \in Elements(providers[Top.arg])
  BY <1>1 DEF Provider, Elements
<1> QED
  BY <1>1, <1>2, <1>3, LoadUses

(* A unit whose require() waits in a load() is used by the unit that loads.*)
LEMMA RequiredIsUsed ==
  ASSUME Typed, Waiting, NEW j \in 2 .. Len(stack), Requiring(j)
  PROVE  stack[j].unit \in Uses(stack[j - 1].unit)
<1>1. j - 1 \in Depth /\ j \in Depth /\ j - 1 \in 1 .. Len(stack) - 1 /\ (j - 1) + 1 = j
  BY StackFacts DEF Depth
<1>2. PICK c \in Frame : c = stack[j - 1] /\ FrameOK(c) /\ Awaits(c, stack[j])
  BY <1>1, StackFacts DEF Typed, Chain
<1>3. c.op = "load" /\ c.at > 0 /\ c.at <= Len(providers[c.arg])
      /\ stack[j].unit = providers[c.arg][c.at] /\ c.arg \in Module /\ c.at \in Nat
  BY <1>2 DEF Awaits, Requiring, Frame, FrameOK
<1>4. providers[c.arg] \in Seq(File)
  BY <1>3 DEF Typed, TypeOK
<1>5. c.at \in DOMAIN providers[c.arg]
  BY <1>3, <1>4, LenProperties
<1>6. stack[j].unit \in Elements(providers[c.arg])
  BY <1>3, <1>5 DEF Elements
<1> QED
  BY <1>1, <1>2, <1>3, <1>6, LoadUses

LEMMA CircleOnStack ==
  ASSUME Typed, Entries, Waiting, HasProvider, Provider \in activeUnits
  PROVE  \E S \in SUBSET Elements(units) : Cyclic(S)
<1> DEFINE S == {stack[i].unit : i \in Depth}
<1>1. Provider \in File /\ stack # << >> /\ Len(stack) \in Depth /\ Top = stack[Len(stack)]
  BY ProviderFacts, StackFacts DEF Top
<1>2. S \in SUBSET Elements(units) /\ S # {}
  BY <1>1 DEF Typed, Loaded
<1>3. ASSUME NEW i \in Depth PROVE Uses(stack[i].unit) \cap S # {}
  <2>1. CASE stack[i].unit = Top.unit
    <3>1. PICK k \in Depth : stack[k].unit = Provider
      BY <1>1 DEF Entries, UnitEntry
    <3> QED
      BY <2>1, <3>1, ProviderUsed
  <2>2. CASE \E j \in 2 .. Len(stack) : Requiring(j) /\ stack[j - 1].unit = stack[i].unit
    <3>1. PICK j \in 2 .. Len(stack) : Requiring(j) /\ stack[j - 1].unit = stack[i].unit
      BY <2>2
    <3>2. j \in Depth
      BY StackFacts DEF Depth
    <3>3. stack[j].unit \in Uses(stack[i].unit)
      BY <3>1, RequiredIsUsed
    <3> QED
      BY <3>2, <3>3
  <2> QED
    BY <2>1, <2>2 DEF Waiting
<1>4. \A f \in S : Uses(f) \cap S # {}
  <2> TAKE f \in S
  <2>1. PICK i \in Depth : f = stack[i].unit
    OBVIOUS
  <2> QED
    BY <1>3, <2>1
<1>5. Cyclic(S)
  BY <1>2, <1>4 DEF Cyclic
<1> HIDE DEF S
<1> QED
  BY <1>2, <1>5

LEMMA CircleStep ==
  ASSUME Typed, Entries, Orderly, CycleIsReal, [Next]_vars
  PROVE  CycleIsReal'
<1> SUFFICES ASSUME outcome' = "cyclic module dependency"
             PROVE  (\E S \in SUBSET Elements(units) : Cyclic(S))'
  BY DEF CycleIsReal
<1>1. CASE UNCHANGED vars
  <2>1. PICK S \in SUBSET Elements(units) : Cyclic(S)
    BY <1>1 DEF CycleIsReal, vars
  <2>2. Kept /\ Elements(units)' = Elements(units)
    BY <1>1 DEF Kept, vars, Elements
  <2> QED
    BY <2>1, <2>2, CyclicKept
<1>2. CASE Running /\ outcome' = outcome
  BY <1>2 DEF Running
<1>3. CASE Ends
  <2>1. HasProvider /\ Provider \in activeUnits
    BY <1>3 DEF Ends, IndexUnreadable, StartUnreadable, EnsureCyclic, EnsureUnknown, LoadUnreadable,
                LoadActive, Finish, Throw
  <2>2. PICK S \in SUBSET Elements(units) : Cyclic(S)
    BY <2>1, CircleOnStack DEF Orderly
  <2>3. Kept /\ Elements(units)' = Elements(units)
    BY <1>3, EndsFacts, TypedEnds DEF Elements
  <2> QED
    BY <2>2, <2>3, CyclicKept
<1> QED
  BY <1>1, <1>2, <1>3, StepsRun

(* "cyclic module dependency" is thrown only when units use one another in *)
(* a circle, whatever the number of files, modules and providers: the      *)
(* units that wait on the call stack are such a circle, and the imports    *)
(* that put them there are still in their texts.                           *)
THEOREM CyclesAreReal == Spec => []CycleIsReal
<1>1. Init => CycleIsReal
  BY DEF Init, CycleIsReal
<1>2. Typed /\ Entries /\ Orderly /\ CycleIsReal /\ [Next]_vars => CycleIsReal'
  BY CircleStep
<1> QED
  BY <1>1, <1>2, InvariantAlways, PTL DEF Spec

LEMMA SuccessFacts ==
  ASSUME Typed, Entries, Compiled, Ended, outcome = "ok"
  PROVE  /\ Main \in Elements(units)
         /\ \A f \in Elements(units) : Target(f) \in completed[f]
<1>1. stack = << >> /\ units # << >>
  BY DEF Ended
<1>2. Depth = {}
  BY <1>1 DEF Depth
<1>3. \A f \in File : f \notin activeUnits
  BY <1>2 DEF Entries, UnitEntry
<1> QED
  BY <1>1, <1>3, UnitTexts DEF Ended, Compiled

LEMMA LateStages ==
  ASSUME Built, NEW f \in File, NEW s \in {"Resolver", "Check", "Lowering", "Transpile"},
         s \in completed[f]
  PROVE  "Resolver" \in completed[f]
<1> DEFINE Before(t, b) == t \in DOMAIN Normal /\ b \in Elements(Normal[t])
<1>1. Before("Transpile", "Lowering") /\ Before("Lowering", "Check") /\ Before("Check", "Resolver")
  BY DEF Normal, Elements
<1>2. \A t, b : Before(t, b) /\ t \in completed[f] => b \in completed[f]
  BY DEF Built, Facts, DependenciesFirst
<1> HIDE DEF Before
<1> QED
  BY <1>1, <1>2

(* No circle escapes: a compilation to Resolver or beyond that ends well   *)
(* has no units that use one another in a circle, since no unit can be     *)
(* resolved before all it uses is checked.                                 *)
THEOREM CyclesAreFound == Spec => []CycleIsFound
<1>1. Typed /\ Built /\ Entries /\ Compiled /\ Ended => CycleIsFound
  <2> SUFFICES ASSUME Typed, Built, Entries, Compiled, Ended, outcome = "ok",
                      request.stage \in {"Resolver", "Check", "Lowering", "Transpile"},
                      NEW S \in SUBSET Elements(units)
               PROVE  ~Cyclic(S)
    BY DEF CycleIsFound
  <2>1. \A f \in Elements(units) : f \in File /\ "Resolver" \in completed[f]
    BY SuccessFacts, UnitTexts, LateStages DEF Target
  <2> QED
    BY <2>1 DEF Compiled
<1> QED
  BY <1>1, InvariantAlways, PTL
-----------------------------------------------------------------------------
(* What is loaded.                                                         *)
NewUnits ==
  \/ Elements(units)' = Elements(units)
  \/ Elements(units) = {} /\ Elements(units)' = {Main}
  \/ \E f \in Elements(units) : \E g \in Uses(f) : Elements(units)' = Elements(units) \cup {g}

LEMMA AddedUnit ==
  ASSUME Typed, NEW f \in File, AddScript(f)
  PROVE  Elements(units)' = Elements(units) \cup {f}
<1>1. CASE f \in Elements(units)
  BY <1>1 DEF AddScript, Elements
<1>2. CASE f \notin Elements(units)
  <2>1. units' = Append(units, f) /\ units \in Seq(File)
    BY <1>2 DEF AddScript, Typed, TypeOK
  <2>2. /\ DOMAIN units = 1 .. Len(units) /\ Len(units) \in Nat
        /\ DOMAIN units' = 1 .. Len(units) + 1
        /\ \A i \in 1 .. Len(units) : units'[i] = units[i]
        /\ units'[Len(units) + 1] = f
    BY <2>1, AppendProperties, LenProperties
  <2>3. \A g : g \in Elements(units)' <=> g \in Elements(units) \/ g = f
    BY <2>2 DEF Elements
  <2> QED
    BY <2>3
<1> QED
  BY <1>1, <1>2

LEMMA UnitsGrow ==
  ASSUME Typed, Waiting, [Next]_vars
  PROVE  NewUnits
<1>1. CASE Start
  <2>1. AddScript(Main) /\ units = << >>
    BY <1>1 DEF Start
  <2> QED
    BY <2>1, FilesAssumption, AddedUnit, NothingYet DEF NewUnits
<1>2. CASE LoadProvider
  <2>1. AddScript(Provider) /\ HasProvider
    BY <1>2 DEF LoadProvider
  <2> QED
    BY <2>1, ProviderFacts, ProviderUsed, AddedUnit DEF NewUnits
<1>3. CASE ~(Start \/ LoadProvider)
  <2>1. units' = units
    BY <1>3, EndsFacts
    DEF Next, Compile, Index, Ensure, Resolve, Load, Ends, Terminated, IndexFile, Edit, vars,
        RunStage, EnsureEnter, ResolveOther, ImportUnknown, EnsureCompleted, ResolveReturn,
        LoadReturn, EnsureDependency, RunResolver, ImportKnown, EnsureReturn, RequireReturn, GoTo
  <2> QED
    BY <2>1 DEF NewUnits, Elements
<1> QED
  BY <1>1, <1>2, <1>3

LEMMA KeptStep ==
  ASSUME Typed, [Next]_vars, units # << >>
  PROVE  Kept
<1>1. CASE \E f \in File : IndexFile(f)
  BY <1>1 DEF IndexFile, Typed, Loaded
<1>2. CASE UNCHANGED vars
  BY <1>2 DEF vars, Kept, Elements
<1> QED
  BY <1>1, <1>2, TypedEnds, TypedStart, TypedLoadProvider, TypedRequireReturn, TypedEnsureEnter,
     TypedEnsureDependency, TypedRunStage, TypedRunResolver, TypedEnsureReturn, TypedResolveNext,
     TypedImportKnown, TypedReturns, TypedEdit
  DEF Next, Compile, Index, Ensure, Resolve, Load, Ends, Terminated

LEMMA NeededStep ==
  ASSUME Typed, Waiting, LoadsOnlyNeeded, [Next]_vars
  PROVE  LoadsOnlyNeeded'
<1> SUFFICES ASSUME NEW S \in SUBSET File, Main \in S, \A f \in S : Uses(f)' \subseteq S
             PROVE  Elements(units)' \subseteq S
  BY DEF LoadsOnlyNeeded
<1>1. CASE units = << >>
  <2>1. Elements(units) = {}
    BY <1>1, NothingYet
  <2>2. Elements(units)' = {} \/ Elements(units)' = {Main}
    BY <2>1, UnitsGrow DEF NewUnits
  <2> QED
    BY <2>2
<1>2. CASE units # << >>
  <2>1. Kept
    BY <1>2, KeptStep
  <2>2. \A f \in S : Uses(f) \subseteq S
    <3> TAKE f \in S
    <3>1. f \in Elements(units) => Uses(f)' = Uses(f)
      BY <2>1, UsesKept
    <3>2. f \notin Elements(units) => Uses(f) = {}
      BY DEF Uses
    <3> QED
      BY <3>1, <3>2
  <2>3. Elements(units) \subseteq S
    BY <2>2 DEF LoadsOnlyNeeded
  <2> QED
    BY <2>2, <2>3, UnitsGrow DEF NewUnits
<1> QED
  BY <1>1, <1>2

(* Nothing is compiled that the script does not need: every unit is        *)
(* reached from the script through imports, however the index, the import  *)
(* graph and the order of providers look.                                  *)
THEOREM OnlyNeededIsLoaded == Spec => []LoadsOnlyNeeded
<1>1. Init => LoadsOnlyNeeded
  BY DEF Init, LoadsOnlyNeeded, Elements
<1>2. Typed /\ Orderly /\ LoadsOnlyNeeded /\ [Next]_vars => LoadsOnlyNeeded'
  BY NeededStep DEF Orderly
<1> QED
  BY <1>1, <1>2, InvariantAlways, PTL DEF Spec
-----------------------------------------------------------------------------
(* Rule sets.                                                              *)
OfScript == {k \in Depth : stack[k].op = "ensure" /\ stack[k].unit = Main}

(* Between two ensure() calls of one unit, each waits for a stage that its *)
(* own depends on.                                                         *)
LEMMA EnsureWaits ==
  ASSUME Typed, Orderly, Top.op = "ensure", Top.unit = Main,
         NEW k \in OfScript, k < Len(stack)
  PROVE  k + 1 \in OfScript /\ stack[k + 1].arg \in DependsOn(stack[k].arg)
<1>1. PICK n \in Nat : n = Len(stack) /\ Depth = 1 .. n /\ stack[n] = Top
  BY StackFacts DEF Depth, Top
<1>2. k \in 1 .. n - 1 /\ k + 1 \in Depth /\ n \in Depth /\ stack[k].op = "ensure" /\ stack[k].unit = Main
  BY <1>1 DEF OfScript
<1>3. PICK c \in Frame, d \in Frame : c = stack[k] /\ d = stack[k + 1] /\ FrameOK(c) /\ Awaits(c, d)
  BY <1>1, <1>2, StackFacts DEF Typed, Chain
<1>4. c.at > 0 /\ d.unit = Main
  BY <1>2, <1>3 DEF Awaits
<1>5. d.op \in {"require", "ensure"}
  <2>1. k + 1 = n \/ k + 1 < n
    BY <1>1, <1>2
  <2> QED
    BY <1>1, <1>2, <1>3, <1>4, <2>1 DEF Orderly, Waiting
<1>6. d.op = "ensure" /\ c.at <= Len(RuleOf(c)) /\ d.arg = RuleOf(c)[c.at]
  BY <1>2, <1>3, <1>4, <1>5 DEF Awaits
<1>7. c.rules = request.rules /\ c.rules \in DOMAIN RuleBook /\ c.arg \in DOMAIN RuleBook[c.rules] /\ c.at \in Nat
  BY <1>1, <1>2, <1>3, <1>4 DEF Orderly, Ruled, FrameOK, Frame
<1>8. RuleOf(c) \in Seq(StageId)
  BY <1>7, RulesAssumption DEF RuleOf
<1>9. d.arg \in Elements(RuleOf(c))
  BY <1>4, <1>6, <1>7, <1>8, LenProperties DEF Elements
<1>10. d.arg \in DependsOn(c.arg)
  BY <1>7, <1>9 DEF DependsOn, Depends, RuleOf
<1> QED
  BY <1>2, <1>3, <1>4, <1>6, <1>10 DEF OfScript

(* The stage that is active is one whose ensure() waits below.             *)
LEMMA ActiveWaits ==
  ASSUME Typed, Entries, stack # << >>, Top.op = "ensure", Top.at = 0,
         Top.arg \in activeStages[Top.unit]
  PROVE  \E k \in Depth : /\ k < Len(stack) /\ stack[k].op = "ensure"
                          /\ stack[k].unit = Top.unit /\ stack[k].arg = Top.arg
<1>1. Top.unit \in File /\ Top.arg \in StageId /\ Top = stack[Len(stack)] /\ Len(stack) \in Nat
  BY TopFacts, StackFacts DEF FrameOK, Top
<1>2. PICK k \in Depth : Ensuring(k) /\ stack[k].unit = Top.unit /\ stack[k].arg = Top.arg
  BY <1>1 DEF Entries, StageEntry
<1>3. k # Len(stack) /\ k \in 1 .. Len(stack)
  BY <1>1, <1>2 DEF Ensuring, Depth
<1> QED
  BY <1>1, <1>2, <1>3 DEF Ensuring

LEMMA CircleOfStages ==
  ASSUME Typed, Entries, Orderly, stack # << >>, Top.op = "ensure", Top.at = 0,
         Top.arg \in activeStages[Top.unit]
  PROVE  \E S \in SUBSET Needed : S # {} /\ \A s \in S : DependsOn(s) \cap S # {}
<1>1. PICK b \in Depth : /\ b < Len(stack) /\ stack[b].op = "ensure"
                         /\ stack[b].unit = Top.unit /\ stack[b].arg = Top.arg
  BY ActiveWaits
<1>2. Len(stack) \in Depth /\ Top = stack[Len(stack)]
  BY StackFacts DEF Top
<1>3. Top.unit = Main
  <2> SUFFICES ASSUME Top.unit # Main PROVE FALSE
    OBVIOUS
  <2>1. Place[Top.arg] < Place[stack[b].arg]
    BY <1>1, <1>2 DEF Orderly, Ruled
  <2>2. Top.arg \in DOMAIN Normal
    BY TopRuled
  <2>3. Place[Top.arg] \in Nat
    BY <2>2 DEF Place, Normal
  <2> QED
    BY <1>1, <2>1, <2>3
<1> DEFINE S == {stack[k].arg : k \in OfScript}
<1>4. b \in OfScript
  BY <1>1, <1>3 DEF OfScript
<1>5. S \subseteq Needed
  BY DEF OfScript, Orderly, Ruled
<1>6. \A s \in S : DependsOn(s) \cap S # {}
  <2> TAKE s \in S
  <2>1. PICK k \in OfScript : s = stack[k].arg
    OBVIOUS
  <2>2. PICK j \in OfScript : s = stack[j].arg /\ j < Len(stack)
    <3>1. k < Len(stack) \/ k = Len(stack)
      BY StackFacts DEF OfScript, Depth
    <3> QED
      BY <1>1, <1>2, <1>4, <2>1, <3>1
  <2>3. j + 1 \in OfScript /\ stack[j + 1].arg \in DependsOn(s)
    BY <1>3, <2>2, EnsureWaits
  <2> QED
    BY <2>3
<1>7. S # {}
  BY <1>4
<1> HIDE DEF S
<1> QED
  BY <1>5, <1>6, <1>7

StageErrors ==
  /\ outcome = "cyclic stage dependency" =>
       \E S \in SUBSET Needed : S # {} /\ \A s \in S : DependsOn(s) \cap S # {}
  /\ outcome = "stage not found" => ~(Needed \subseteq DOMAIN Book)

LEMMA StageErrorsStep ==
  ASSUME Typed, Entries, Orderly, StageErrors, [Next]_vars
  PROVE  StageErrors'
<1>1. CASE UNCHANGED vars
  BY <1>1 DEF StageErrors, vars, Needed, DependsOn, Book
<1>2. CASE Running /\ outcome' = outcome
  BY <1>2 DEF Running, StageErrors
<1>3. CASE Ends
  <2>1. request' = request
    BY <1>3, EndsFacts
  <2>2. outcome' = "cyclic stage dependency" =>
          \E S \in SUBSET Needed : S # {} /\ \A s \in S : DependsOn(s) \cap S # {}
    <3> SUFFICES ASSUME outcome' = "cyclic stage dependency"
                 PROVE  \E S \in SUBSET Needed : S # {} /\ \A s \in S : DependsOn(s) \cap S # {}
      OBVIOUS
    <3>1. EnsureCyclic
      BY <1>3 DEF Ends, IndexUnreadable, StartUnreadable, EnsureCyclic, EnsureUnknown, LoadUnreadable,
                  LoadActive, Finish, Throw
    <3> QED
      BY <3>1, CircleOfStages DEF EnsureCyclic, In
  <2>3. outcome' = "stage not found" => ~(Needed \subseteq DOMAIN Book)
    <3> SUFFICES ASSUME outcome' = "stage not found" PROVE ~(Needed \subseteq DOMAIN Book)
      OBVIOUS
    <3>1. EnsureUnknown
      BY <1>3 DEF Ends, IndexUnreadable, StartUnreadable, EnsureCyclic, EnsureUnknown, LoadUnreadable,
                  LoadActive, Finish, Throw
    <3>2. stack # << >> /\ Top.op = "ensure" /\ Top.arg \notin DOMAIN RuleBook[Top.rules]
      BY <3>1 DEF EnsureUnknown, In
    <3> QED
      BY <3>2, TopRuled, RulesAssumption DEF Book
  <2> QED
    BY <2>1, <2>2, <2>3 DEF StageErrors, Needed, DependsOn, Book
<1> QED
  BY <1>1, <1>2, <1>3, StepsRun

(* ensure() refuses a rule set only when it is wrong, for every rule set:  *)
(* the stages on the call stack are a circle of needed stages, or the      *)
(* stage without a rule is needed; and what succeeds has completed every   *)
(* stage that was needed.                                                  *)
THEOREM StageErrorsAreReal == Spec => []StageErrorIsReal
<1>1. Init => StageErrors
  BY DEF Init, StageErrors
<1>2. Typed /\ Entries /\ Orderly /\ StageErrors /\ [Next]_vars => StageErrors'
  BY StageErrorsStep
<1>3. Typed /\ Entries /\ Compiled /\ Ended /\ outcome = "ok" => Needed \subseteq completed[Main]
  <2> SUFFICES ASSUME Typed, Entries, Compiled, Ended, outcome = "ok", NEW s \in Needed
               PROVE  s \in completed[Main]
    OBVIOUS
  <2>1. request.stage \in completed[Main] /\ completed[Main] \subseteq StageId
    BY SuccessFacts, FilesAssumption DEF Target, Typed, TypeOK
  <2>2. \A t \in completed[Main] : Depends(request.rules, t) \subseteq completed[Main]
    BY DEF Compiled, DependsOn
  <2>3. request.stage \in StageId /\ request.rules \in DOMAIN RuleBook
    BY RequestFacts
  <2> QED
    BY <2>1, <2>2, <2>3 DEF Needed, NeededFor
<1>4. Typed /\ Entries /\ Compiled /\ Ended /\ StageErrors => StageErrorIsReal
  BY <1>3 DEF StageErrors, StageErrorIsReal
<1> QED
  BY <1>1, <1>2, <1>4, InvariantAlways, PTL DEF Spec
-----------------------------------------------------------------------------
(* The refinement.                                                         *)
UsesOf == [f \in File |-> Uses(f)]
Goal == IF units = << >> THEN << >> ELSE <<Main, request.stage>>

UsesTyped == UsesOf \in [File -> SUBSET File]

LEMMA UsesType == Typed => UsesTyped
BY UsedFiles DEF UsesOf, UsesTyped

LEMMA UsesTypeNext == Typed' => UsesTyped'
BY UsesType, PTL

LEMMA UsesWhenNone ==
  ASSUME units = << >>
  PROVE  UsesOf = [f \in File |-> {}]
BY DEF UsesOf, Uses, Elements

LEMMA OrderInit == Init => Order!Init
<1> SUFFICES ASSUME Init PROVE Order!Init
  OBVIOUS
<1>1. units = << >> /\ outcome = "running" /\ completed = [f \in File |-> {}]
  BY DEF Init
<1>2. UsesOf = [f \in File |-> {}] /\ Goal = << >>
  BY <1>1, UsesWhenNone DEF Goal
<1>3. UsesOf \in [File -> SUBSET File]
  BY <1>2
<1> QED
  BY <1>1, <1>2, <1>3 DEF Order!Init, Order!NoGoal, UsesOf, Goal

(* Steps that the order does not see.                                      *)
LEMMA OrderIdle ==
  ASSUME Typed, Kept, UNCHANGED <<request, units, completed, outcome>>
  PROVE  UNCHANGED Order!vars
<1>1. Elements(units)' = Elements(units)
  BY DEF Elements
<1>2. \A f \in File : Uses(f)' = Uses(f)
  <2> TAKE f \in File
  <2>1. CASE f \in Elements(units)
    BY <2>1, UsesKept
  <2>2. CASE f \notin Elements(units)
    BY <1>1, <2>2 DEF Uses
  <2> QED
    BY <2>1, <2>2
<1>3. UsesOf' = UsesOf
  BY <1>2 DEF UsesOf
<1>4. Goal' = Goal
  BY DEF Goal
<1> QED
  BY <1>3, <1>4 DEF Order!vars, UsesOf, Goal

LEMMA OrderIndex ==
  ASSUME Typed, NEW f \in File, IndexFile(f)
  PROVE  UNCHANGED Order!vars
<1>1. units = << >> /\ units' = << >> /\ UNCHANGED <<completed, outcome>>
  BY DEF IndexFile, Typed, Loaded, pipe
<1>2. UsesOf = [g \in File |-> {}] /\ UsesOf' = [g \in File |-> {}]
  BY <1>1 DEF UsesOf, Uses, Elements
<1>3. Goal = << >> /\ Goal' = << >>
  BY <1>1 DEF Goal
<1> QED
  BY <1>1, <1>2, <1>3 DEF Order!vars, UsesOf, Goal

(* What a file uses is settled before its first stage.                     *)
LEMMA OrderLearn ==
  ASSUME Typed, Typed', Kept
  PROVE  Order!Learn
<1>1. UsesOf' \in [File -> SUBSET File]
  BY UsesTypeNext DEF UsesTyped
<1>2. \A f \in File : completed[f] # {} => UsesOf'[f] = UsesOf[f]
  <2> TAKE f \in File
  <2> HAVE completed[f] # {}
  <2>1. f \in Elements(units)
    BY DEF Typed, Loaded
  <2>2. Uses(f)' = Uses(f)
    BY <2>1, UsesKept
  <2> QED
    BY <2>2 DEF UsesOf
<1> QED
  BY <1>1, <1>2 DEF Order!Learn, UsesOf

LEMMA OrderStart ==
  ASSUME Typed, Typed', Start
  PROVE  Order!Next
<1>1. /\ outcome = "running" /\ units = << >> /\ UNCHANGED <<request, completed, outcome>>
      /\ Main \in File /\ AddScript(Main)
  BY FilesAssumption DEF Start, Running
<1>2. units' # << >>
  <2>1. Main \in Elements(units)'
    BY <1>1, AddedUnit
  <2> QED
    BY <2>1 DEF Elements
<1>3. Goal = << >> /\ Goal' = <<Main, request.stage>> /\ request.stage \in StageId
  BY <1>1, <1>2, RequestFacts DEF Goal
<1>4. Order!Learn
  BY OrderLearn, TypedStart
<1>5. Order!Ask(Main, request.stage)
  BY <1>1, <1>3, <1>4 DEF Order!Ask, Order!NoGoal, Goal
<1> QED
  BY <1>1, <1>3, <1>5 DEF Order!Next

LEMMA OrderLoad ==
  ASSUME Typed, Typed', LoadProvider
  PROVE  Order!Next
<1>1. /\ outcome = "running" /\ units # << >> /\ UNCHANGED <<request, completed, outcome>>
      /\ Provider \in File /\ AddScript(Provider)
  BY ProviderFacts DEF LoadProvider, HasProvider, In, Running
<1>2. units' # << >>
  <2>1. Provider \in Elements(units)'
    BY <1>1, AddedUnit
  <2> QED
    BY <2>1 DEF Elements
<1>3. Goal' = Goal
  BY <1>1, <1>2 DEF Goal
<1>4. Order!Learn
  BY OrderLearn, TypedLoadProvider
<1>5. Order!Discover
  BY <1>1, <1>3, <1>4 DEF Order!Discover, Goal
<1> QED
  BY <1>5 DEF Order!Next

(* The stage that is run is not complete.                                  *)
LEMMA RunningStagePending ==
  ASSUME Typed, Built, Entries, stack # << >>, Top.op = "ensure", Top.at > 0
  PROVE  Top.arg \notin completed[Top.unit]
<1>1. Top.unit \in File /\ Top.arg \in StageId /\ Len(stack) \in Depth /\ Top = stack[Len(stack)]
  BY TopFacts, StackFacts DEF FrameOK, Top
<1>2. Top.arg \in activeStages[Top.unit]
  BY <1>1 DEF Entries, StageEntry, Ensuring
<1>3. completed[Top.unit] \cap activeStages[Top.unit] = {}
  <2>1. "Lex" \in DOMAIN Normal
    BY DEF Normal
  <2> QED
    BY <1>1, <2>1 DEF Built, Facts, DependenciesFirst
<1> QED
  BY <1>2, <1>3

LEMMA OrderComplete ==
  ASSUME Typed, Built, Entries, EnsureReturn
  PROVE  Order!Next
<1>1. /\ stack # << >> /\ Top.op = "ensure" /\ Top.at > 0 /\ Top.at = Len(Rule) + 2
      /\ completed' = [completed EXCEPT ![Top.unit] = @ \cup {Top.arg}]
      /\ UNCHANGED <<request, units, outcome>> /\ outcome = "running"
  BY DEF EnsureReturn, In, Running
<1>2. PICK u \in File, s \in StageId : u = Top.unit /\ s = Top.arg
  BY <1>1, TopFacts DEF FrameOK
<1>3. u \in Elements(units) /\ Kept
  BY <1>1, <1>2, TopFacts, TypedEnsureReturn
<1>4. s \notin completed[u]
  BY <1>1, <1>2, RunningStagePending
<1>5. s \in DOMAIN Normal => Elements(Normal[s]) \subseteq completed[u]
  <2>1. s \in DOMAIN RuleBook[Top.rules] /\ Top.rules \in DOMAIN RuleBook
    BY <1>1, <1>2, TopFacts
  <2>2. s \in DOMAIN Normal => Normal[s] = Rule
    BY <1>2, <2>1, RulesAssumption DEF Rule
  <2>3. Elements(Rule) \subseteq completed[u]
    BY <1>1, <1>2, StageRun
  <2> QED
    BY <2>2, <2>3
<1>6. s = "Resolver" => \A g \in Uses(u) : "Check" \in completed[g]
  BY <1>1, <1>2, StageRun
<1>7. units # << >>
  BY <1>3 DEF Elements
<1>8. UsesOf' = UsesOf
  <2>1. Elements(units)' = Elements(units)
    BY <1>1 DEF Elements
  <2>2. \A f \in File : Uses(f)' = Uses(f)
    <3> TAKE f \in File
    <3>1. CASE f \in Elements(units)
      BY <1>3, <3>1, UsesKept
    <3>2. CASE f \notin Elements(units)
      BY <2>1, <3>2 DEF Uses
    <3> QED
      BY <3>1, <3>2
  <2> QED
    BY <2>2 DEF UsesOf
<1>9. Goal # << >> /\ Goal' = Goal
  BY <1>1, <1>7 DEF Goal
<1>10. completed' = [completed EXCEPT ![u] = @ \cup {s}]
  BY <1>1, <1>2
<1>11. Order!Complete(u, s)
  BY <1>1, <1>4, <1>5, <1>6, <1>8, <1>9, <1>10 DEF Order!Complete, Order!NoGoal, UsesOf, Goal
<1> QED
  BY <1>2, <1>11 DEF Order!Next

LEMMA OrderFinish ==
  ASSUME Typed, Entries, Compiled, Ended, Finish
  PROVE  Order!Next
<1>1. /\ outcome = "running" /\ outcome' = "ok" /\ units # << >> /\ stack = << >>
      /\ UNCHANGED <<request, units, completed, source, providers>>
  BY DEF Finish, Running, pipe, index
<1>2. Depth = {}
  BY <1>1 DEF Depth
<1>3. Main \in Elements(units) /\ Main \notin activeUnits
  BY <1>1, <1>2, FilesAssumption DEF Ended, Entries, UnitEntry
<1>4. request.stage \in completed[Main]
  BY <1>3 DEF Compiled, Target
<1>5. Goal = <<Main, request.stage>> /\ Goal' = Goal
  BY <1>1 DEF Goal
<1>6. UsesOf' = UsesOf
  BY <1>1 DEF UsesOf, Uses, Elements, ImportsOf, IsImport, Parses, Abandoned
<1>7. Order!Succeed
  BY <1>1, <1>4, <1>5, <1>6 DEF Order!Succeed, Order!NoGoal, UsesOf, Goal
<1> QED
  BY <1>7 DEF Order!Next

LEMMA OrderFail ==
  ASSUME Typed, Ends, ~Finish
  PROVE  Order!Next
<1>1. /\ outcome = "running" /\ outcome' \in Failure
      /\ UNCHANGED <<request, units, completed, source, providers>>
  BY DEF Ends, IndexUnreadable, StartUnreadable, EnsureCyclic, EnsureUnknown, LoadUnreadable,
         LoadActive, Throw, Failure, Running, HasProvider, In, pipe, index
<1>2. Goal' = Goal
  BY <1>1 DEF Goal
<1>3. UsesOf' = UsesOf
  BY <1>1 DEF UsesOf, Uses, Elements, ImportsOf, IsImport, Parses, Abandoned
<1>4. Order!Fail(outcome')
  BY <1>1, <1>2, <1>3 DEF Order!Fail, UsesOf, Goal
<1> QED
  BY <1>1, <1>4 DEF Order!Next

LEMMA OrderStep ==
  ASSUME Typed, Typed', Built, Entries, Compiled, Ended, [Next]_vars
  PROVE  [Order!Next]_(Order!vars)
<1>1. CASE \E f \in File : IndexFile(f)
  BY <1>1, OrderIndex
<1>2. CASE Finish
  BY <1>2, OrderFinish
<1>3. CASE Ends /\ ~Finish
  BY <1>3, OrderFail
<1>4. CASE (\E f \in File, t \in Edits : Edit(f, t)) \/ UNCHANGED vars
  <2>1. Kept /\ UNCHANGED <<request, units, completed, outcome>>
    BY <1>4 DEF Edit, vars, index, pipe, Kept, Elements
  <2> QED
    BY <2>1, OrderIdle
<1>5. CASE Start
  BY <1>5, OrderStart
<1>6. CASE LoadProvider
  BY <1>6, OrderLoad
<1>7. CASE \/ RunStage \/ EnsureEnter \/ ResolveOther \/ ImportUnknown
           \/ EnsureCompleted \/ ResolveReturn \/ LoadReturn \/ RequireReturn
           \/ EnsureDependency \/ RunResolver \/ ImportKnown
  <2>1. UNCHANGED <<request, units, completed, outcome>>
    BY <1>7 DEF RunStage, EnsureEnter, ResolveOther, ImportUnknown, EnsureCompleted, ResolveReturn,
                LoadReturn, RequireReturn, EnsureDependency, RunResolver, ImportKnown, GoTo, pipe
  <2>2. Kept
    BY <1>7, TypedRunStage, TypedEnsureEnter, TypedResolveNext, TypedReturns, TypedRequireReturn,
       TypedEnsureDependency, TypedRunResolver, TypedImportKnown
  <2> QED
    BY <2>1, <2>2, OrderIdle
<1>8. CASE EnsureReturn
  BY <1>8, OrderComplete
<1> QED
  BY <1>1, <1>2, <1>3, <1>4, <1>5, <1>6, <1>7, <1>8
  DEF Next, Compile, Index, Ensure, Resolve, Load, Ends, Terminated

(* The pipeline implements BuildOrder, for all files, texts, edits, rule   *)
(* sets and requests: with the files' imports, the completed stages and    *)
(* the request in the place of its variables, every step is a step of it   *)
(* or leaves them alone.                                                   *)
THEOREM PipelineImplementsOrder == Spec => ImplementsOrder
<1> DEFINE Inv == Typed /\ Built /\ Entries /\ Compiled /\ Ended
<1>1. Inv /\ Inv' /\ [Next]_vars => [Order!Next]_(Order!vars)
  BY OrderStep
<1>2. Spec => []Inv
  BY InvariantAlways, PTL
<1> HIDE DEF Inv
<1>3. Spec => Order!Spec
  BY <1>1, <1>2, OrderInit, PTL DEF Spec, Order!Spec
<1> QED
  BY <1>3 DEF ImplementsOrder
=============================================================================
