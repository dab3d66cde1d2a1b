--------------------------- MODULE ExceptionProofs ---------------------------
(***************************************************************************)
(* For every stack, every size of the buffer and every set of texts: the   *)
(* callback of the unwinder stays in the buffer, the lines of a trace are  *)
(* the innermost frames that are not null, and what an exception and the   *)
(* entries made from it hold has the type of their fields.                 *)
(***************************************************************************)
EXTENDS Exception, FiniteSetTheorems, SequenceTheorems, TLAPS

-----------------------------------------------------------------------------
(* Counting the frames                                                      *)

Frame == Address \union {Null}

\* The number of frames of s before p that are not null.
SeenBefore(s, p) == Cardinality({q \in 1 .. p - 1 : s[q] # Null})

LEMMA NullIsNoAddress == Null \notin Address /\ Address \subseteq Nat
  BY StacktraceAssumption

\* The count goes up by one with a frame, and stays with a null one.
LEMMA SeenOneMore ==
    ASSUME NEW s, NEW p \in Nat \ {0}
    PROVE  /\ SeenBefore(s, p) \in Nat
           /\ SeenBefore(s, 1) = 0
           /\ s[p] = Null => SeenBefore(s, p + 1) = SeenBefore(s, p)
           /\ s[p] # Null => SeenBefore(s, p + 1) = SeenBefore(s, p) + 1
<1> DEFINE Seen(n) == {q \in 1 .. n - 1 : s[q] # Null}
<1>1. IsFiniteSet(Seen(p)) /\ Cardinality(Seen(p)) \in Nat
  <2>1. IsFiniteSet(1 .. p - 1)
    BY FS_Interval
  <2>2. Seen(p) \in SUBSET (1 .. p - 1)
    OBVIOUS
  <2>3. IsFiniteSet(Seen(p))
    BY <2>1, <2>2, FS_Subset
  <2> QED
    BY <2>3, FS_CardinalityType
<1>2. Seen(1) = {}
  OBVIOUS
<1>3. Cardinality(Seen(1)) = 0
  BY <1>2, FS_EmptySet
<1>4. ASSUME s[p] = Null
      PROVE  Seen(p + 1) = Seen(p)
  BY <1>4
<1>5. ASSUME s[p] # Null
      PROVE  Seen(p + 1) = Seen(p) \union {p} /\ p \notin Seen(p)
  BY <1>5
<1>6. ASSUME s[p] # Null
      PROVE  Cardinality(Seen(p + 1)) = Cardinality(Seen(p)) + 1
  <2>1. Seen(p + 1) = Seen(p) \union {p} /\ p \notin Seen(p)
    BY <1>5, <1>6
  <2> HIDE DEF Seen
  <2> QED
    BY <1>1, <2>1, FS_AddElement
<1>7. SeenBefore(s, p) = Cardinality(Seen(p))
      /\ SeenBefore(s, 1) = Cardinality(Seen(1))
      /\ SeenBefore(s, p + 1) = Cardinality(Seen(p + 1))
  BY DEF SeenBefore
<1> HIDE DEF Seen
<1> QED
  BY <1>1, <1>3, <1>4, <1>6, <1>7

\* The frames further out have no fewer before them.
LEMMA SeenMonotone ==
    ASSUME NEW s, NEW p \in Nat, NEW r \in Nat, p <= r
    PROVE  /\ SeenBefore(s, p) \in Nat
           /\ SeenBefore(s, r) \in Nat
           /\ SeenBefore(s, p) <= SeenBefore(s, r)
<1> DEFINE Seen(n) == {q \in 1 .. n - 1 : s[q] # Null}
<1>1. IsFiniteSet(1 .. r - 1)
  BY FS_Interval
<1>2. Seen(r) \in SUBSET (1 .. r - 1)
  OBVIOUS
<1>3. IsFiniteSet(Seen(r))
  BY <1>1, <1>2, FS_Subset
<1>4. Seen(p) \in SUBSET Seen(r)
  OBVIOUS
<1>5. IsFiniteSet(Seen(p)) /\ Cardinality(Seen(p)) <= Cardinality(Seen(r))
  BY <1>3, <1>4, FS_Subset
<1>6. Cardinality(Seen(p)) \in Nat /\ Cardinality(Seen(r)) \in Nat
  BY <1>3, <1>5, FS_CardinalityType
<1> QED
  BY <1>5, <1>6 DEF SeenBefore

-----------------------------------------------------------------------------
(* The keys of the lines                                                    *)

LEMMA Remainder ==
    ASSUME NEW a \in Nat
    PROVE  /\ a % ShortMod \in 0 .. ShortMod - 1
           /\ a % ShortMod <= a
           /\ a < ShortMod => a % ShortMod = a
  BY StacktraceAssumption, SMT

LEMMA Multiples ==
    ASSUME NEW a \in Nat
    PROVE  \E q \in Nat : ShortMod * q <= a /\ a < ShortMod * q + ShortMod
<1>1. a = ShortMod * (a \div ShortMod) + (a % ShortMod) /\ a \div ShortMod \in Nat
  BY StacktraceAssumption, SMT
<1>2. a % ShortMod \in 0 .. ShortMod - 1
  BY Remainder
<1>3. ASSUME NEW x, x \in Nat, NEW r, r \in 0 .. ShortMod - 1, a = x + r
      PROVE  x <= a /\ a < x + ShortMod
  BY <1>3, StacktraceAssumption
<1>4. ShortMod * (a \div ShortMod) \in Nat
  BY <1>1, StacktraceAssumption, SMT
<1>5. ShortMod * (a \div ShortMod) <= a /\ a < ShortMod * (a \div ShortMod) + ShortMod
  BY <1>1, <1>2, <1>3, <1>4
<1> QED
  BY <1>1, <1>5

LEMMA KeyOfMultiple ==
    ASSUME NEW k \in 0 .. ShortMod - 1, NEW q \in Nat
    PROVE  /\ (k + ShortMod * q) % ShortMod = k
           /\ ShortMod * q \in Nat
  BY StacktraceAssumption, SMTT(60)

\* The keys of n lines: no more than there are numbers of 16 bits.
KeyCount(n) == IF n <= ShortMod THEN n ELSE ShortMod

\* Every key below the count is the key of a line, the last of its lines is
\* one that no other of its lines follows, and there are no other keys.
LEMMA KeysOfLines ==
    ASSUME NEW n \in Nat
    PROVE  /\ {(i - 1) % ShortMod : i \in 1 .. n} = 0 .. KeyCount(n) - 1
           /\ \A key \in 0 .. KeyCount(n) - 1 :
                \E i \in 1 .. n : (i - 1) % ShortMod = key /\ i + ShortMod > n
<1> DEFINE Keys == {(i - 1) % ShortMod : i \in 1 .. n}
<1>1. ShortMod \in Nat \ {0}
  BY StacktraceAssumption
<1>2. ASSUME NEW i \in 1 .. n
      PROVE  (i - 1) % ShortMod \in 0 .. KeyCount(n) - 1
  <2>1. i - 1 \in Nat /\ i - 1 <= n - 1
    OBVIOUS
  <2>2. ASSUME NEW r, r \in 0 .. ShortMod - 1, r <= i - 1
        PROVE  r \in 0 .. KeyCount(n) - 1
    BY <1>1, <2>1, <2>2 DEF KeyCount
  <2> QED
    BY <2>1, <2>2, Remainder
<1>3. ASSUME NEW key \in 0 .. KeyCount(n) - 1
      PROVE  \E i \in 1 .. n : (i - 1) % ShortMod = key /\ i + ShortMod > n
  <2>1. key \in 0 .. ShortMod - 1 /\ key \in 0 .. n - 1 /\ n - 1 - key \in Nat
    BY <1>1 DEF KeyCount
  <2>2. PICK q \in Nat : /\ ShortMod * q <= n - 1 - key
                         /\ n - 1 - key < ShortMod * q + ShortMod
    BY <2>1, Multiples
  <2>3. (key + ShortMod * q) % ShortMod = key /\ ShortMod * q \in Nat
    BY <2>1, KeyOfMultiple
  <2>4. ASSUME NEW m \in Nat, m <= n - 1 - key, n - 1 - key < m + ShortMod
        PROVE  /\ key + m + 1 \in 1 .. n
               /\ (key + m + 1) - 1 = key + m
               /\ (key + m + 1) + ShortMod > n
    BY <1>1, <2>1, <2>4
  <2>5. /\ key + ShortMod * q + 1 \in 1 .. n
        /\ (key + ShortMod * q + 1) - 1 = key + ShortMod * q
        /\ (key + ShortMod * q + 1) + ShortMod > n
    BY <2>2, <2>3, <2>4
  <2> QED
    BY <2>3, <2>5
<1>4. Keys \subseteq 0 .. KeyCount(n) - 1
  BY <1>2
<1>5. 0 .. KeyCount(n) - 1 \subseteq Keys
  BY <1>3
<1> QED
  BY <1>3, <1>4, <1>5

\* While the lines have no more than 16-bit numbers, their keys are their numbers.
LEMMA KeyIsNumber ==
    ASSUME NEW n \in Nat, n <= ShortMod, NEW i \in 1 .. n
    PROVE  (i - 1) % ShortMod = i - 1
<1>1. i - 1 \in Nat /\ i - 1 < ShortMod
  BY StacktraceAssumption
<1> QED
  BY <1>1, Remainder

-----------------------------------------------------------------------------
(* What the callback has stored                                             *)

\* The number of frames the unwinder has handed over.
HandedOver == Len(stack) - Len(frames)

\* The inductive invariant: the buffer holds the frames handed over so far,
\* without the null ones and in their order, and no frame is left behind for
\* which there was room.
BufferHoldsFrames ==
    /\ stage \in {"idle", "unwind", "symbolize", "return"}
    /\ stack \in Seq(Frame)
    /\ frames \in Seq(Frame)
    /\ limit \in Nat
    /\ buffer \in Seq(Address)
    /\ HandedOver \in Nat
    /\ \A k \in 1 .. Len(frames) : frames[k] = stack[HandedOver + k]
    /\ Len(buffer) = SeenBefore(stack, HandedOver + 1)
    /\ Len(buffer) <= limit
    /\ \A p \in 1 .. HandedOver :
         stack[p] # Null => /\ SeenBefore(stack, p) < Len(buffer)
                            /\ buffer[SeenBefore(stack, p) + 1] = stack[p]
    /\ \A j \in 1 .. Len(buffer) :
         \E p \in 1 .. HandedOver : stack[p] # Null /\ SeenBefore(stack, p) = j - 1
    /\ stage \in {"symbolize", "return"} =>
         \A p \in 1 .. Len(stack) :
            stack[p] # Null /\ SeenBefore(stack, p) < limit => p <= HandedOver

\* The lines are made at the end, each from its address.
LinesOfBuffer ==
    /\ stage # "return" => lines = <<>>
    /\ stage = "return" =>
         /\ lines \in [0 .. KeyCount(Len(buffer)) - 1 -> Name]
         /\ Len(buffer) <= ShortMod =>
              \A key \in 0 .. Len(buffer) - 1 : lines[key] = LineOf(buffer[key + 1])

TraceInv == BufferHoldsFrames /\ LinesOfBuffer

\* A step of a program as far as traces are concerned.
TraceStep ==
    \/ \E s \in Stacks, n \in Limits \union {NumberOfLines} : Create(s, n)
    \/ Trace
    \/ ReturnLines
    \/ UNCHANGED traceVars

LEMMA StepsOfTraces == [ExceptionNext]_<<traceVars, exceptionVars>> => TraceStep
<1>1. ASSUME NEW caller, NEW message, NEW infos, NEW format,
             Construct(caller, message, infos, format)
      PROVE  TraceStep
  BY <1>1 DEF Construct, TraceStep
<1>2. ASSUME NEW e, NEW n \in Limits \union {NumberOfLines}, LogTraced(e, n)
      PROVE  TraceStep
  BY <1>2 DEF LogTraced, TraceStep
<1>3. ASSUME NEW level, NEW what, LogStdException(level, what)
      PROVE  TraceStep
  BY <1>2, <1>3 DEF LogStdException
<1>4. Constructed \/ Traced => TraceStep
  BY DEF Constructed, Traced, Return, TraceStep
<1>5. ASSUME NEW note, AddNote(note)
      PROVE  TraceStep
  BY <1>5 DEF AddNote, TraceStep
<1>6. ASSUME NEW level, LogException(level)
      PROVE  TraceStep
  BY <1>6 DEF LogException, TraceStep
<1>7. ASSUME NEW condition, NEW method, NEW message, NEW notes,
             Check(condition, method, message, notes)
      PROVE  TraceStep
  BY <1>7 DEF Check, TraceStep
<1>8. UNCHANGED <<traceVars, exceptionVars>> => TraceStep
  BY DEF TraceStep
<1>9. Trace => TraceStep
  BY DEF TraceStep
<1> HIDE DEF TraceStep
<1> QED
  BY <1>1, <1>2, <1>3, <1>4, <1>5, <1>6, <1>7, <1>8, <1>9 DEF ExceptionNext

LEMMA TraceInvInit == TraceInit => TraceInv
<1> SUFFICES ASSUME TraceInit
             PROVE  TraceInv
  OBVIOUS
<1>1. stage = "idle" /\ stack = <<>> /\ frames = <<>> /\ limit = 0
      /\ buffer = <<>> /\ lines = <<>>
  BY DEF TraceInit
<1>2. <<>> \in Seq(Frame) /\ <<>> \in Seq(Address) /\ Len(<<>>) = 0
  BY EmptySeq
<1>3. HandedOver = 0 /\ SeenBefore(stack, 1) = 0
  BY <1>1, <1>2, SeenOneMore DEF HandedOver
<1>4. BufferHoldsFrames
  BY <1>1, <1>2, <1>3 DEF BufferHoldsFrames
<1> QED
  BY <1>1, <1>4 DEF TraceInv, LinesOfBuffer

\* create starts with an empty buffer.
LEMMA CreateKeeps ==
    ASSUME NEW s \in Stacks, NEW n \in Limits \union {NumberOfLines}, Create(s, n)
    PROVE  TraceInv'
<1>1. stage' = "unwind" /\ stack' = s /\ frames' = s /\ limit' = n
      /\ buffer' = <<>> /\ lines' = <<>>
  BY DEF Create
<1>2. /\ s \in Seq(Frame) /\ <<>> \in Seq(Address) /\ Len(<<>>) = 0
      /\ n \in Nat
      /\ Len(s) \in Nat
  BY ExceptionAssumption, EmptySeq, LenProperties DEF Frame
<1>3. HandedOver' = 0 /\ SeenBefore(stack', 1) = 0
  BY <1>1, <1>2, SeenOneMore DEF HandedOver
<1>4. \A k \in 1 .. Len(frames') : frames'[k] = stack'[HandedOver' + k]
  BY <1>1, <1>2, <1>3
<1>5. BufferHoldsFrames'
  BY <1>1, <1>2, <1>3, <1>4 DEF BufferHoldsFrames
<1> QED
  BY <1>1, <1>5 DEF TraceInv, LinesOfBuffer

LEMMA ReturnKeeps ==
    ASSUME ReturnLines
    PROVE  TraceInv'
<1>1. stage' = "idle" /\ stack' = <<>> /\ frames' = <<>> /\ limit' = 0
      /\ buffer' = <<>> /\ lines' = <<>>
  BY DEF ReturnLines
<1>2. <<>> \in Seq(Frame) /\ <<>> \in Seq(Address) /\ Len(<<>>) = 0
  BY EmptySeq
<1>3. HandedOver' = 0 /\ SeenBefore(stack', 1) = 0
  BY <1>1, <1>2, SeenOneMore DEF HandedOver
<1>4. BufferHoldsFrames'
  BY <1>1, <1>2, <1>3 DEF BufferHoldsFrames
<1> QED
  BY <1>1, <1>4 DEF TraceInv, LinesOfBuffer

\* A frame that is handed over is the next one of the stack.
LEMMA NextFrame ==
    ASSUME BufferHoldsFrames, frames # <<>>, frames' = Tail(frames), stack' = stack
    PROVE  /\ HandedOver' = HandedOver + 1
           /\ HandedOver + 1 \in 1 .. Len(stack)
           /\ Head(frames) = stack[HandedOver + 1]
           /\ frames' \in Seq(Frame)
           /\ \A k \in 1 .. Len(frames') : frames'[k] = stack[HandedOver + 1 + k]
           /\ Len(frames) \in Nat /\ Len(stack) \in Nat
<1>1. /\ Len(frames) \in Nat \ {0} /\ Len(stack) \in Nat
      /\ HandedOver = Len(stack) - Len(frames)
      /\ HandedOver \in Nat
      /\ \A k \in 1 .. Len(frames) : frames[k] = stack[HandedOver + k]
  BY EmptySeq, LenProperties DEF BufferHoldsFrames, HandedOver
<1>2. /\ Tail(frames) \in Seq(Frame)
      /\ Len(Tail(frames)) = Len(frames) - 1
      /\ \A k \in 1 .. Len(Tail(frames)) : Tail(frames)[k] = frames[k + 1]
  BY HeadTailProperties DEF BufferHoldsFrames
<1>3. Head(frames) = frames[1]
  BY <1>1 DEF BufferHoldsFrames
<1>4. HandedOver' = HandedOver + 1
  BY <1>1, <1>2 DEF HandedOver
<1>5. frames[1] = stack[HandedOver + 1]
  BY <1>1
<1>6. ASSUME NEW k \in 1 .. Len(frames')
      PROVE  frames'[k] = stack[HandedOver + 1 + k]
  <2>1. k + 1 \in 1 .. Len(frames) /\ frames'[k] = frames[k + 1]
    BY <1>1, <1>2
  <2>2. frames[k + 1] = stack[HandedOver + (k + 1)]
    BY <1>1, <2>1
  <2>3. HandedOver + (k + 1) = HandedOver + 1 + k
    BY <1>1
  <2> QED
    BY <2>1, <2>2, <2>3
<1> QED
  BY <1>1, <1>2, <1>3, <1>4, <1>5, <1>6

LEMMA SkipKeeps ==
    ASSUME TraceInv, SkipFrame
    PROVE  TraceInv'
<1>1. /\ BufferHoldsFrames /\ LinesOfBuffer
      /\ stage = "unwind" /\ frames # <<>> /\ Head(frames) = Null
      /\ frames' = Tail(frames)
      /\ UNCHANGED <<stage, stack, limit, buffer, lines>>
  BY DEF TraceInv, SkipFrame
<1> DEFINE d == HandedOver
<1>2. /\ HandedOver' = d + 1
      /\ d + 1 \in 1 .. Len(stack)
      /\ stack[d + 1] = Null
      /\ frames' \in Seq(Frame)
      /\ \A k \in 1 .. Len(frames') : frames'[k] = stack[d + 1 + k]
      /\ d \in Nat
  BY <1>1, NextFrame DEF BufferHoldsFrames
<1>3. SeenBefore(stack, d + 1 + 1) = SeenBefore(stack, d + 1)
  BY <1>2, SeenOneMore
<1>4. ASSUME NEW p \in 1 .. d + 1, stack[p] # Null
      PROVE  p \in 1 .. d
  BY <1>2, <1>4
<1>5. \A j \in 1 .. Len(buffer) :
         \E p \in 1 .. d + 1 : stack[p] # Null /\ SeenBefore(stack, p) = j - 1
  <2>1. 1 .. d \subseteq 1 .. d + 1
    BY <1>2
  <2> QED
    BY <1>1, <2>1 DEF BufferHoldsFrames
<1>6. \A p \in 1 .. d + 1 :
         stack[p] # Null => /\ SeenBefore(stack, p) < Len(buffer)
                            /\ buffer[SeenBefore(stack, p) + 1] = stack[p]
  BY <1>1, <1>4 DEF BufferHoldsFrames
<1>7. Len(buffer) = SeenBefore(stack, d + 1 + 1)
  BY <1>1, <1>3 DEF BufferHoldsFrames
<1> HIDE DEF d
<1>8. BufferHoldsFrames'
  BY <1>1, <1>2, <1>5, <1>6, <1>7 DEF BufferHoldsFrames
<1>9. LinesOfBuffer'
  BY <1>1 DEF LinesOfBuffer
<1> QED
  BY <1>8, <1>9 DEF TraceInv

LEMMA StoreKeeps ==
    ASSUME TraceInv, StoreFrame
    PROVE  TraceInv'
<1>1. /\ BufferHoldsFrames /\ LinesOfBuffer
      /\ stage = "unwind" /\ frames # <<>> /\ Head(frames) # Null
      /\ Len(buffer) # limit
      /\ frames' = Tail(frames)
      /\ buffer' = Append(buffer, Head(frames))
      /\ UNCHANGED <<stage, stack, limit, lines>>
  BY DEF TraceInv, StoreFrame, BufferFull
<1> DEFINE d == HandedOver
           b == Len(buffer)
<1>2. /\ HandedOver' = d + 1
      /\ d + 1 \in 1 .. Len(stack)
      /\ Head(frames) = stack[d + 1]
      /\ frames' \in Seq(Frame)
      /\ \A k \in 1 .. Len(frames') : frames'[k] = stack[d + 1 + k]
      /\ d \in Nat
      /\ Head(frames) \in Frame
  BY <1>1, NextFrame, HeadTailProperties DEF BufferHoldsFrames
<1>3. /\ Head(frames) \in Address
      /\ buffer \in Seq(Address) /\ b \in Nat /\ limit \in Nat /\ b <= limit
  BY <1>1, <1>2, LenProperties DEF BufferHoldsFrames, Frame
<1>4. /\ buffer' \in Seq(Address)
      /\ Len(buffer') = b + 1
      /\ \A j \in 1 .. b : buffer'[j] = buffer[j]
      /\ buffer'[b + 1] = stack[d + 1]
  BY <1>1, <1>2, <1>3, AppendProperties
<1>5. b = SeenBefore(stack, d + 1)
  BY <1>1 DEF BufferHoldsFrames
<1>6. Len(buffer') = SeenBefore(stack, d + 1 + 1)
  BY <1>1, <1>2, <1>4, <1>5, SeenOneMore
<1>7. Len(buffer') <= limit
  BY <1>1, <1>3, <1>4
<1>8. ASSUME NEW p \in 1 .. d + 1, stack[p] # Null
      PROVE  /\ SeenBefore(stack, p) < Len(buffer')
             /\ buffer'[SeenBefore(stack, p) + 1] = stack[p]
  <2>1. CASE p = d + 1
    BY <1>3, <1>4, <1>5, <2>1
  <2>2. CASE p # d + 1
    <3>1. p \in 1 .. d
      BY <1>2, <2>2
    <3>2. /\ SeenBefore(stack, p) < b
          /\ buffer[SeenBefore(stack, p) + 1] = stack[p]
      BY <1>1, <1>8, <3>1 DEF BufferHoldsFrames
    <3>3. SeenBefore(stack, p) \in Nat
      BY <3>1, SeenMonotone
    <3>4. SeenBefore(stack, p) + 1 \in 1 .. b
      BY <1>3, <3>2, <3>3
    <3> QED
      BY <1>3, <1>4, <3>2, <3>3, <3>4
  <2> QED
    BY <2>1, <2>2
<1>9. ASSUME NEW j \in 1 .. Len(buffer')
      PROVE  \E p \in 1 .. d + 1 : stack[p] # Null /\ SeenBefore(stack, p) = j - 1
  <2>1. CASE j = b + 1
    <3>1. d + 1 \in 1 .. d + 1 /\ SeenBefore(stack, d + 1) = j - 1
      BY <1>2, <1>3, <1>5, <2>1
    <3> QED
      BY <1>1, <1>2, <3>1
  <2>2. CASE j # b + 1
    <3>1. j \in 1 .. b
      BY <1>3, <1>4, <2>2
    <3>2. PICK p \in 1 .. d : stack[p] # Null /\ SeenBefore(stack, p) = j - 1
      BY <1>1, <3>1 DEF BufferHoldsFrames
    <3>3. p \in 1 .. d + 1
      BY <1>2
    <3> QED
      BY <3>2, <3>3
  <2> QED
    BY <2>1, <2>2
<1> HIDE DEF d, b
<1>10. BufferHoldsFrames'
  <2>1. /\ stage' = "unwind" /\ stack' \in Seq(Frame) /\ limit' \in Nat
        /\ HandedOver' \in Nat
    BY <1>1, <1>2 DEF BufferHoldsFrames
  <2>2. \A k \in 1 .. Len(frames') : frames'[k] = stack'[HandedOver' + k]
    BY <1>1, <1>2
  <2>3. Len(buffer') = SeenBefore(stack', HandedOver' + 1) /\ Len(buffer') <= limit'
    BY <1>1, <1>2, <1>6, <1>7
  <2>4. \A p \in 1 .. HandedOver' :
           stack'[p] # Null => /\ SeenBefore(stack', p) < Len(buffer')
                               /\ buffer'[SeenBefore(stack', p) + 1] = stack'[p]
    BY <1>1, <1>2, <1>8
  <2>5. \A j \in 1 .. Len(buffer') :
           \E p \in 1 .. HandedOver' :
              stack'[p] # Null /\ SeenBefore(stack', p) = j - 1
    BY <1>1, <1>2, <1>9
  <2> QED
    BY <1>2, <1>4, <2>1, <2>2, <2>3, <2>4, <2>5 DEF BufferHoldsFrames
<1>11. LinesOfBuffer'
  BY <1>1 DEF LinesOfBuffer
<1> QED
  BY <1>10, <1>11 DEF TraceInv

\* When the callback ends the stack, every frame there was room for has come.
LEMMA EndKeeps ==
    ASSUME TraceInv, EndOfStack
    PROVE  TraceInv'
<1>1. /\ BufferHoldsFrames /\ LinesOfBuffer
      /\ stage = "unwind" /\ stage' = "symbolize"
      /\ frames # <<>> => Head(frames) # Null /\ Len(buffer) = limit
      /\ UNCHANGED <<stack, frames, limit, buffer, lines>>
  BY DEF TraceInv, EndOfStack, BufferFull
<1>2. /\ Len(stack) \in Nat /\ HandedOver \in Nat /\ limit \in Nat
      /\ Len(buffer) = SeenBefore(stack, HandedOver + 1)
  BY <1>1, LenProperties DEF BufferHoldsFrames
<1>3. ASSUME NEW p \in 1 .. Len(stack), SeenBefore(stack, p) < limit
      PROVE  p <= HandedOver
  <2>1. CASE frames = <<>>
    BY <1>2, <2>1, EmptySeq DEF HandedOver
  <2>2. CASE frames # <<>>
    <3>1. limit = SeenBefore(stack, HandedOver + 1)
      BY <1>1, <1>2, <2>2
    <3>2. HandedOver + 1 <= p => limit <= SeenBefore(stack, p)
      BY <1>2, <3>1, SeenMonotone
    <3>3. SeenBefore(stack, p) \in Nat
      BY SeenMonotone
    <3> QED
      BY <1>2, <1>3, <3>2, <3>3
  <2> QED
    BY <2>1, <2>2
<1>4. HandedOver' = HandedOver
  BY <1>1 DEF HandedOver
<1>5. BufferHoldsFrames'
  BY <1>1, <1>3, <1>4 DEF BufferHoldsFrames
<1>6. LinesOfBuffer'
  BY <1>1 DEF LinesOfBuffer
<1> QED
  BY <1>5, <1>6 DEF TraceInv

LEMMA LineIsName ==
    ASSUME NEW a \in Address
    PROVE  LineOf(a) \in Name
  BY DEF LineOf, Name

LEMMA SymbolizeKeeps ==
    ASSUME TraceInv, Symbolize
    PROVE  TraceInv'
<1> DEFINE n == Len(buffer)
           LastOf(key) == CHOOSE i \in DOMAIN buffer :
                              /\ (i - 1) % ShortMod = key
                              /\ i + ShortMod > Len(buffer)
<1>1. /\ BufferHoldsFrames /\ LinesOfBuffer
      /\ stage = "symbolize" /\ stage' = "return"
      /\ lines' = [key \in {(i - 1) % ShortMod : i \in DOMAIN buffer} |->
                        LineOf(buffer[LastOf(key)])]
      /\ UNCHANGED <<stack, frames, limit, buffer>>
  BY DEF TraceInv, Symbolize
<1>2. n \in Nat /\ DOMAIN buffer = 1 .. n /\ \A i \in 1 .. n : buffer[i] \in Address
  BY <1>1, LenProperties, ElementOfSeq DEF BufferHoldsFrames
<1>3. /\ {(i - 1) % ShortMod : i \in 1 .. n} = 0 .. KeyCount(n) - 1
      /\ \A key \in 0 .. KeyCount(n) - 1 :
           \E i \in 1 .. n : (i - 1) % ShortMod = key /\ i + ShortMod > n
  BY <1>2, KeysOfLines
<1>4. {(i - 1) % ShortMod : i \in DOMAIN buffer} = 0 .. KeyCount(n) - 1
  BY <1>2, <1>3
<1>5. ASSUME NEW key \in 0 .. KeyCount(n) - 1
      PROVE  /\ LastOf(key) \in 1 .. n
             /\ (LastOf(key) - 1) % ShortMod = key
  BY <1>2, <1>3
<1> HIDE DEF LastOf
<1>6. \A key \in 0 .. KeyCount(n) - 1 : LineOf(buffer[LastOf(key)]) \in Name
  BY <1>2, <1>5, LineIsName
<1>7. lines' = [key \in 0 .. KeyCount(n) - 1 |-> LineOf(buffer[LastOf(key)])]
  BY <1>1, <1>4
<1>8. lines' \in [0 .. KeyCount(n) - 1 -> Name]
  BY <1>6, <1>7
<1>9. ASSUME n <= ShortMod, NEW key \in 0 .. n - 1
      PROVE  lines'[key] = LineOf(buffer[key + 1])
  <2>1. KeyCount(n) = n
    BY <1>9 DEF KeyCount
  <2>2. (LastOf(key) - 1) % ShortMod = LastOf(key) - 1 /\ LastOf(key) \in 1 .. n
    BY <1>2, <1>5, <1>9, <2>1, KeyIsNumber
  <2>3. LastOf(key) - 1 = key
    BY <1>5, <2>1, <2>2
  <2>4. LastOf(key) = key + 1
    BY <2>2, <2>3
  <2> QED
    BY <1>7, <2>1, <2>4
<1>10. HandedOver' = HandedOver
  BY <1>1 DEF HandedOver
<1>11. BufferHoldsFrames'
  BY <1>1, <1>10 DEF BufferHoldsFrames
<1>12. n' = n
  BY <1>1
<1>13. LinesOfBuffer'
  BY <1>1, <1>8, <1>9, <1>12 DEF LinesOfBuffer
<1> QED
  BY <1>11, <1>13 DEF TraceInv

LEMMA TraceInvStep ==
    TraceInv /\ [ExceptionNext]_<<traceVars, exceptionVars>> => TraceInv'
<1> SUFFICES ASSUME TraceInv, TraceStep
             PROVE  TraceInv'
  BY StepsOfTraces
<1>1. ASSUME NEW s \in Stacks, NEW n \in Limits \union {NumberOfLines}, Create(s, n)
      PROVE  TraceInv'
  BY <1>1, CreateKeeps
<1>2. ASSUME Trace
      PROVE  TraceInv'
  BY <1>2, SkipKeeps, StoreKeeps, EndKeeps, SymbolizeKeeps DEF Trace
<1>3. ASSUME ReturnLines
      PROVE  TraceInv'
  BY <1>3, ReturnKeeps
<1>4. ASSUME UNCHANGED traceVars
      PROVE  TraceInv'
  BY <1>4 DEF traceVars, TraceInv, BufferHoldsFrames, LinesOfBuffer, HandedOver
<1> QED
  BY <1>1, <1>2, <1>3, <1>4 DEF TraceStep

LEMMA TraceInvType == TraceInv => TraceTypeOK
<1> SUFFICES ASSUME TraceInv
             PROVE  TraceTypeOK
  OBVIOUS
<1>1. Len(buffer) \in Nat /\ ShortMod \in Nat
  BY StacktraceAssumption, LenProperties DEF TraceInv, BufferHoldsFrames
<1>2. \E n \in 0 .. ShortMod : lines \in [0 .. n - 1 -> Name]
  <2>1. CASE stage = "return"
    <3>1. KeyCount(Len(buffer)) \in 0 .. ShortMod
      BY <1>1 DEF KeyCount
    <3> QED
      BY <2>1, <3>1 DEF TraceInv, LinesOfBuffer
  <2>2. CASE stage # "return"
    <3>1. <<>> \in [1 .. 0 -> Name]
      BY EmptySeq, LenProperties
    <3>2. 1 .. 0 = 0 .. 0 - 1
      OBVIOUS
    <3>3. lines \in [0 .. 0 - 1 -> Name]
      BY <2>2, <3>1, <3>2 DEF TraceInv, LinesOfBuffer
    <3> QED
      BY <1>1, <3>3
  <2> QED
    BY <2>1, <2>2
<1> QED
  BY <1>2 DEF TraceInv, BufferHoldsFrames, TraceTypeOK, Frame

LEMMA TraceInvInnermost == TraceInv => LinesAreInnermost
<1> SUFFICES ASSUME TraceInv, stage = "return", limit <= ShortMod
             PROVE  /\ \A p \in DOMAIN stack :
                         stack[p] # Null /\ Rank(p) < limit =>
                             Rank(p) \in DOMAIN lines /\ lines[Rank(p)] = LineOf(stack[p])
                    /\ \A n \in DOMAIN lines :
                         \E p \in DOMAIN stack :
                            stack[p] # Null /\ Rank(p) = n /\ n < limit
  BY DEF LinesAreInnermost
<1> DEFINE b == Len(buffer)
<1>1. BufferHoldsFrames /\ LinesOfBuffer
  BY DEF TraceInv
<1>2. /\ b \in Nat /\ limit \in Nat /\ ShortMod \in Nat /\ b <= limit
      /\ Len(stack) \in Nat /\ Len(frames) \in Nat /\ HandedOver \in Nat
      /\ HandedOver = Len(stack) - Len(frames)
      /\ DOMAIN stack = 1 .. Len(stack)
  BY <1>1, StacktraceAssumption, LenProperties DEF BufferHoldsFrames, HandedOver
<1>3. KeyCount(b) = b
  BY <1>2 DEF KeyCount
<1>4. DOMAIN lines = 0 .. b - 1
  BY <1>1, <1>3 DEF LinesOfBuffer
<1>5. \A key \in 0 .. b - 1 : lines[key] = LineOf(buffer[key + 1])
  BY <1>1, <1>2 DEF LinesOfBuffer
<1>6. \A p : Rank(p) = SeenBefore(stack, p)
  BY DEF Rank, SeenBefore
<1>7. ASSUME NEW p \in DOMAIN stack, stack[p] # Null, Rank(p) < limit
      PROVE  Rank(p) \in DOMAIN lines /\ lines[Rank(p)] = LineOf(stack[p])
  <2>1. p \in 1 .. HandedOver
    BY <1>1, <1>2, <1>6, <1>7 DEF BufferHoldsFrames
  <2>2. Rank(p) < b /\ buffer[Rank(p) + 1] = stack[p]
    BY <1>1, <1>6, <1>7, <2>1 DEF BufferHoldsFrames
  <2>3. Rank(p) \in Nat
    BY <1>6, <2>1, SeenMonotone
  <2>4. Rank(p) \in 0 .. b - 1
    BY <1>2, <2>2, <2>3
  <2> QED
    BY <1>4, <1>5, <2>2, <2>4
<1>8. ASSUME NEW n \in DOMAIN lines
      PROVE  \E p \in DOMAIN stack : stack[p] # Null /\ Rank(p) = n /\ n < limit
  <2>1. n \in 0 .. b - 1 /\ n + 1 \in 1 .. b /\ (n + 1) - 1 = n
    BY <1>2, <1>4
  <2>2. PICK p \in 1 .. HandedOver :
           stack[p] # Null /\ SeenBefore(stack, p) = (n + 1) - 1
    BY <1>1, <2>1 DEF BufferHoldsFrames
  <2>3. p \in DOMAIN stack /\ n < limit
    BY <1>2, <2>1
  <2> QED
    BY <1>6, <2>1, <2>2, <2>3
<1> QED
  BY <1>7, <1>8

LEMMA TraceInvImplies ==
    TraceInv => TraceTypeOK /\ WithinBuffer /\ LinesAreInnermost
<1>1. TraceInv => WithinBuffer
  BY DEF TraceInv, BufferHoldsFrames, WithinBuffer
<1> QED
  BY <1>1, TraceInvType, TraceInvInnermost

LEMMA TraceInvHolds == ExceptionSpec => []TraceInv
<1>1. ExceptionInit => TraceInv
  BY TraceInvInit DEF ExceptionInit
<1> QED
  BY <1>1, TraceInvStep, PTL DEF ExceptionSpec

\* The callback writes only into the buffer create gave it, whatever the depth
\* of the stack and the places of its null frames (linux_unwind_callback).
THEOREM CallbackStaysInBuffer == ExceptionSpec => []WithinBuffer
  BY TraceInvHolds, TraceInvImplies, PTL

\* A trace that asks for no more lines than 16 bits can number is exactly the
\* innermost frames that are not null, in their order (Stacktrace::create).
THEOREM TraceIsInnermost == ExceptionSpec => []LinesAreInnermost
  BY TraceInvHolds, TraceInvImplies, PTL

-----------------------------------------------------------------------------
(* The types of the exception and of the entries                            *)

\* The part of the type that is not about traces.
FieldsOK ==
    /\ exception \in ExceptionType
    /\ pending \in {Nothing} \union [call : {"Exception"}, value : ExceptionType]
                               \union [call : {"log"}, value : EntryType]
    /\ logged \in Seq(EntryType)

LEMMA LinesAreSeq ==
    ASSUME TraceTypeOK
    PROVE  LineSeq(lines) \in Seq(Name)
<1>1. PICK n \in 0 .. ShortMod : lines \in [0 .. n - 1 -> Name]
  BY DEF TraceTypeOK
<1>2. n \in Nat
  BY <1>1, StacktraceAssumption
<1>3. Cardinality(DOMAIN lines) = n
  <2>1. Cardinality(0 .. n - 1) = n
    BY <1>2, FS_Interval
  <2> QED
    BY <1>1, <2>1
<1>4. LineSeq(lines) = [i \in 1 .. n |-> lines[i - 1]]
  BY <1>3 DEF LineSeq
<1>5. \A i \in 1 .. n : lines[i - 1] \in Name
  BY <1>1, <1>2
<1>6. LineSeq(lines) \in [1 .. n -> Name]
  BY <1>4, <1>5
<1> QED
  BY <1>2, <1>6, SeqDef

LEMMA ShortListIsSeq ==
    ASSUME NEW notes \in BoundedSeq(NoteSet, 1)
    PROVE  notes \in Seq(NoteSet)
<1>1. notes \in UNION {[1 .. m -> NoteSet] : m \in 0 .. 1}
  BY DEF BoundedSeq, SeqOf
<1>2. PICK m \in 0 .. 1 : notes \in [1 .. m -> NoteSet]
  BY <1>1
<1> QED
  BY <1>2, SeqDef

LEMMA EntryHasType ==
    ASSUME NEW level \in Levels \union {"Warning"},
           NEW classname \in {"", "ee::Exception", "std::exception", "class"},
           NEW method \in Text \union {"", "std::exception", "method"},
           NEW message \in Text \union {""},
           NEW notes \in Seq(NoteSet), NEW trace \in Seq(Seq(Name))
    PROVE  LogEntry(level, classname, method, message, notes, trace) \in EntryType
  BY DEF LogEntry, EntryType

LEMMA NoTraceIsSeq == NoTrace \in Seq(Seq(Name))
  BY EmptySeq DEF NoTrace

\* An entry of type EntryType keeps the list of the thread well typed.
LEMMA StoreKeepsType ==
    ASSUME FieldsOK, NEW e \in EntryType, Store(e)
    PROVE  logged' \in Seq(EntryType)
  BY AppendProperties DEF FieldsOK, Store

LEMMA LogTracedKeepsType ==
    ASSUME FieldsOK, NEW e \in EntryType, NEW n, LogTraced(e, n)
    PROVE  FieldsOK'
  BY DEF FieldsOK, LogTraced

LEMMA ConstructKeepsType ==
    ASSUME FieldsOK, NEW caller \in Text, NEW message \in Text,
           NEW infos \in BoundedSeq(NoteSet, 1), NEW format \in OutputFormat,
           Construct(caller, message, infos, format)
    PROVE  FieldsOK'
<1>1. infos \in Seq(NoteSet) /\ <<>> \in Seq(Name)
  BY ShortListIsSeq, EmptySeq
<1>2. [format |-> format, caller |-> caller, message |-> message,
       infos |-> infos, lines |-> <<>>] \in ExceptionType
  BY <1>1 DEF ExceptionType
<1> QED
  BY <1>2 DEF FieldsOK, Construct

LEMMA ReturnKeepsType ==
    ASSUME FieldsOK, TraceTypeOK, Constructed \/ Traced
    PROVE  FieldsOK'
<1> DEFINE ls == LineSeq(lines)
<1>1. ls \in Seq(Name)
  BY LinesAreSeq
<1>2. <<ls>> \in Seq(Seq(Name))
  BY <1>1
<1>3. pending.call = "Exception" => pending.value \in ExceptionType
  BY DEF FieldsOK, Nothing
<1>4. pending.call = "log" => pending.value \in EntryType
  BY DEF FieldsOK, Nothing
<1> HIDE DEF ls
<1>5. ASSUME Constructed
      PROVE  FieldsOK'
  <2>1. /\ pending.call = "Exception" /\ pending' = Nothing
        /\ exception' = [pending.value EXCEPT !.lines = ls]
        /\ logged' = logged
    BY <1>5 DEF Constructed, Return, ls
  <2>2. exception' \in ExceptionType
    BY <1>1, <1>3, <2>1 DEF ExceptionType
  <2> QED
    BY <2>1, <2>2 DEF FieldsOK
<1>6. ASSUME Traced
      PROVE  FieldsOK'
  <2>1. /\ pending.call = "log" /\ pending' = Nothing
        /\ Store([pending.value EXCEPT !.trace = <<ls>>])
        /\ exception' = exception
    BY <1>6 DEF Traced, Return, ls
  <2>2. [pending.value EXCEPT !.trace = <<ls>>] \in EntryType
    BY <1>2, <1>4, <2>1 DEF EntryType
  <2>3. logged' \in Seq(EntryType)
    BY <2>1, <2>2, StoreKeepsType
  <2> QED
    BY <2>1, <2>3 DEF FieldsOK
<1> QED
  BY <1>5, <1>6

LEMMA AddNoteKeepsType ==
    ASSUME FieldsOK, NEW note \in NoteSet, AddNote(note)
    PROVE  FieldsOK'
<1>1. exception.infos \in Seq(NoteSet)
  BY DEF FieldsOK, ExceptionType
<1>2. Append(exception.infos, note) \in Seq(NoteSet)
  BY <1>1, AppendProperties
<1>3. [exception EXCEPT !.infos = Append(@, note)] \in ExceptionType
  BY <1>2 DEF FieldsOK, ExceptionType
<1> QED
  BY <1>3 DEF FieldsOK, AddNote

LEMMA LogExceptionKeepsType ==
    ASSUME FieldsOK, NEW level \in Levels, LogException(level)
    PROVE  FieldsOK'
<1>1. /\ exception.caller \in Text \union {""}
      /\ exception.message \in Text \union {""}
      /\ exception.infos \in Seq(NoteSet)
      /\ exception.lines \in Seq(Name)
  BY DEF FieldsOK, ExceptionType
<1>2. <<exception.lines>> \in Seq(Seq(Name))
  <2>1. \A ls \in Seq(Name) : <<ls>> \in Seq(Seq(Name))
    OBVIOUS
  <2> QED
    BY <1>1, <2>1
<1>3. LogEntry(level, "ee::Exception", exception.caller, exception.message,
               exception.infos, <<exception.lines>>) \in EntryType
  BY <1>1, <1>2, EntryHasType
<1>4. logged' \in Seq(EntryType)
  BY <1>3, StoreKeepsType DEF LogException
<1> QED
  BY <1>4 DEF FieldsOK, LogException

LEMMA CheckKeepsType ==
    ASSUME FieldsOK, NEW condition \in BOOLEAN, NEW message \in Text,
           Check(condition, "method", message, <<>>)
    PROVE  FieldsOK'
<1>1. LogEntry("Warning", "", "method", message, <<>>, NoTrace) \in EntryType
  BY NoTraceIsSeq, EmptySeq, EntryHasType
<1>2. logged' \in Seq(EntryType)
  <2>1. CASE condition
    BY <2>1 DEF Check, FieldsOK
  <2>2. CASE ~condition
    BY <1>1, <2>2, StoreKeepsType DEF Check
  <2> QED
    BY <2>1, <2>2
<1> QED
  BY <1>2 DEF FieldsOK, Check

LEMMA FieldsStep ==
    FieldsOK /\ TraceTypeOK /\ [ExceptionNext]_<<traceVars, exceptionVars>> => FieldsOK'
<1> SUFFICES ASSUME FieldsOK, TraceTypeOK,
                    [ExceptionNext]_<<traceVars, exceptionVars>>
             PROVE  FieldsOK'
  OBVIOUS
<1>1. ASSUME UNCHANGED exceptionVars
      PROVE  FieldsOK'
  BY <1>1 DEF exceptionVars, FieldsOK
<1>2. ASSUME NEW caller \in Text, NEW message \in Text,
             NEW infos \in BoundedSeq(NoteSet, 1), NEW format \in OutputFormat,
             Construct(caller, message, infos, format)
      PROVE  FieldsOK'
  BY <1>2, ConstructKeepsType
<1>3. ASSUME Constructed \/ Traced
      PROVE  FieldsOK'
  BY <1>3, ReturnKeepsType
<1>4. ASSUME NEW note \in NoteSet, AddNote(note)
      PROVE  FieldsOK'
  BY <1>4, AddNoteKeepsType
<1>5. ASSUME NEW level \in Levels, LogException(level)
      PROVE  FieldsOK'
  BY <1>5, LogExceptionKeepsType
<1>6. ASSUME NEW level \in Levels, NEW what \in Text, LogStdException(level, what)
      PROVE  FieldsOK'
  <2>1. LogEntry(level, "std::exception", "std::exception", what, <<>>, NoTrace)
          \in EntryType
    BY NoTraceIsSeq, EmptySeq, EntryHasType
  <2> QED
    BY <1>6, <2>1, LogTracedKeepsType DEF LogStdException
<1>7. ASSUME NEW level \in Levels, NEW notes \in BoundedSeq(NoteSet, 1),
             NEW n \in Limits,
             LogTraced(LogEntry(level, "class", "method", "", notes, NoTrace), n)
      PROVE  FieldsOK'
  <2>1. LogEntry(level, "class", "method", "", notes, NoTrace) \in EntryType
    BY ShortListIsSeq, NoTraceIsSeq, EntryHasType
  <2> QED
    BY <1>7, <2>1, LogTracedKeepsType
<1>8. ASSUME NEW condition \in BOOLEAN, NEW message \in Text,
             Check(condition, "method", message, <<>>)
      PROVE  FieldsOK'
  BY <1>8, CheckKeepsType
<1> QED
  BY <1>1, <1>2, <1>3, <1>4, <1>5, <1>6, <1>7, <1>8 DEF ExceptionNext

LEMMA FieldsInit == ExceptionInit => FieldsOK
<1>1. NoException \in ExceptionType
  BY EmptySeq DEF NoException, ExceptionType
<1>2. <<>> \in Seq(EntryType)
  BY EmptySeq
<1> QED
  BY <1>1, <1>2 DEF ExceptionInit, FieldsOK

\* The exception, what waits for its trace, and every entry logged hold fields
\* of their types, a trace a line for each of its numbers (Exception.cpp, the
\* overloads of Log::log and Log::check).
THEOREM ExceptionTypes == ExceptionSpec => []ExceptionTypeOK
<1>1. TraceInv => TraceTypeOK
  BY TraceInvType
<1>2. FieldsOK /\ TraceTypeOK => ExceptionTypeOK
  BY DEF FieldsOK, ExceptionTypeOK
<1> QED
  BY <1>1, <1>2, FieldsInit, FieldsStep, TraceInvHolds, PTL DEF ExceptionSpec
=============================================================================
