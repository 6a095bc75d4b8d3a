-------------------------- MODULE McpServerProofs ---------------------------
(***************************************************************************)
(* Proofs about McpServer for any messages, headers and chunks, any texts  *)
(* and any budget: what AgentPromise says of every step.                   *)
(***************************************************************************)
EXTENDS McpServer, SequenceTheorems, WellFoundedInduction, TLAPS

USE SizeAssumption, BoundAssumption DEF Numbers

----------------------------------------------------------------------------
(* The stream.                                                             *)

\* A nonempty set of numbers has a least one.
LEMMA Least ==
  ASSUME NEW S, S \subseteq Nat, S # {}
  PROVE  \E k \in S : \A j \in S : k <= j
<1>1. \E k \in S : \A j \in S : ~ (<<j, k>> \in OpToRel(<, Nat))
  BY WFMin, NatLessThanWellFounded
<1>2. PICK k \in S : \A j \in S : ~ (<<j, k>> \in OpToRel(<, Nat))
  BY <1>1
<1>3. ASSUME NEW j \in S PROVE k <= j
  <2>1. j \in Nat /\ k \in Nat
    OBVIOUS
  <2>2. ~ (j < k)
    BY <1>2, <2>1 DEF OpToRel
  <2>3. QED
    BY <2>1, <2>2
<1>4. QED
  BY <1>2, <1>3

\* A message is cut off behind an empty line that is there, by a length that
\* was read, and lies in the buffer.
LEMMA MessageEnds ==
  ASSUME NEW buf \in Seq(Cells), HasMessage(buf)
  PROVE  /\ Len(buf) \in Nat
         /\ HeaderEnd(buf) \in 2..Len(buf)
         /\ ContentLength(buf) \in Nat
         /\ HeaderEnd(buf) + ContentLength(buf) <= Len(buf)
<1> DEFINE ends == HeaderEnds(buf)
           lines == LengthLines(buf)
<1>1. Len(buf) \in Nat
  OBVIOUS
<1>2. HeaderEnd(buf) \in 2..Len(buf)
  <2>1. ends \subseteq 2..Len(buf) /\ ends # {}
    BY DEF HasMessage, HeaderEnds
  <2>2. ends \subseteq Nat
    BY <1>1, <2>1
  <2> HIDE DEF ends
  <2>3. \E k \in ends : \A j \in ends : k <= j
    BY <2>1, <2>2, Least
  <2>4. (CHOOSE k \in ends : \A j \in ends : k <= j) \in ends
    BY <2>3
  <2>5. HeaderEnd(buf) \in ends
    BY <2>4 DEF HeaderEnd, ends
  <2>6. QED
    BY <2>1, <2>5
<1>3. ContentLength(buf) \in Nat
  <2>1. ContentLength(buf) # None
    BY DEF HasMessage
  <2>2. lines # {}
    BY <2>1 DEF ContentLength
  <2>3. \A k \in lines : k \in 1..Len(buf) /\ buf[k].cell = "length"
    BY <1>1, <1>2 DEF LengthLines
  <2>4. lines \subseteq Nat
    BY <1>1, <2>3
  <2> HIDE DEF lines
  <2>5. \E k \in lines : \A j \in lines : k <= j
    BY <2>2, <2>4, Least
  <2>6. PICK k \in lines : k = CHOOSE i \in lines : \A j \in lines : i <= j
    BY <2>5
  <2>7. ContentLength(buf) = buf[k].value
    BY <2>2, <2>6 DEF ContentLength, lines
  <2>8. buf[k] \in Cells /\ buf[k].cell = "length"
    BY <2>3, <2>6, ElementOfSeq
  <2>9. buf[k].value \in Nat \cup {None}
    BY <2>8 DEF Cells, OtherLine, Blank
  <2>10. QED
    BY <2>1, <2>7, <2>9
<1>4. QED
  BY <1>1, <1>2, <1>3 DEF HasMessage

\* What is left of the buffer is its end; a body that was taken whole had its
\* last piece just before.
LEMMA RestIs ==
  ASSUME NEW buf \in Seq(Cells), HasMessage(buf)
  PROVE  \E stop \in 1..Len(buf) :
           /\ stop = HeaderEnd(buf) + ContentLength(buf)
           /\ Rest(buf) \in Seq(Cells) /\ Len(Rest(buf)) = Len(buf) - stop
           /\ \A k \in 1..Len(buf) - stop : Rest(buf)[k] = buf[stop + k]
           /\ \A n : NextBody(buf) = Body(n) => buf[stop] = Piece(n, BodySize)
<1> DEFINE head == HeaderEnd(buf)
           stop == HeaderEnd(buf) + ContentLength(buf)
<1>1. /\ Len(buf) \in Nat /\ head \in 2..Len(buf) /\ ContentLength(buf) \in Nat
      /\ stop <= Len(buf)
  BY MessageEnds
<1>2. stop \in 1..Len(buf) /\ stop \in Nat
  BY <1>1
<1>3. \A i \in 1..Len(buf) : buf[i] \in Cells
  BY ElementOfSeq
<1>4. /\ Rest(buf) \in Seq(Cells) /\ Len(Rest(buf)) = Len(buf) - stop
      /\ \A k \in 1..Len(buf) - stop : Rest(buf)[k] = buf[stop + k]
  <2>1. PICK s \in 1..Len(buf) : s = stop
    BY <1>2
  <2>2. s \in Nat /\ s + 1 \in Int /\ Len(buf) \in Int
    BY <1>1
  <2>3. \A i \in s + 1..Len(buf) : buf[i] \in Cells
    BY <1>1, <1>3, <2>1
  <2>4. Rest(buf) = SubSeq(buf, s + 1, Len(buf))
    BY <2>1 DEF Rest
  <2> HIDE DEF stop, head
  <2>5. /\ SubSeq(buf, s + 1, Len(buf)) \in Seq(Cells)
        /\ Len(SubSeq(buf, s + 1, Len(buf)))
             = IF s + 1 <= Len(buf) THEN Len(buf) - (s + 1) + 1 ELSE 0
        /\ \A i \in 1..Len(buf) - (s + 1) + 1 :
             SubSeq(buf, s + 1, Len(buf))[i] = buf[s + 1 + i - 1]
    BY <2>2, <2>3, SubSeqProperties
  <2>6. /\ Len(buf) - (s + 1) + 1 = Len(buf) - s
        /\ \A i \in 1..Len(buf) - s : s + 1 + i - 1 = s + i
        /\ (IF s + 1 <= Len(buf) THEN Len(buf) - (s + 1) + 1 ELSE 0) = Len(buf) - s
    BY <1>1, <2>1
  <2>7. QED
    BY <2>1, <2>4, <2>5, <2>6
<1>5. ASSUME NEW n, NextBody(buf) = Body(n)
      PROVE  buf[stop] = Piece(n, BodySize)
  <2>1. PICK h \in Nat : h = head
    BY <1>1
  <2>2. PICK c \in Nat : c = ContentLength(buf)
    BY <1>1
  <2>3. /\ h \in Nat /\ c \in Nat
        /\ h + 1 \in Int /\ h + c \in Int /\ h + c <= Len(buf) /\ h >= 2
    BY <1>1, <2>1, <2>2
  <2>4. \A i \in h + 1..h + c : buf[i] \in Cells
    BY <1>1, <1>3, <2>3
  <2>5. NextBody(buf) = SubSeq(buf, h + 1, h + c)
    BY <2>1, <2>2 DEF NextBody
  <2> HIDE DEF head, stop
  <2>6. /\ Len(SubSeq(buf, h + 1, h + c))
             = IF h + 1 <= h + c THEN (h + c) - (h + 1) + 1 ELSE 0
        /\ \A i \in 1..(h + c) - (h + 1) + 1 :
             SubSeq(buf, h + 1, h + c)[i] = buf[h + 1 + i - 1]
    BY <2>3, <2>4, SubSeqProperties
  <2>7. Len(Body(n)) = BodySize /\ Body(n)[BodySize] = Piece(n, BodySize)
    <3>1. Body(n) \in Seq({Piece(n, i) : i \in 1..BodySize}) /\ DOMAIN Body(n) = 1..BodySize
      BY DEF Body
    <3>2. Len(Body(n)) = BodySize
      BY <3>1
    <3>3. QED
      BY <3>2 DEF Body
  <2>8. (IF h + 1 <= h + c THEN (h + c) - (h + 1) + 1 ELSE 0) = c
    BY <2>3
  <2>9. c = BodySize
    BY <1>5, <2>5, <2>6, <2>7, <2>8
  <2>10. BodySize \in 1..(h + c) - (h + 1) + 1 /\ h + 1 + BodySize - 1 = h + c
    BY <2>3, <2>9
  <2>11. buf[h + c] = Piece(n, BodySize)
    BY <1>5, <2>5, <2>6, <2>7, <2>10
  <2>12. QED
    BY <2>1, <2>2, <2>11 DEF stop, head
<1>6. QED
  BY <1>2, <1>4, <1>5

\* A frame is its header's lines, an empty one, and the pieces of the body.
LEMMA FrameParts ==
  ASSUME NEW n \in Numbers, NEW h \in Headers
  PROVE  /\ Len(h) \in Nat /\ DOMAIN h = 1..Len(h)
         /\ Frame(n, h) \in Seq(Cells) /\ Len(Frame(n, h)) = Len(h) + 1 + BodySize
         /\ \A k \in 1..Len(h) :
              Frame(n, h)[k] = Line(h[k]) /\ Line(h[k]).cell \in {"length", "line"}
         /\ Frame(n, h)[Len(h) + 1] = Blank
         /\ \A i \in 1..BodySize : Frame(n, h)[Len(h) + 1 + i] = Piece(n, i)
<1> DEFINE S == {"right", "short", "long", "unreadable", "other"}
           lines == [k \in DOMAIN h |-> Line(h[k])]
           front == lines \o <<Blank>>
           size == Len(h)
<1>1. h \in Seq(S) /\ size \in Nat /\ DOMAIN h = 1..size
  BY HeaderAssumption
<1>2. ASSUME NEW k \in 1..size
      PROVE  Line(h[k]) \in Cells /\ Line(h[k]).cell \in {"length", "line"}
  <2>1. h[k] \in S
    BY <1>1, <1>2, ElementOfSeq
  <2>2. \A v \in Nat \cup {None} : LengthLine(v) \in Cells /\ LengthLine(v).cell = "length"
    BY DEF LengthLine, Cells
  <2>3. OtherLine \in Cells /\ OtherLine.cell = "line"
    BY DEF OtherLine, Cells
  <2>4. BodySize - 1 \in Nat /\ BodySize + 1 \in Nat
    OBVIOUS
  <2>5. \/ \E v \in Nat \cup {None} : Line(h[k]) = LengthLine(v)
        \/ Line(h[k]) = OtherLine
    BY <2>1, <2>4 DEF Line
  <2>6. QED
    BY <2>2, <2>3, <2>5
<1>3. lines \in Seq(Cells) /\ Len(lines) = size
  BY <1>1, <1>2
<1>4. /\ <<Blank>> \in Seq(Cells) /\ Len(<<Blank>>) = 1 /\ <<Blank>>[1] = Blank
      /\ Blank.cell # "piece"
  BY DEF Blank, Cells
<1>5. /\ Body(n) \in Seq(Cells) /\ Len(Body(n)) = BodySize
      /\ \A i \in 1..BodySize : Body(n)[i] = Piece(n, i)
  <2>1. \A i \in 1..BodySize : Piece(n, i) \in Cells
    BY DEF Piece, Cells
  <2>2. QED
    BY <2>1 DEF Body
<1>6. \A k \in 1..size : lines[k] = Line(h[k])
  BY <1>1
<1> HIDE DEF lines
<1>7. /\ front \in Seq(Cells) /\ Len(front) = size + 1
      /\ \A k \in 1..size + 1 : front[k] = IF k <= size THEN lines[k] ELSE <<Blank>>[k - size]
  BY <1>3, <1>4, ConcatProperties
<1> HIDE DEF front
<1>8. (\A k \in 1..size : front[k] = Line(h[k])) /\ front[size + 1] = Blank
  <2>1. PICK s \in Nat : s = size
    BY <1>1
  <2>2. /\ \A k \in 1..s : k \in 1..s + 1 /\ k <= s
        /\ s + 1 \in 1..s + 1 /\ ~(s + 1 <= s) /\ s + 1 - s = 1
    BY ONLY <2>1
  <2>3. QED
    BY <1>4, <1>6, <1>7, <2>1, <2>2
<1>9. /\ front \o Body(n) \in Seq(Cells) /\ Len(front \o Body(n)) = size + 1 + BodySize
      /\ \A k \in 1..size + 1 + BodySize :
           (front \o Body(n))[k] = IF k <= size + 1 THEN front[k] ELSE Body(n)[k - (size + 1)]
  <2>1. PICK body : body = Body(n)
    OBVIOUS
  <2>2. PICK f : f = front
    OBVIOUS
  <2>3. /\ f \in Seq(Cells) /\ body \in Seq(Cells)
        /\ Len(f) = size + 1 /\ Len(body) = BodySize
    BY <1>5, <1>7, <2>1, <2>2
  <2>4. /\ f \o body \in Seq(Cells) /\ Len(f \o body) = Len(f) + Len(body)
        /\ \A k \in 1..Len(f) + Len(body) :
             (f \o body)[k] = IF k <= Len(f) THEN f[k] ELSE body[k - Len(f)]
    BY <2>3, ConcatProperties
  <2>5. QED
    BY <2>1, <2>2, <2>3, <2>4
<1>10. Frame(n, h) = front \o Body(n)
  BY DEF Frame, front, lines
<1>11. PICK s \in Nat : s = size
  BY <1>1
<1>12. /\ \A k \in 1..s + 1 : k \in 1..s + 1 + BodySize /\ k <= s + 1
       /\ \A k \in 1..s : k \in 1..s + 1
       /\ s + 1 \in 1..s + 1
       /\ \A i \in 1..BodySize : /\ s + 1 + i \in 1..s + 1 + BodySize /\ ~(s + 1 + i <= s + 1)
                                 /\ s + 1 + i - (s + 1) = i
  BY ONLY <1>11, SizeAssumption
<1>13. (\A k \in 1..s : Frame(n, h)[k] = front[k]) /\ Frame(n, h)[s + 1] = front[s + 1]
  BY <1>9, <1>10, <1>11, <1>12
<1>14. \A i \in 1..BodySize : Frame(n, h)[s + 1 + i] = Piece(n, i)
  BY <1>5, <1>9, <1>10, <1>11, <1>12
<1>15. QED
  BY <1>1, <1>2, <1>8, <1>9, <1>10, <1>11, <1>13, <1>14

\* A piece tells its place.
LEMMA PieceIs == \A n, i, m, j : Piece(n, i) = Piece(m, j) => n = m /\ i = j
<1>1. SUFFICES ASSUME NEW n, NEW i, NEW m, NEW j, Piece(n, i) = Piece(m, j)
               PROVE  n = m /\ i = j
  OBVIOUS
<1>2. Piece(n, i).of = n /\ Piece(n, i).at = i /\ Piece(m, j).of = m /\ Piece(m, j).at = j
  BY DEF Piece
<1>3. QED
  BY <1>1, <1>2

\* The frame of a message ends with the last piece of its body, and has no
\* other one.
LEMMA FrameIs ==
  ASSUME NEW n \in Numbers, NEW h \in Headers
  PROVE  /\ Frame(n, h) \in Seq(Cells)
         /\ Len(Frame(n, h)) \in Nat /\ Len(Frame(n, h)) >= 1
         /\ \A k \in 1..Len(Frame(n, h)), m \in Numbers :
              Frame(n, h)[k] = Piece(m, BodySize) => m = n /\ k = Len(Frame(n, h))
<1>1. PICK size \in Nat : size = Len(h)
  BY FrameParts
<1>2. PICK frame : frame = Frame(n, h)
  OBVIOUS
<1>3. /\ frame \in Seq(Cells) /\ Len(frame) = size + 1 + BodySize
      /\ \A k \in 1..size : frame[k].cell \in {"length", "line"}
      /\ frame[size + 1] = Blank
      /\ \A i \in 1..BodySize : frame[size + 1 + i] = Piece(n, i)
  BY <1>1, <1>2, FrameParts
<1>4. ASSUME NEW k \in 1..size + 1 + BodySize, NEW m \in Numbers,
             frame[k] = Piece(m, BodySize)
      PROVE  m = n /\ k = size + 1 + BodySize
  <2>1. Piece(m, BodySize).cell = "piece" /\ Blank.cell = "blank"
    BY DEF Piece, Blank
  <2>2. k \notin 1..size /\ k # size + 1
    BY <1>3, <1>4, <2>1
  <2>3. k - (size + 1) \in 1..BodySize /\ size + 1 + (k - (size + 1)) = k
    BY <1>1, <1>4, <2>2
  <2>4. PICK i \in 1..BodySize : i = k - (size + 1)
    BY <2>3
  <2>5. Piece(n, i) = Piece(m, BodySize)
    BY <1>3, <1>4, <2>3, <2>4
  <2>6. n = m /\ i = BodySize
    BY <2>5, PieceIs
  <2>7. QED
    BY <1>1, <2>3, <2>4, <2>6
<1>5. QED
  BY <1>1, <1>2, <1>3, <1>4

\* The loop finds a message where one stands behind right headers, if it is
\* all there, and takes what is its own.
LEMMA MessageFound ==
  ASSUME NEW buf \in Seq(Cells), NEW n \in Numbers, NEW h \in Headers, Counts(h),
         NEW frame, frame = Frame(n, h),
         \A i \in 1..Len(frame) : i <= Len(buf) => buf[i] = frame[i]
  PROVE  /\ HasMessage(buf) <=> Len(frame) <= Len(buf)
         /\ HasMessage(buf) => /\ NextBody(buf) = Body(n)
                               /\ HeaderEnd(buf) + ContentLength(buf) = Len(frame)
<1>1. PICK size \in Nat : size = Len(h)
  BY FrameParts
<1>2. PICK full \in Nat : full = Len(buf)
  OBVIOUS
<1>3. /\ DOMAIN h = 1..size /\ Len(frame) = size + 1 + BodySize
      /\ \A k \in 1..size : frame[k] = Line(h[k]) /\ Line(h[k]).cell \in {"length", "line"}
      /\ frame[size + 1] = Blank
      /\ \A i \in 1..BodySize : frame[size + 1 + i] = Piece(n, i)
  BY <1>1, FrameParts
<1>4. PICK k0 \in 1..size : h[k0] = "right" /\ \A j \in 1..(k0 - 1) : h[j] = "other"
  BY <1>3 DEF Counts
<1>5. size >= 1 /\ k0 \in Nat
  BY <1>4
<1>6. \A k \in 1..size : k \in 1..size + 1 + BodySize
  BY <1>1
<1>7. \A k \in 1..size : k <= full => buf[k] = Line(h[k]) /\ buf[k].cell \in {"length", "line"}
  BY <1>2, <1>3, <1>6
<1>8. Blank.cell = "blank"
  BY DEF Blank
<1>9. \A k \in HeaderEnds(buf) : k \in 2..full /\ k >= size + 1
  <2>1. ASSUME NEW k \in HeaderEnds(buf), ~(k >= size + 1) PROVE FALSE
    <3>1. k \in 2..full /\ buf[k] = Blank
      BY <1>2 DEF HeaderEnds
    <3>2. k \in 1..size /\ k <= full
      BY <1>1, <1>2, <2>1, <3>1
    <3>3. QED
      BY <1>7, <1>8, <3>1, <3>2
  <2>2. QED
    BY <1>2, <2>1 DEF HeaderEnds
<1>10. ASSUME size + 1 <= full
       PROVE  size + 1 \in HeaderEnds(buf) /\ HeaderEnd(buf) = size + 1
  <2>1. size + 1 \in 1..size + 1 + BodySize /\ size + 1 \in 2..full
    BY <1>1, <1>2, <1>5, <1>10
  <2>2. buf[size + 1] = Blank
    BY <1>2, <1>3, <1>10, <2>1
  <2>3. size + 1 - 1 = size /\ buf[size].cell # "piece"
    BY <1>1, <1>2, <1>5, <1>7, <1>10
  <2>4. size + 1 \in HeaderEnds(buf)
    BY <1>2, <2>1, <2>2, <2>3 DEF HeaderEnds
  <2>5. PICK c : c = HeaderEnd(buf)
    OBVIOUS
  <2>6. \A j \in HeaderEnds(buf) : size + 1 <= j
    BY <1>1, <1>2, <1>9
  <2>7. c \in HeaderEnds(buf) /\ \A j \in HeaderEnds(buf) : c <= j
    BY <2>4, <2>5, <2>6 DEF HeaderEnd
  <2>8. c \in 2..full /\ c >= size + 1 /\ c <= size + 1
    BY <1>9, <2>4, <2>7
  <2>9. c = size + 1
    BY <1>1, <1>2, <2>8
  <2>10. QED
    BY <2>4, <2>5, <2>9
<1>11. ASSUME size + 1 <= full PROVE ContentLength(buf) = BodySize
  <2>1. LengthLines(buf) =
          {k \in 1..size : buf[k].cell = "length" /\ (k = 1 \/ buf[k - 1].cell # "piece")}
    <3>1. HeaderEnd(buf) - 1 = size
      BY <1>1, <1>10, <1>11
    <3>2. QED
      BY <3>1 DEF LengthLines
  <2>2. \A k \in 1..size : k <= full
    BY <1>1, <1>2, <1>11
  <2>3. buf[k0] = LengthLine(BodySize)
    BY <1>4, <1>7, <2>2 DEF Line
  <2>4. k0 = 1 \/ k0 - 1 \in 1..size
    BY <1>1, <1>4
  <2>5. k0 \in LengthLines(buf)
    BY <1>4, <1>7, <2>1, <2>2, <2>3, <2>4 DEF LengthLine
  <2>6. ASSUME NEW j \in LengthLines(buf), ~(k0 <= j) PROVE FALSE
    <3>1. j \in 1..size /\ buf[j].cell = "length"
      BY <2>1, <2>6
    <3>2. j \in 1..(k0 - 1)
      BY <1>1, <1>5, <2>6, <3>1
    <3>3. Line(h[j]) = OtherLine /\ OtherLine.cell = "line"
      BY <1>4, <3>2 DEF Line, OtherLine
    <3>4. QED
      BY <1>7, <2>2, <3>1, <3>3
  <2>7. PICK c : c = CHOOSE k \in LengthLines(buf) : \A j \in LengthLines(buf) : k <= j
    OBVIOUS
  <2>8. c \in LengthLines(buf) /\ c <= k0
    BY <2>5, <2>6, <2>7
  <2>9. c \in 1..size /\ k0 <= c
    BY <2>1, <2>6, <2>8
  <2>10. c = k0
    BY <1>1, <1>5, <2>8, <2>9
  <2>11. ContentLength(buf) = buf[c].value
    BY <2>5, <2>7 DEF ContentLength
  <2>12. QED
    BY <2>3, <2>10, <2>11 DEF LengthLine
<1>12. HasMessage(buf) <=> size + 1 + BodySize <= full
  <2>1. CASE HeaderEnds(buf) = {}
    <3>1. ~(size + 1 <= full)
      BY <1>10, <2>1
    <3>2. ~(size + 1 + BodySize <= full)
      BY <1>1, <1>2, <3>1
    <3>3. QED
      BY <2>1, <3>2 DEF HasMessage
  <2>2. CASE HeaderEnds(buf) # {}
    <3>1. PICK k : k \in HeaderEnds(buf)
      BY <2>2
    <3>2. size + 1 <= full
      BY <1>1, <1>2, <1>9, <3>1
    <3>3. HeaderEnd(buf) = size + 1 /\ ContentLength(buf) = BodySize /\ BodySize # None
      BY <1>10, <1>11, <3>2, NoneAssumption
    <3>4. HasMessage(buf) <=> full >= (size + 1) + BodySize
      BY <1>2, <2>2, <3>3 DEF HasMessage
    <3>5. QED
      BY <1>1, <1>2, <3>4
  <2>3. QED
    BY <2>1, <2>2
<1>13. ASSUME HasMessage(buf)
       PROVE  NextBody(buf) = Body(n) /\ HeaderEnd(buf) + ContentLength(buf) = Len(frame)
  <2>1. size + 1 + BodySize <= full /\ size + 1 <= full
    BY <1>1, <1>2, <1>12, <1>13
  <2>2. HeaderEnd(buf) = size + 1 /\ ContentLength(buf) = BodySize
    BY <1>10, <1>11, <2>1
  <2>3. NextBody(buf) = SubSeq(buf, size + 1 + 1, size + 1 + BodySize)
    BY <2>2 DEF NextBody
  <2>4. /\ \A i \in size + 1 + 1..size + 1 + BodySize : i \in 1..full
        /\ size + 1 + 1 \in Int /\ size + 1 + BodySize \in Int
        /\ size + 1 + BodySize - (size + 1 + 1) + 1 = BodySize
        /\ \A i \in 1..BodySize : /\ size + 1 + 1 + i - 1 = size + 1 + i
                                  /\ size + 1 + i \in 1..size + 1 + BodySize
                                  /\ size + 1 + i <= full
    BY ONLY <1>1, <1>2, <2>1, SizeAssumption
  <2>5. \A i \in size + 1 + 1..size + 1 + BodySize : buf[i] \in Cells
    BY <1>2, <2>4, ElementOfSeq
  <2>6. PICK body : body = SubSeq(buf, size + 1 + 1, size + 1 + BodySize)
    OBVIOUS
  <2>7. /\ body \in Seq(Cells)
        /\ \A i \in 1..BodySize : body[i] = buf[size + 1 + i]
    BY <2>4, <2>5, <2>6, SubSeqProperties
  <2>8. Len(body) = BodySize
    <3>1. size + 1 + 1 <= size + 1 + BodySize
      BY <1>1
    <3>2. QED
      BY <2>4, <2>5, <2>6, <3>1, SubSeqProperties
  <2>9. \A i \in 1..BodySize : body[i] = Piece(n, i)
    BY <1>2, <1>3, <2>4, <2>7
  <2>10. body = [i \in 1..BodySize |-> Piece(n, i)]
    <3>1. body = [i \in 1..BodySize |-> body[i]]
      BY <2>7, <2>8
    <3>2. QED
      BY <2>9, <3>1
  <2>11. QED
    BY <1>3, <2>2, <2>3, <2>6, <2>10 DEF Body
<1>14. QED
  BY <1>2, <1>3, <1>12, <1>13

----------------------------------------------------------------------------
(* The handlers.                                                           *)

\* The budget of a call is a number of passes.
LEMMA DepthType ==
  ASSUME NEW a, a.depth \in Nat \cup {None}
  PROVE  Depth(a) \in Nat
BY DEF Depth, DefaultDepth

\* No corrections lead to the text itself, one more to what it is corrected to.
LEMMA CorrectedOnce ==
  ASSUME NEW k \in Nat, NEW first \in DOMAIN Violations, NEW texts \in Corrections(k, first)
  PROVE  \E more \in Corrections(k + 1, first) :
           more[k] = texts[k] /\ more[k + 1] = Corrected[texts[k]]
<1>1. /\ texts \in [0..k -> DOMAIN Violations] /\ texts[0] = first
      /\ \A i \in 1..k : texts[i] = Corrected[texts[i - 1]]
  BY DEF Corrections
<1>2. PICK more : more = [i \in 0..k + 1 |-> IF i = k + 1 THEN Corrected[texts[k]] ELSE texts[i]]
  OBVIOUS
<1>3. Corrected[texts[k]] \in DOMAIN Violations
  <2>1. texts[k] \in DOMAIN Violations
    BY <1>1
  <2>2. QED
    BY <2>1, TextAssumption
<1>4. \A i \in 0..k + 1 : i = k + 1 \/ i \in 0..k
  OBVIOUS
<1>5. more \in [0..k + 1 -> DOMAIN Violations]
  BY <1>1, <1>2, <1>3, <1>4
<1>6. more[k + 1] = Corrected[texts[k]] /\ \A i \in 0..k : more[i] = texts[i]
  BY <1>2
<1>7. ASSUME NEW i \in 1..k + 1 PROVE more[i] = Corrected[more[i - 1]]
  <2>1. CASE i = k + 1
    BY <1>6, <2>1
  <2>2. CASE i # k + 1
    <3>1. i \in 1..k /\ i - 1 \in 0..k /\ i \in 0..k
      BY <2>2
    <3>2. QED
      BY <1>1, <1>6, <3>1
  <2>3. QED
    BY <2>1, <2>2
<1>8. more[0] = first /\ more[k] = texts[k]
  BY <1>1, <1>6
<1>9. more \in Corrections(k + 1, first)
  BY <1>5, <1>7, <1>8 DEF Corrections
<1>10. QED
  BY <1>6, <1>8, <1>9

\* No passes lead to the text that was sent.
LEMMA NotCorrected ==
  ASSUME NEW first \in DOMAIN Violations
  PROVE  \E texts \in Corrections(0, first) : texts[0] = first
<1>1. PICK texts : texts = [i \in 0..0 |-> first]
  OBVIOUS
<1>2. texts \in [0..0 -> DOMAIN Violations] /\ texts[0] = first
  BY <1>1
<1>3. \A i \in 1..0 : texts[i] = Corrected[texts[i - 1]]
  OBVIOUS
<1>4. texts \in Corrections(0, first)
  BY <1>2, <1>3 DEF Corrections
<1>5. QED
  BY <1>2, <1>4

\* A call of a linting tool that is understood has a text, and a snippet a budget.
LEMMA CallTypes ==
  ASSUME NEW m \in Messages, IsCall(m), Understood(m), m.params.name \in Linters
  PROVE  /\ m.params.args # None
         /\ m.params.args.code \in DOMAIN Violations
         /\ m.params.name = "lint_snippet" => Depth(m.params.args) \in Nat
<1>1. m.form = "request" /\ m.method = "tools/call" /\ m.params # None
  BY DEF IsCall, Understood
<1>2. m.params.args # None
  BY <1>1 DEF Understood, Notifications
<1>3. QED
  BY <1>1, <1>2, MessageAssumption, DepthType DEF Linters

\* An error of the linter or the provider is right for a call of a linting tool.
LEMMA ThrownRight ==
  ASSUME NEW m, IsCall(m), Understood(m), m.params.name \in Linters
  PROVE  /\ TaskType(Settled(Error(m.id, -32603)), m)
         /\ RightTask(Settled(Error(m.id, -32603)), m)
BY DEF Settled, Error, TaskType, RightTask, RightResponse, Understood

\* An error that refuses a message is right if the message was not understood.
LEMMA RefusedRight ==
  ASSUME NEW m, m.form = "request", ~Understood(m), NEW code
  PROVE  /\ TaskType(Settled(Error(m.id, code)), m)
         /\ RightTask(Settled(Error(m.id, code)), m)
BY DEF Settled, Error, TaskType, RightTask, RightResponse

\* A result is right if it is that of the call.
LEMMA AnsweredRight ==
  ASSUME NEW m, Understood(m), NEW result,
         IsCall(m) => RightCall(m.params.name, m.params.args, result)
  PROVE  /\ TaskType(Settled(Success(m.id, result)), m)
         /\ RightTask(Settled(Success(m.id, result)), m)
BY DEF Settled, Success, TaskType, RightTask, RightResponse, Understood

\* handleToolCall begins rightly: a tool it knows is started on its own text,
\* or answered, and everything else is refused.
LEMMA CallToolRight ==
  ASSUME NEW m \in Messages, m.form = "request", IsCall(m),
         NEW t, t = CallTool(m, m.params.name, m.params.args)
  PROVE  TaskType(t, m) /\ RightTask(t, m) /\ t.phase \in {"lint", "hash", "answer"}
<1> DEFINE name == m.params.name
           a == m.params.args
<1>1. \A response : Settled(response).phase = "answer"
  BY DEF Settled
<1>2. Understood(m) <=> /\ name \in Tools /\ a # None
                        /\ name = "lint_snippet" => a.version \in {None, "1"}
  BY DEF Understood, IsCall, Notifications
<1>3. CASE name \in Tools /\ a = None
  <2>1. t = Settled(Error(m.id, -32602))
    BY <1>3 DEF CallTool
  <2>2. QED
    BY <1>1, <1>2, <1>3, <2>1, RefusedRight
<1>4. CASE name \notin Tools
  <2>1. t = Settled(Error(m.id, -32601))
    BY <1>4 DEF CallTool, Tools
  <2>2. QED
    BY <1>1, <1>2, <1>4, <2>1, RefusedRight
<1>5. CASE a # None /\ name = "lint_snippet"
  <2>1. CASE a.version \notin {None, "1"}
    <3>1. t = Settled(Error(m.id, -32602))
      BY <1>5, <2>1 DEF CallTool, Tools
    <3>2. QED
      BY <1>1, <1>2, <1>5, <2>1, <3>1, RefusedRight
  <2>2. CASE a.version \in {None, "1"}
    <3>1. Understood(m) /\ name \in Linters
      BY <1>2, <1>5, <2>2 DEF Tools, Linters
    <3>2. a.code \in DOMAIN Violations /\ Depth(a) \in Nat
      BY <1>5, <3>1, CallTypes
    <3>3. CASE WithinBudget(0, a)
      <4>1. t = Linting(a.code, 0, linter = "tracked")
        BY <1>5, <2>2, <3>3 DEF CallTool, Tools
      <4>2. t.phase = "lint" /\ t.code = a.code /\ t.used = 0 /\ t.ready \in BOOLEAN
        BY <4>1 DEF Linting
      <4>3. RightPass(name, a, t)
        BY <1>5, <3>2, <3>3, <4>2, NotCorrected DEF RightPass, WithinBudget
      <4>4. TaskType(t, m)
        BY <3>2, <4>2 DEF TaskType
      <4>5. QED
        BY <3>1, <4>2, <4>3, <4>4 DEF RightTask
    <3>4. CASE ~WithinBudget(0, a)
      <4>1. t = Linted(a.code, 0, 0)
        BY <1>5, <2>2, <3>4 DEF CallTool, Tools
      <4>2. t.phase = "hash" /\ t.code = a.code /\ t.used = 0
        BY <4>1 DEF Linted
      <4>3. RightCall(name, a, Result(t, None))
        BY <1>5, <3>2, <3>4 DEF RightCall, WithinBudget
      <4>4. TaskType(t, m)
        BY <3>2, <4>2 DEF TaskType
      <4>5. QED
        BY <3>1, <4>2, <4>3, <4>4 DEF RightTask
    <3>5. QED
      BY <3>3, <3>4
  <2>3. QED
    BY <2>1, <2>2
<1>6. CASE a # None /\ name = "get_token_completions"
  <2>1. t = Settled(Success(m.id, [tokens |-> TokenCompletions(a)]))
    BY <1>6 DEF CallTool, Tools
  <2>2. RightCall(name, a, [tokens |-> TokenCompletions(a)])
    BY <1>6 DEF RightCall, RightTokens, TokenCompletions
  <2>3. Understood(m)
    BY <1>2, <1>6 DEF Tools
  <2>4. QED
    BY <1>1, <2>1, <2>2, <2>3, AnsweredRight
<1>7. CASE a # None /\ name = "validate_component_usage"
  <2>1. Understood(m) /\ name \in Linters
    BY <1>2, <1>7 DEF Tools, Linters
  <2>2. a.code \in DOMAIN Violations
    BY <2>1, CallTypes
  <2>3. t = Linting(a.code, 0, linter = "tracked")
    BY <1>7 DEF CallTool, Tools
  <2>4. t.phase = "lint" /\ t.code = a.code /\ t.used = 0 /\ t.ready \in BOOLEAN
    BY <2>3 DEF Linting
  <2>5. RightPass(name, a, t)
    BY <1>7, <2>4 DEF RightPass
  <2>6. TaskType(t, m)
    BY <1>7, <2>2, <2>4 DEF TaskType
  <2>7. QED
    BY <2>1, <2>4, <2>5, <2>6 DEF RightTask
<1>8. CASE a # None /\ name = "explain_diagnostic"
  <2>1. t = Settled(Success(m.id, Explanation(a)))
    BY <1>8 DEF CallTool, Tools
  <2>2. RightCall(name, a, Explanation(a))
    BY <1>8 DEF RightCall
  <2>3. Understood(m)
    BY <1>2, <1>8 DEF Tools
  <2>4. QED
    BY <1>1, <2>1, <2>2, <2>3, AnsweredRight
<1>9. QED
  BY <1>3, <1>4, <1>5, <1>6, <1>7, <1>8 DEF Tools

\* So does handleRequest.
LEMMA HandleRequestRight ==
  ASSUME NEW m \in Messages, m.form = "request", NEW t, t = HandleRequest(m)
  PROVE  TaskType(t, m) /\ RightTask(t, m) /\ t.phase \in {"lint", "hash", "answer"}
<1>1. \A response : Settled(response).phase = "answer"
  BY DEF Settled
<1>2. CASE m.method \in {"initialize", "tools/list"}
  <2>1. t = Settled(Success(m.id, [method |-> m.method]))
    BY <1>2 DEF HandleRequest, Notifications
  <2>2. Understood(m) /\ ~IsCall(m)
    BY <1>2 DEF Understood, IsCall
  <2>3. QED
    BY <1>1, <2>1, <2>2, AnsweredRight
<1>3. CASE m.method = "tools/call" /\ m.params = None
  <2>1. t = Settled(Error(m.id, -32602))
    BY <1>3 DEF HandleRequest, Notifications
  <2>2. ~Understood(m)
    BY <1>3 DEF Understood, IsCall, Notifications
  <2>3. QED
    BY <1>1, <2>1, <2>2, RefusedRight
<1>4. CASE m.method = "tools/call" /\ m.params # None
  <2>1. t = CallTool(m, m.params.name, m.params.args)
    BY <1>4 DEF HandleRequest, Notifications
  <2>2. IsCall(m)
    BY <1>4 DEF IsCall
  <2>3. QED
    BY <2>1, <2>2, CallToolRight
<1>5. CASE m.method \in Notifications
  <2>1. t = Settled(Success(m.id, [method |-> None]))
    BY <1>5 DEF HandleRequest, Notifications
  <2>2. Understood(m) /\ ~IsCall(m)
    BY <1>5 DEF Understood, IsCall, Notifications
  <2>3. QED
    BY <1>1, <2>1, <2>2, AnsweredRight
<1>6. CASE m.method \notin {"initialize", "tools/list", "tools/call"} \cup Notifications
  <2>1. t = Settled(Error(m.id, -32601))
    BY <1>6 DEF HandleRequest, Notifications
  <2>2. ~Understood(m)
    BY <1>6 DEF Understood, IsCall
  <2>3. QED
    BY <1>1, <2>1, <2>2, RefusedRight
<1>7. QED
  BY <1>2, <1>3, <1>4, <1>5, <1>6

\* What the handler does when its lint has returned.
AfterLint(t, m) ==
  LET found == Violations[t.code]
      fixed == Corrected[t.code]
      more == found # 0 /\ fixed # t.code /\ WithinBudget(t.used + 1, m.params.args)
  IN  IF m.params.name = "validate_component_usage" \/ found = 0
      THEN Linted(t.code, t.used, found)
      ELSE IF more THEN Linting(fixed, t.used + 1, TRUE)
      ELSE Linted(fixed, t.used + 1, found)

\* That is right: one more pass within the budget, or the result.
LEMMA AfterLintRight ==
  ASSUME NEW m \in Messages, NEW t, t.phase = "lint", TaskType(t, m), RightTask(t, m),
         NEW u, u = AfterLint(t, m)
  PROVE  TaskType(u, m) /\ RightTask(u, m) /\ u.phase \in {"lint", "hash"}
<1> DEFINE name == m.params.name
           a == m.params.args
           found == Violations[t.code]
           fixed == Corrected[t.code]
<1>1. /\ IsCall(m) /\ Understood(m) /\ name \in Linters
      /\ RightPass(name, a, t)
      /\ t.code \in DOMAIN Violations /\ t.used \in Nat
  BY DEF RightTask, TaskType
<1>2. a.code \in DOMAIN Violations /\ (name = "lint_snippet" => Depth(a) \in Nat)
  BY <1>1, CallTypes
<1>3. found \in Nat /\ fixed \in DOMAIN Violations
  BY <1>1, TextAssumption
<1>4. CASE name = "validate_component_usage"
  <2>1. u = Linted(t.code, t.used, found)
    BY <1>4 DEF AfterLint
  <2>2. u.phase = "hash" /\ u.code = t.code /\ u.used = t.used /\ u.remaining = found
    BY <2>1 DEF Linted
  <2>3. t.code = a.code /\ t.used = 0
    BY <1>1, <1>4 DEF RightPass
  <2>4. RightCall(name, a, Result(u, None))
    BY <1>4, <2>2, <2>3 DEF RightCall, RightValidation, Result, Converged
  <2>5. TaskType(u, m)
    BY <1>1, <1>4, <2>2 DEF TaskType
  <2>6. QED
    BY <1>1, <2>2, <2>4, <2>5 DEF RightTask
<1>5. CASE name = "lint_snippet"
  <2>1. t.used < Depth(a)
    BY <1>1, <1>5 DEF RightPass
  <2>2. PICK texts \in Corrections(t.used, a.code) : t.code = texts[t.used]
    BY <1>1, <1>5 DEF RightPass
  <2>3. CASE found = 0
    <3>1. u = Linted(t.code, t.used, found)
      BY <2>3 DEF AfterLint
    <3>2. u.phase = "hash" /\ u.code = t.code /\ u.used = t.used /\ u.remaining = 0
      BY <2>3, <3>1 DEF Linted
    <3> DEFINE r == Result(u, None)
    <3>3. r.code = t.code /\ r.used = t.used /\ r.remaining = 0 /\ r.converged = TRUE
      BY <3>2 DEF Result, Converged
    <3> HIDE DEF r
    <3>4. RightResult(a, r)
      BY <1>1, <1>2, <1>5, <2>1, <2>2, <2>3, <3>3 DEF RightResult
    <3>5. RightCall(name, a, r)
      BY <1>5, <3>4 DEF RightCall
    <3>6. TaskType(u, m)
      BY <1>1, <1>2, <1>5, <2>1, <3>2 DEF TaskType
    <3>7. QED
      BY <1>1, <3>2, <3>5, <3>6 DEF RightTask, r
  <2>4. PICK further \in Corrections(t.used + 1, a.code) :
          further[t.used] = t.code /\ further[t.used + 1] = fixed
    BY <1>1, <1>2, <2>2, CorrectedOnce
  <2>5. CASE found # 0 /\ fixed # t.code /\ WithinBudget(t.used + 1, a)
    <3>1. u = Linting(fixed, t.used + 1, TRUE)
      BY <1>5, <2>5 DEF AfterLint
    <3>2. u.phase = "lint" /\ u.code = fixed /\ u.used = t.used + 1 /\ u.ready
      BY <3>1 DEF Linting
    <3>3. u.used < Depth(a)
      BY <2>5, <3>2 DEF WithinBudget
    <3>4. RightPass(name, a, u)
      BY <1>5, <2>4, <3>2, <3>3 DEF RightPass
    <3>5. TaskType(u, m)
      BY <1>1, <1>2, <1>3, <1>5, <3>2, <3>3 DEF TaskType
    <3>6. QED
      BY <1>1, <3>2, <3>4, <3>5 DEF RightTask
  <2>6. CASE found # 0 /\ ~(fixed # t.code /\ WithinBudget(t.used + 1, a))
    <3>1. u = Linted(fixed, t.used + 1, found)
      BY <1>5, <2>6 DEF AfterLint
    <3>2. u.phase = "hash" /\ u.code = fixed /\ u.used = t.used + 1 /\ u.remaining = found
      BY <3>1 DEF Linted
    <3> DEFINE r == Result(u, None)
    <3>3. /\ r.code = fixed /\ r.used = t.used + 1 /\ r.remaining = found
          /\ r.converged = FALSE
      BY <2>6, <3>2 DEF Result, Converged
    <3> HIDE DEF r
    <3>4. r.used <= Depth(a) /\ r.used - 1 = t.used
      BY <1>1, <1>2, <1>5, <2>1, <3>3
    <3>5. \/ Corrected[r.code] = r.code /\ r.remaining = Violations[r.code]
          \/ r.used = Depth(a) /\ r.remaining = Violations[further[r.used - 1]]
      <4>1. CASE fixed = t.code
        BY <3>3, <4>1
      <4>2. CASE ~WithinBudget(t.used + 1, a)
        <5>1. t.used + 1 = Depth(a)
          BY <1>1, <1>2, <1>5, <2>1, <4>2 DEF WithinBudget
        <5>2. QED
          BY <2>4, <3>3, <3>4, <5>1
      <4>3. QED
        BY <2>6, <4>1, <4>2
    <3>6. RightResult(a, r)
      BY <2>4, <2>6, <3>3, <3>4, <3>5 DEF RightResult
    <3>7. RightCall(name, a, r)
      BY <1>5, <3>6 DEF RightCall
    <3>8. TaskType(u, m)
      BY <1>1, <1>3, <3>2, <3>3, <3>4 DEF TaskType
    <3>9. QED
      BY <1>1, <3>2, <3>7, <3>8 DEF RightTask, r
  <2>7. QED
    BY <2>3, <2>5, <2>6
<1>6. QED
  BY <1>1, <1>4, <1>5 DEF Linters

\* The hash changes nothing about what a result says of the text.
LEMMA HashRight ==
  ASSUME NEW m \in Messages, NEW t, t.phase = "hash", RightTask(t, m), NEW hash
  PROVE  /\ TaskType(Settled(Success(m.id, Result(t, hash))), m)
         /\ RightTask(Settled(Success(m.id, Result(t, hash))), m)
<1> DEFINE r == Result(t, None)
           s == Result(t, hash)
           name == m.params.name
           a == m.params.args
<1>1. /\ s.code = r.code /\ s.used = r.used /\ s.remaining = r.remaining
      /\ s.converged = r.converged
  BY DEF Result
<1>2. Understood(m) /\ name \in Linters /\ RightCall(name, a, r)
  BY DEF RightTask
<1> HIDE DEF r, s
<1>3. RightResult(a, r) => RightResult(a, s)
  BY <1>1 DEF RightResult
<1>4. RightValidation(a, r) => RightValidation(a, s)
  BY <1>1 DEF RightValidation
<1>5. RightCall(name, a, s)
  BY <1>2, <1>3, <1>4 DEF RightCall, Linters
<1>6. QED
  BY <1>2, <1>5, AnsweredRight DEF s

----------------------------------------------------------------------------
(* Every action keeps the types and the invariant.                         *)

\* A sequence is longer by what is appended.
LEMMA AppendIs ==
  ASSUME NEW s, IsSequence(s), NEW e
  PROVE  /\ IsSequence(Append(s, e))
         /\ Len(s) \in Nat /\ DOMAIN s = 1..Len(s)
         /\ DOMAIN Append(s, e) = 1..Len(s) + 1
         /\ Append(s, e)[Len(s) + 1] = e
         /\ \A k \in 1..Len(s) : Append(s, e)[k] = s[k]
<1> DEFINE S == {s[k] : k \in DOMAIN s} \cup {e}
           longer == Append(s, e)
<1>1. s \in Seq({s[k] : k \in DOMAIN s})
  BY DEF IsSequence
<1>2. Len(s) \in Nat /\ DOMAIN s = 1..Len(s)
  BY <1>1
<1>3. \A k \in 1..Len(s) : s[k] \in S
  BY <1>2
<1>4. s \in Seq(S)
  <2>1. s = [k \in 1..Len(s) |-> s[k]]
    BY <1>1
  <2> HIDE DEF S
  <2>2. s \in [1..Len(s) -> S]
    BY <1>3, <2>1
  <2>3. QED
    BY <1>2, <2>2
<1>5. e \in S
  OBVIOUS
<1> HIDE DEF S
<1>6. /\ longer \in Seq(S) /\ Len(longer) = Len(s) + 1
      /\ \A k \in 1..Len(s) : longer[k] = s[k]
      /\ longer[Len(s) + 1] = e
  BY <1>4, <1>5, AppendProperties
<1>7. DOMAIN longer = 1..Len(s) + 1
  BY <1>6
<1> HIDE DEF longer
<1>8. IsSequence(longer)
  <2>1. \A k \in 1..Len(s) + 1 : longer[k] \in {longer[j] : j \in DOMAIN longer}
    BY <1>7
  <2>2. longer = [k \in 1..Len(s) + 1 |-> longer[k]]
    BY <1>6, <1>7
  <2>3. PICK T : T = {longer[j] : j \in DOMAIN longer}
    OBVIOUS
  <2>4. longer \in [1..Len(s) + 1 -> T] /\ Len(s) + 1 \in Nat
    BY <1>2, <2>1, <2>2, <2>3
  <2>5. longer \in Seq(T)
    BY <2>4
  <2>6. QED
    BY <2>3, <2>5 DEF IsSequence
<1>9. QED
  BY <1>2, <1>6, <1>7, <1>8 DEF longer

\* The lengths and places of the streams.
LEMMA StreamTypes ==
  ASSUME TypeOK
  PROVE  /\ Len(buffer) \in Nat /\ DOMAIN buffer = 1..Len(buffer)
         /\ Len(wire) \in Nat /\ DOMAIN wire = 1..Len(wire)
         /\ Len(sent) \in Nat /\ DOMAIN sent = 1..Len(sent) /\ Len(sent) <= MaxMessages
         /\ \A n \in DOMAIN sent : n \in Numbers /\ Message(n) \in Messages /\ sent[n].end \in Nat
         /\ \A n \in DOMAIN sent : sent[n] \in [message : Messages, counts : BOOLEAN, end : Nat]
         /\ received \in Nat
<1>1. /\ buffer \in Seq(Cells) /\ wire \in Seq(Cells) /\ received \in Nat
      /\ sent \in Seq([message : Messages, counts : BOOLEAN, end : Nat])
      /\ Len(sent) <= MaxMessages
  BY DEF TypeOK
<1>2. /\ Len(buffer) \in Nat /\ DOMAIN buffer = 1..Len(buffer)
      /\ Len(wire) \in Nat /\ DOMAIN wire = 1..Len(wire)
      /\ Len(sent) \in Nat /\ DOMAIN sent = 1..Len(sent)
  BY <1>1
<1>3. ASSUME NEW n \in DOMAIN sent
      PROVE  n \in Numbers /\ sent[n] \in [message : Messages, counts : BOOLEAN, end : Nat]
  <2>1. n \in 1..Len(sent)
    BY <1>2
  <2>2. sent[n] \in [message : Messages, counts : BOOLEAN, end : Nat]
    BY <1>1, <2>1, ElementOfSeq
  <2>3. n \in Numbers
    BY <1>1, <1>2, <2>1
  <2>4. QED
    BY <2>2, <2>3
<1>4. QED
  BY <1>1, <1>2, <1>3 DEF Message

\* A step of the control alone.
LEMMA ControlKeeps ==
  ASSUME TypeOK, ServerInv, UNCHANGED <<wire, buffer, task, out, sent, received>>,
         reading' \in BOOLEAN, open' \in BOOLEAN, linter' \in {"loading", "loaded", "tracked", "failed"}
  PROVE  TypeOK' /\ ServerInv'
<1>1. \A n : Message(n)' = Message(n)
  BY DEF Message
<1>2. TypeOK'
  BY <1>1 DEF TypeOK
<1>3. consumed' = consumed
  BY DEF consumed
<1>4. StreamInv'
  BY <1>3 DEF ServerInv, StreamInv, Placed
<1>5. TaskInv' /\ OutInv'
  BY <1>1, <1>3 DEF ServerInv, TaskInv, OutInv
<1>6. QED
  BY <1>2, <1>4, <1>5 DEF ServerInv

\* A handler begins, goes on, or answers: out is what it was, or has its answer.
LEMMA HandlerKeeps ==
  ASSUME TypeOK, ServerInv, UNCHANGED <<wire, reading, open, sent, received>>,
         linter' \in {linter, "tracked"},
         buffer' \in Seq(Cells), StreamInv', consumed <= consumed',
         NEW n \in DOMAIN sent, sent[n].end <= consumed', task[n].phase # "done",
         NEW t, task' = [task EXCEPT ![n] = t], t.phase # "idle",
         TaskType(t, Message(n)), RightTask(t, Message(n)),
         \/ out' = out
         \/ t.phase = "done" /\ \E r : out' = Append(out, Response(n, r))
  PROVE  TypeOK' /\ ServerInv'
<1>1. n \in Numbers
  BY StreamTypes
<1>2. \A k : Message(k)' = Message(k)
  BY DEF Message
<1>3. task = [k \in Numbers |-> task[k]]
  BY DEF TypeOK
<1>4. /\ task' = [k \in Numbers |-> task'[k]] /\ task'[n] = t
      /\ \A k \in Numbers : k # n => task'[k] = task[k]
  BY <1>1, <1>3
<1>5. IsSequence(out) /\ IsSequence(out')
  <2>1. IsSequence(out)
    BY DEF TypeOK
  <2>2. \A e : IsSequence(Append(out, e))
    BY <2>1, AppendIs
  <2>3. QED
    BY <2>1, <2>2
<1>6. \A k \in Numbers : TaskType(task'[k], Message(k))
  BY <1>4 DEF TypeOK
<1>7. TypeOK'
  <2>1. /\ wire' \in Seq(Cells)
        /\ reading' \in BOOLEAN /\ open' \in BOOLEAN
        /\ linter' \in {"loading", "loaded", "tracked", "failed"}
        /\ sent' \in Seq([message : Messages, counts : BOOLEAN, end : Nat]) /\ received' \in Nat
        /\ Len(sent') <= MaxMessages
        /\ received' + Len(wire') = IF sent' = <<>> THEN 0 ELSE sent'[Len(sent')].end
    BY DEF TypeOK
  <2>2. \A k \in Numbers : TaskType(task'[k], Message(k)')
    BY <1>2, <1>6
  <2>3. QED
    BY <1>4, <1>5, <2>1, <2>2 DEF TypeOK
<1>8. \A k \in DOMAIN sent : sent[k].end <= consumed => sent[k].end <= consumed'
  <2>1. consumed \in Int /\ \A k \in DOMAIN sent : sent[k].end \in Int
    BY StreamTypes DEF consumed
  <2>2. consumed' \in Int
    <3>1. Len(buffer') \in Nat /\ received' \in Nat
      BY StreamTypes
    <3>2. QED
      BY <3>1 DEF consumed
  <2>3. QED
    BY <2>1, <2>2
<1>9. TaskInv'
  <2>1. SUFFICES ASSUME NEW k \in Numbers
                 PROVE  /\ task'[k].phase # "idle" => k \in DOMAIN sent /\ sent[k].end <= consumed'
                        /\ RightTask(task'[k], Message(k))
    BY <1>2 DEF TaskInv
  <2>2. CASE k = n
    BY <1>4, <2>2
  <2>3. CASE k # n
    BY <1>4, <1>8, <2>3 DEF ServerInv, TaskInv
  <2>4. QED
    BY <2>2, <2>3
<1>10. OutInv'
  <2>1. ASSUME NEW k \in DOMAIN out, out[k].to # 0
        PROVE  out[k].to \in Numbers /\ task'[out[k].to].phase = "done"
    BY <1>4, <2>1 DEF ServerInv, OutInv
  <2>2. CASE out' = out
    BY <2>1, <2>2 DEF OutInv
  <2>3. CASE t.phase = "done" /\ \E r : out' = Append(out, Response(n, r))
    <3>1. PICK r : out' = Append(out, Response(n, r))
      BY <2>3
    <3>2. /\ Len(out) \in Nat /\ DOMAIN out = 1..Len(out) /\ DOMAIN out' = 1..Len(out) + 1
          /\ out'[Len(out) + 1] = Response(n, r)
          /\ \A k \in 1..Len(out) : out'[k] = out[k]
      BY <1>5, <3>1, AppendIs
    <3>3. \A k \in 1..Len(out) + 1 : k = Len(out) + 1 \/ k \in 1..Len(out)
      BY <3>2
    <3>4. Response(n, r).to = n
      BY DEF Response
    <3>5. ASSUME NEW k \in DOMAIN out', out'[k].to # 0
          PROVE  out'[k].to \in Numbers /\ task'[out'[k].to].phase = "done"
      <4>1. CASE k = Len(out) + 1
        <5>1. out'[k].to = n
          BY <3>2, <3>4, <4>1
        <5>2. QED
          BY <1>1, <1>4, <2>3, <5>1
      <4>2. CASE k # Len(out) + 1
        <5>1. k \in DOMAIN out /\ out'[k] = out[k]
          BY <3>2, <3>3, <3>5, <4>2
        <5>2. QED
          BY <2>1, <3>5, <5>1
      <4>3. QED
        BY <4>1, <4>2
    <3>6. QED
      BY <3>5 DEF OutInv
  <2>4. QED
    BY <2>2, <2>3
<1>11. QED
  BY <1>7, <1>9, <1>10 DEF ServerInv

\* A handler that is under way goes on, or answers.
LEMMA TaskKeeps ==
  ASSUME TypeOK, ServerInv, UNCHANGED <<wire, buffer, reading, open, sent, received>>,
         linter' \in {linter, "tracked"},
         NEW n \in Numbers, task[n].phase \notin {"idle", "done"},
         NEW t, task' = [task EXCEPT ![n] = t], t.phase # "idle",
         TaskType(t, Message(n)), RightTask(t, Message(n)),
         \/ out' = out
         \/ t.phase = "done" /\ \E r : out' = Append(out, Response(n, r))
  PROVE  TypeOK' /\ ServerInv'
<1>1. consumed' = consumed
  BY DEF consumed
<1>2. StreamInv' /\ buffer' \in Seq(Cells)
  BY <1>1 DEF ServerInv, StreamInv, Placed, TypeOK
<1>3. n \in DOMAIN sent /\ sent[n].end <= consumed'
  BY <1>1 DEF ServerInv, TaskInv
<1>4. consumed <= consumed'
  <2>1. consumed \in Int
    BY StreamTypes DEF consumed
  <2>2. QED
    BY <1>1, <2>1
<1>5. QED
  BY <1>2, <1>3, <1>4, HandlerKeeps

\* The client puts a frame behind what is on the wire, and remembers it.
Sends(h, frame, e) ==
  /\ frame = Frame(Len(sent) + 1, h) /\ Len(sent) + 1 \in Numbers
  /\ frame \in Seq(Cells) /\ Len(frame) \in Nat /\ Len(frame) >= 1
  /\ \A k \in 1..Len(frame), n \in Numbers :
       frame[k] = Piece(n, BodySize) => n = Len(sent) + 1 /\ k = Len(frame)
  /\ e.counts = Counts(h) /\ e.end = received + Len(wire) + Len(frame)
  /\ sent' \in Seq([message : Messages, counts : BOOLEAN, end : Nat])
  /\ Len(sent') = Len(sent) + 1 /\ DOMAIN sent' = 1..Len(sent) + 1
  /\ sent'[Len(sent) + 1] = e /\ \A n \in 1..Len(sent) : sent'[n] = sent[n]
  /\ wire' \in Seq(Cells) /\ Len(wire') = Len(wire) + Len(frame)
  /\ DOMAIN wire' = 1..Len(wire) + Len(frame)
  /\ \A k \in 1..Len(wire) + Len(frame) :
       wire'[k] = IF k <= Len(wire) THEN wire[k] ELSE frame[k - Len(wire)]

\* A message is sent: its frame goes behind what is on the wire.
LEMMA SendIs ==
  ASSUME TypeOK, Send
  PROVE  \E h \in Headers : \E frame, e : Sends(h, frame, e)
<1> DEFINE N == Len(sent)
           W == Len(wire)
<1>1. PICK m \in Messages, h \in Headers :
        /\ wire' = wire \o Frame(N + 1, h)
        /\ sent' = Append(sent, [message |-> m, counts |-> Counts(h),
                                 end |-> received + W + Len(Frame(N + 1, h))])
  BY DEF Send
<1>2. UNCHANGED <<buffer, reading, task, out, linter, open, received>> /\ N < MaxMessages
  BY DEF Send
<1>3. PICK frame : frame = Frame(N + 1, h)
  OBVIOUS
<1>4. /\ N \in Nat /\ DOMAIN sent = 1..N /\ W \in Nat /\ DOMAIN wire = 1..W
      /\ received \in Nat /\ DOMAIN buffer = 1..Len(buffer)
  BY StreamTypes
<1>5. N + 1 \in Numbers
  BY <1>2, <1>4
<1>6. /\ frame \in Seq(Cells) /\ Len(frame) \in Nat /\ Len(frame) >= 1
      /\ \A k \in 1..Len(frame), n \in Numbers :
           frame[k] = Piece(n, BodySize) => n = N + 1 /\ k = Len(frame)
  BY <1>3, <1>5, FrameIs
<1>7. PICK e : e = [message |-> m, counts |-> Counts(h), end |-> received + W + Len(frame)]
  OBVIOUS
<1>8. /\ e \in [message : Messages, counts : BOOLEAN, end : Nat]
      /\ e.counts = Counts(h) /\ e.end = received + W + Len(frame)
  <2>1. Counts(h) \in BOOLEAN
    BY DEF Counts
  <2>2. received + W + Len(frame) \in Nat
    BY <1>4, <1>6
  <2>3. QED
    BY <1>7, <2>1, <2>2
<1>9. /\ sent' \in Seq([message : Messages, counts : BOOLEAN, end : Nat])
      /\ Len(sent') = N + 1 /\ DOMAIN sent' = 1..N + 1
      /\ sent'[N + 1] = e /\ \A n \in 1..N : sent'[n] = sent[n]
  <2>1. sent \in Seq([message : Messages, counts : BOOLEAN, end : Nat])
    BY DEF TypeOK
  <2>2. sent' = Append(sent, e)
    BY <1>1, <1>3, <1>7
  <2>3. /\ Append(sent, e) \in Seq([message : Messages, counts : BOOLEAN, end : Nat])
        /\ Len(Append(sent, e)) = N + 1
        /\ Append(sent, e)[N + 1] = e /\ \A n \in 1..N : Append(sent, e)[n] = sent[n]
    BY <1>8, <2>1, AppendProperties
  <2>4. QED
    BY <2>2, <2>3
<1>10. /\ wire' \in Seq(Cells) /\ Len(wire') = W + Len(frame)
       /\ DOMAIN wire' = 1..W + Len(frame)
       /\ \A k \in 1..W + Len(frame) : wire'[k] = IF k <= W THEN wire[k] ELSE frame[k - W]
  <2>1. wire \in Seq(Cells) /\ wire' = wire \o frame
    BY <1>1, <1>3 DEF TypeOK
  <2>2. /\ wire \o frame \in Seq(Cells) /\ Len(wire \o frame) = W + Len(frame)
        /\ \A k \in 1..W + Len(frame) : (wire \o frame)[k] = IF k <= W THEN wire[k] ELSE frame[k - W]
    BY <1>6, <2>1, ConcatProperties
  <2>3. QED
    BY <2>1, <2>2
<1>11. Sends(h, frame, e)
  BY <1>3, <1>5, <1>6, <1>8, <1>9, <1>10 DEF Sends
<1>12. QED
  BY <1>11

\* What it brings has its last piece at its end.
LEMMA SendKeeps == ASSUME TypeOK, ServerInv, Send PROVE TypeOK' /\ ServerInv'
<1> DEFINE N == Len(sent)
           W == Len(wire)
<1>1. UNCHANGED <<buffer, reading, task, out, linter, open, received>> /\ N < MaxMessages
  BY DEF Send
<1>2. /\ N \in Nat /\ DOMAIN sent = 1..N /\ W \in Nat /\ DOMAIN wire = 1..W
      /\ received \in Nat /\ DOMAIN buffer = 1..Len(buffer)
  BY StreamTypes
<1>3. PICK h \in Headers : \E frame, e : Sends(h, frame, e)
  BY SendIs
<1>4. PICK frame, e : Sends(h, frame, e)
  BY <1>3
<1>5. /\ frame \in Seq(Cells) /\ Len(frame) \in Nat /\ Len(frame) >= 1
      /\ \A k \in 1..Len(frame), n \in Numbers :
           frame[k] = Piece(n, BodySize) => n = N + 1 /\ k = Len(frame)
  BY <1>4 DEF Sends
<1>6. e.end = received + W + Len(frame)
  BY <1>4 DEF Sends
<1>7. /\ sent' \in Seq([message : Messages, counts : BOOLEAN, end : Nat])
      /\ Len(sent') = N + 1 /\ DOMAIN sent' = 1..N + 1
      /\ sent'[N + 1] = e /\ \A n \in 1..N : sent'[n] = sent[n]
  BY <1>4 DEF Sends
<1>8. /\ wire' \in Seq(Cells) /\ Len(wire') = W + Len(frame)
      /\ DOMAIN wire' = 1..W + Len(frame)
      /\ \A k \in 1..W + Len(frame) : wire'[k] = IF k <= W THEN wire[k] ELSE frame[k - W]
  BY <1>4 DEF Sends
<1>9. /\ \A n \in DOMAIN sent : n \in DOMAIN sent' /\ Message(n)' = Message(n)
      /\ \A n \in DOMAIN sent : sent'[n].end = sent[n].end
  BY <1>2, <1>7 DEF Message
<1>10. \A n \in Numbers : n \notin DOMAIN sent => task[n].phase = "idle"
  BY DEF ServerInv, TaskInv
<1>11. TypeOK'
  <2>1. \A n \in Numbers : TaskType(task[n], Message(n)')
    <3>1. SUFFICES ASSUME NEW n \in Numbers PROVE TaskType(task[n], Message(n)')
      OBVIOUS
    <3>2. CASE n \in DOMAIN sent
      BY <1>9, <3>2 DEF TypeOK
    <3>3. CASE n \notin DOMAIN sent
      BY <1>10, <3>3 DEF TaskType
    <3>4. QED
      BY <3>2, <3>3
  <2>2. received' + Len(wire') = IF sent' = <<>> THEN 0 ELSE sent'[Len(sent')].end
    <3>1. sent' # <<>>
      BY <1>2, <1>7, EmptySeq
    <3>2. received' + Len(wire') = e.end
      BY <1>1, <1>2, <1>5, <1>6, <1>8
    <3>3. QED
      BY <1>7, <3>1, <3>2
  <2>3. Len(sent') <= MaxMessages
    BY <1>1, <1>2, <1>7
  <2>4. QED
    BY <1>1, <1>7, <1>8, <2>1, <2>2, <2>3 DEF TypeOK
<1>12. consumed' = consumed
  BY <1>1 DEF consumed
<1>13. StreamInv'
  <2>1. \A k \in DOMAIN buffer, n \in Numbers :
          buffer[k] = Piece(n, BodySize) => n \in DOMAIN sent /\ sent[n].end = consumed + k
    BY DEF ServerInv, StreamInv, Placed
  <2>2. Placed(buffer, consumed)'
    BY <1>1, <1>9, <1>12, <2>1 DEF Placed
  <2>3. \A k \in DOMAIN wire, n \in Numbers :
          wire[k] = Piece(n, BodySize) => n \in DOMAIN sent /\ sent[n].end = received + k
    BY DEF ServerInv, StreamInv, Placed
  <2>4. ASSUME NEW k \in DOMAIN wire', NEW n \in Numbers, wire'[k] = Piece(n, BodySize)
        PROVE  n \in DOMAIN sent' /\ sent'[n].end = received' + k
    <3>1. k \in 1..W + Len(frame)
      BY <1>8
    <3>2. CASE k <= W
      <4>1. k \in DOMAIN wire /\ wire[k] = Piece(n, BodySize)
        BY <1>2, <1>8, <2>4, <3>1, <3>2
      <4>2. QED
        BY <1>1, <1>9, <2>3, <4>1
    <3>3. CASE ~(k <= W)
      <4>1. k - W \in 1..Len(frame) /\ frame[k - W] = Piece(n, BodySize)
        BY <1>2, <1>5, <1>8, <2>4, <3>1, <3>3
      <4>2. n = N + 1 /\ k - W = Len(frame)
        BY <1>5, <4>1
      <4>3. n \in DOMAIN sent' /\ sent'[n].end = received + W + Len(frame)
        BY <1>2, <1>6, <1>7, <4>2
      <4>4. k = W + Len(frame)
        BY <1>2, <1>5, <3>1, <4>2
      <4>5. QED
        BY <1>1, <1>2, <1>5, <4>3, <4>4
    <3>4. QED
      BY <3>2, <3>3
  <2>5. Placed(wire, received)'
    BY <2>4 DEF Placed
  <2>6. QED
    BY <1>12, <2>2, <2>5 DEF ServerInv, StreamInv
<1>14. TaskInv'
  <2>1. SUFFICES ASSUME NEW n \in Numbers
                 PROVE  /\ task[n].phase # "idle" => n \in DOMAIN sent' /\ sent'[n].end <= consumed
                        /\ RightTask(task[n], Message(n)')
    BY <1>1, <1>12 DEF TaskInv
  <2>2. CASE n \in DOMAIN sent
    BY <1>9, <2>2 DEF ServerInv, TaskInv
  <2>3. CASE n \notin DOMAIN sent
    BY <1>10, <2>3 DEF RightTask
  <2>4. QED
    BY <2>2, <2>3
<1>15. OutInv'
  BY <1>1 DEF ServerInv, OutInv
<1>16. QED
  BY <1>11, <1>13, <1>14, <1>15 DEF ServerInv

\* A chunk arrives: its cells go from the wire to the buffer.
LEMMA DataIs ==
  ASSUME TypeOK, Data
  PROVE  \E k \in 1..Len(wire) :
           /\ received' = received + k /\ consumed' = consumed
           /\ wire' \in Seq(Cells) /\ Len(wire') = Len(wire) - k
           /\ DOMAIN wire' = 1..Len(wire) - k
           /\ \A i \in 1..Len(wire) - k : wire'[i] = wire[k + i]
           /\ buffer' \in Seq(Cells) /\ Len(buffer') = Len(buffer) + k
           /\ DOMAIN buffer' = 1..Len(buffer) + k
           /\ \A i \in 1..Len(buffer) + k :
                buffer'[i] = IF i <= Len(buffer) THEN buffer[i] ELSE wire[i - Len(buffer)]
<1> DEFINE B == Len(buffer)
           W == Len(wire)
<1>1. PICK k \in 1..W : /\ buffer' = buffer \o SubSeq(wire, 1, k)
                        /\ wire' = SubSeq(wire, k + 1, W)
                        /\ received' = received + k
  BY DEF Data
<1>2. /\ B \in Nat /\ DOMAIN buffer = 1..B /\ W \in Nat /\ DOMAIN wire = 1..W
      /\ received \in Nat /\ wire \in Seq(Cells) /\ buffer \in Seq(Cells)
      /\ \A n \in DOMAIN sent : sent[n].end \in Nat
  BY StreamTypes DEF TypeOK
<1>3. k \in Nat /\ k >= 1 /\ k <= W /\ k \in Int /\ k + 1 \in Int /\ W \in Int
  BY <1>1, <1>2
<1>4. \A i \in 1..W : wire[i] \in Cells
  BY <1>2, ElementOfSeq
<1>5. PICK chunk : chunk = SubSeq(wire, 1, k)
  OBVIOUS
<1>6. chunk \in Seq(Cells) /\ Len(chunk) = k /\ \A i \in 1..k : chunk[i] = wire[i]
  <2>1. \A i \in 1..k : wire[i] \in Cells
    BY <1>3, <1>4
  <2>2. /\ SubSeq(wire, 1, k) \in Seq(Cells)
        /\ Len(SubSeq(wire, 1, k)) = IF 1 <= k THEN k - 1 + 1 ELSE 0
        /\ \A i \in 1..k - 1 + 1 : SubSeq(wire, 1, k)[i] = wire[1 + i - 1]
    BY <1>3, <2>1, SubSeqProperties
  <2>3. k - 1 + 1 = k /\ \A i \in 1..k : 1 + i - 1 = i
    BY <1>3
  <2>4. QED
    BY <1>3, <1>5, <2>2, <2>3
<1>7. /\ wire' \in Seq(Cells) /\ Len(wire') = W - k /\ DOMAIN wire' = 1..W - k
      /\ \A i \in 1..W - k : wire'[i] = wire[k + i]
  <2>1. \A i \in k + 1..W : wire[i] \in Cells
    BY <1>3, <1>4
  <2>2. /\ SubSeq(wire, k + 1, W) \in Seq(Cells)
        /\ Len(SubSeq(wire, k + 1, W)) = IF k + 1 <= W THEN W - (k + 1) + 1 ELSE 0
        /\ \A i \in 1..W - (k + 1) + 1 : SubSeq(wire, k + 1, W)[i] = wire[k + 1 + i - 1]
    BY <1>3, <2>1, SubSeqProperties
  <2>3. PICK w \in Nat : w = W
    BY <1>2
  <2>4. k \in Nat /\ w \in Nat /\ k <= w
    BY <1>3, <2>3
  <2>5. /\ w - (k + 1) + 1 = w - k /\ \A i \in 1..w - k : k + 1 + i - 1 = k + i
        /\ (IF k + 1 <= w THEN w - (k + 1) + 1 ELSE 0) = w - k
    BY ONLY <2>4
  <2>6. PICK rest : rest = SubSeq(wire, k + 1, W)
    OBVIOUS
  <2>7. rest \in Seq(Cells) /\ Len(rest) = w - k
    BY <2>2, <2>3, <2>5, <2>6
  <2>8. \A i \in 1..w - k : rest[i] = wire[k + i]
    BY <2>2, <2>3, <2>5, <2>6
  <2>9. DOMAIN rest = 1..w - k
    BY <2>7
  <2>10. wire' = rest
    BY <1>1, <2>6
  <2>11. QED
    BY <2>3, <2>7, <2>8, <2>9, <2>10
<1>8. /\ buffer' \in Seq(Cells) /\ Len(buffer') = B + k /\ DOMAIN buffer' = 1..B + k
      /\ \A i \in 1..B + k : buffer'[i] = IF i <= B THEN buffer[i] ELSE chunk[i - B]
  <2>1. /\ buffer \o chunk \in Seq(Cells) /\ Len(buffer \o chunk) = B + Len(chunk)
        /\ \A i \in 1..B + Len(chunk) :
             (buffer \o chunk)[i] = IF i <= B THEN buffer[i] ELSE chunk[i - B]
    BY <1>2, <1>6, ConcatProperties
  <2>2. QED
    BY <1>1, <1>5, <1>6, <2>1
<1>9. consumed' = consumed /\ consumed = received - B
  BY <1>1, <1>2, <1>3, <1>8 DEF consumed
<1>10. \A i \in 1..B + k : buffer'[i] = IF i <= B THEN buffer[i] ELSE wire[i - B]
  <2>1. \A i \in 1..B + k : ~(i <= B) => i - B \in 1..k
    BY <1>2, <1>3
  <2>2. QED
    BY <1>6, <1>8, <2>1
<1>11. QED
  BY <1>1, <1>7, <1>8, <1>9, <1>10

\* They keep their places in the stream.
LEMMA DataKeeps == ASSUME TypeOK, ServerInv, Data PROVE TypeOK' /\ ServerInv'
<1> DEFINE B == Len(buffer)
           W == Len(wire)
<1>1. PICK k \in 1..W :
        /\ received' = received + k /\ consumed' = consumed
        /\ wire' \in Seq(Cells) /\ Len(wire') = W - k /\ DOMAIN wire' = 1..W - k
        /\ \A i \in 1..W - k : wire'[i] = wire[k + i]
        /\ buffer' \in Seq(Cells) /\ Len(buffer') = B + k /\ DOMAIN buffer' = 1..B + k
        /\ \A i \in 1..B + k : buffer'[i] = IF i <= B THEN buffer[i] ELSE wire[i - B]
  BY DataIs
<1>2. UNCHANGED <<task, out, linter, open, sent>> /\ reading' = TRUE
  BY DEF Data
<1>3. /\ B \in Nat /\ DOMAIN buffer = 1..B /\ W \in Nat /\ DOMAIN wire = 1..W
      /\ received \in Nat /\ wire \in Seq(Cells) /\ buffer \in Seq(Cells)
      /\ \A n \in DOMAIN sent : sent[n].end \in Nat
  BY StreamTypes DEF TypeOK
<1>4. k \in Nat /\ k >= 1 /\ k <= W /\ k \in Int /\ k + 1 \in Int /\ W \in Int
  BY <1>1, <1>3
<1>5. /\ wire' \in Seq(Cells) /\ Len(wire') = W - k /\ DOMAIN wire' = 1..W - k
      /\ \A i \in 1..W - k : wire'[i] = wire[k + i]
  BY <1>1
<1>6. /\ buffer' \in Seq(Cells) /\ Len(buffer') = B + k /\ DOMAIN buffer' = 1..B + k
      /\ \A i \in 1..B + k : buffer'[i] = IF i <= B THEN buffer[i] ELSE wire[i - B]
  BY <1>1
<1>7. consumed' = consumed /\ consumed = received - B
  BY <1>1 DEF consumed
<1>8. \A n : Message(n)' = Message(n)
  BY <1>2 DEF Message
<1>9. TypeOK'
  <2>1. received' \in Nat /\ received' + Len(wire') = received + W
    <3>1. PICK w \in Nat : w = W
      BY <1>3
    <3>2. received' = received + k /\ Len(wire') = w - k
      BY <1>1, <1>5, <3>1
    <3>3. received + k \in Nat /\ (received + k) + (w - k) = received + w
      BY <1>3, <1>4
    <3>4. QED
      BY <3>1, <3>2, <3>3
  <2>2. QED
    BY <1>2, <1>5, <1>6, <1>8, <2>1 DEF TypeOK
<1>10. \A i \in 1..B, n \in Numbers :
         buffer[i] = Piece(n, BodySize) => n \in DOMAIN sent /\ sent[n].end = consumed + i
  BY <1>3 DEF ServerInv, StreamInv, Placed
<1>11. \A i \in 1..W, n \in Numbers :
         wire[i] = Piece(n, BodySize) => n \in DOMAIN sent /\ sent[n].end = received + i
  BY <1>3 DEF ServerInv, StreamInv, Placed
<1>12. ASSUME NEW i \in 1..B + k, NEW n \in Numbers, buffer'[i] = Piece(n, BodySize)
       PROVE  n \in DOMAIN sent /\ sent[n].end = consumed + i
  <2>1. CASE i <= B
    <3>1. i \in 1..B /\ buffer[i] = Piece(n, BodySize)
      BY <1>3, <1>6, <1>12, <2>1
    <3>2. QED
      BY <1>10, <3>1
  <2>2. CASE ~(i <= B)
    <3>1. i - B \in 1..k /\ i - B \in 1..W
      BY <1>3, <1>4, <1>12, <2>2
    <3>2. wire[i - B] = Piece(n, BodySize)
      BY <1>6, <1>12, <2>2, <3>1
    <3>3. n \in DOMAIN sent /\ sent[n].end = received + (i - B)
      BY <1>11, <3>1, <3>2
    <3>4. received + (i - B) = consumed + i
      BY <1>3, <1>4, <1>7
    <3>5. QED
      BY <3>3, <3>4
  <2>3. QED
    BY <2>1, <2>2
<1>13. ASSUME NEW i \in 1..W - k, NEW n \in Numbers, wire'[i] = Piece(n, BodySize)
       PROVE  n \in DOMAIN sent /\ sent[n].end = (received + k) + i
  <2>1. k + i \in 1..W /\ received + (k + i) = (received + k) + i
    BY <1>3, <1>4
  <2>2. wire[k + i] = Piece(n, BodySize)
    BY <1>5, <1>13
  <2>3. QED
    BY <1>11, <2>1, <2>2
<1>14. StreamInv'
  <2>1. Placed(buffer, consumed)'
    BY <1>2, <1>6, <1>7, <1>12 DEF Placed
  <2>2. Placed(wire, received)'
    BY <1>1, <1>2, <1>5, <1>13 DEF Placed
  <2>3. QED
    BY <1>7, <2>1, <2>2 DEF ServerInv, StreamInv
<1>15. TaskInv' /\ OutInv'
  BY <1>2, <1>7, <1>8 DEF ServerInv, TaskInv, OutInv
<1>16. QED
  BY <1>9, <1>14, <1>15 DEF ServerInv

\* The next body leaves the buffer; the cells behind it stay.
LEMMA TakenIs ==
  ASSUME TypeOK, HasMessage(buffer), buffer' = Rest(buffer), received' = received
  PROVE  \E stop \in 1..Len(buffer) :
           /\ stop = HeaderEnd(buffer) + ContentLength(buffer)
           /\ buffer' \in Seq(Cells) /\ Len(buffer') = Len(buffer) - stop
           /\ DOMAIN buffer' = 1..Len(buffer) - stop
           /\ \A k \in 1..Len(buffer) - stop : buffer'[k] = buffer[stop + k]
           /\ \A n : NextBody(buffer) = Body(n) => buffer[stop] = Piece(n, BodySize)
           /\ consumed \in Int /\ consumed' = consumed + stop /\ consumed <= consumed'
<1> DEFINE B == Len(buffer)
<1>1. B \in Nat /\ DOMAIN buffer = 1..B /\ received \in Nat /\ buffer \in Seq(Cells)
  BY StreamTypes DEF TypeOK
<1>2. PICK stop \in 1..B :
        /\ stop = HeaderEnd(buffer) + ContentLength(buffer)
        /\ Rest(buffer) \in Seq(Cells) /\ Len(Rest(buffer)) = B - stop
        /\ \A k \in 1..B - stop : Rest(buffer)[k] = buffer[stop + k]
        /\ \A n : NextBody(buffer) = Body(n) => buffer[stop] = Piece(n, BodySize)
  BY <1>1, RestIs
<1>3. stop \in Nat /\ stop >= 1 /\ stop <= B
  BY <1>1, <1>2
<1>4. /\ buffer' \in Seq(Cells) /\ Len(buffer') = B - stop /\ DOMAIN buffer' = 1..B - stop
      /\ \A k \in 1..B - stop : buffer'[k] = buffer[stop + k]
  <2>1. buffer' \in Seq(Cells) /\ Len(buffer') = B - stop
    BY <1>2
  <2>2. QED
    BY <1>2, <2>1
<1>5. consumed \in Int /\ consumed' = consumed + stop /\ consumed <= consumed'
  <2>1. PICK b \in Nat : b = B
    BY <1>1
  <2>2. consumed = received - b /\ consumed' = received - (b - stop)
    BY <1>4, <2>1 DEF consumed
  <2>3. received - (b - stop) = (received - b) + stop
    BY <1>1, <1>3
  <2>4. QED
    BY <1>1, <1>3, <2>2, <2>3
<1>6. QED
  BY <1>2, <1>4, <1>5

\* They keep their places, too; a message is taken whole only at its end, and
\* therefore once.
LEMMA TakenOnce ==
  ASSUME TypeOK, ServerInv, HasMessage(buffer), buffer' = Rest(buffer),
         UNCHANGED <<wire, sent, received>>
  PROVE  /\ buffer' \in Seq(Cells) /\ StreamInv' /\ consumed <= consumed'
         /\ \A n \in Parsed(NextBody(buffer)) :
              n \in DOMAIN sent /\ sent[n].end <= consumed' /\ task[n].phase = "idle"
<1> DEFINE B == Len(buffer)
<1>1. /\ B \in Nat /\ DOMAIN buffer = 1..B /\ received \in Nat
      /\ \A n \in DOMAIN sent : n \in Numbers /\ sent[n].end \in Nat
      /\ buffer \in Seq(Cells)
  BY StreamTypes DEF TypeOK
<1>2. PICK stop \in 1..B :
        /\ buffer' \in Seq(Cells) /\ Len(buffer') = B - stop /\ DOMAIN buffer' = 1..B - stop
        /\ \A k \in 1..B - stop : buffer'[k] = buffer[stop + k]
        /\ \A n : NextBody(buffer) = Body(n) => buffer[stop] = Piece(n, BodySize)
        /\ consumed \in Int /\ consumed' = consumed + stop /\ consumed <= consumed'
  BY TakenIs
<1>3. stop \in Nat /\ stop >= 1 /\ stop <= B
  BY <1>1, <1>2
<1>4. /\ buffer' \in Seq(Cells) /\ Len(buffer') = B - stop /\ DOMAIN buffer' = 1..B - stop
      /\ \A k \in 1..B - stop : buffer'[k] = buffer[stop + k]
  BY <1>2
<1>5. consumed \in Int /\ consumed' = consumed + stop /\ consumed <= consumed'
  BY <1>2
<1>6. \A i \in 1..B, n \in Numbers :
        buffer[i] = Piece(n, BodySize) => n \in DOMAIN sent /\ sent[n].end = consumed + i
  BY <1>1 DEF ServerInv, StreamInv, Placed
<1>7. StreamInv'
  <2>1. ASSUME NEW i \in 1..B - stop, NEW n \in Numbers, buffer'[i] = Piece(n, BodySize)
        PROVE  n \in DOMAIN sent /\ sent[n].end = (consumed + stop) + i
    <3>1. stop + i \in 1..B /\ consumed + (stop + i) = (consumed + stop) + i
      BY <1>1, <1>3, <1>5
    <3>2. buffer[stop + i] = Piece(n, BodySize)
      BY <1>4, <2>1
    <3>3. QED
      BY <1>6, <3>1, <3>2
  <2>2. Placed(buffer, consumed)'
    BY <1>4, <1>5, <2>1 DEF Placed
  <2>3. Placed(wire, received)'
    BY DEF ServerInv, StreamInv, Placed
  <2>4. consumed' >= 0
    BY <1>3, <1>5 DEF ServerInv, StreamInv
  <2>5. QED
    BY <2>2, <2>3, <2>4 DEF StreamInv
<1>8. ASSUME NEW n \in Parsed(NextBody(buffer))
      PROVE  n \in DOMAIN sent /\ sent[n].end <= consumed' /\ task[n].phase = "idle"
  <2>1. n \in DOMAIN sent /\ NextBody(buffer) = Body(n)
    BY DEF Parsed
  <2>2. n \in Numbers /\ buffer[stop] = Piece(n, BodySize)
    BY <1>1, <1>2, <2>1
  <2>3. sent[n].end = consumed + stop
    BY <1>6, <2>2
  <2>4. sent[n].end <= consumed' /\ ~(sent[n].end <= consumed)
    BY <1>3, <1>5, <2>3
  <2>5. task[n].phase = "idle"
    BY <2>2, <2>4 DEF ServerInv, TaskInv
  <2>6. QED
    BY <2>1, <2>4, <2>5
<1>9. QED
  BY <1>4, <1>5, <1>7, <1>8

\* dispatchMessage begins a handler, or answers at once.
LEMMA DispatchKeeps == ASSUME TypeOK, ServerInv, Dispatch PROVE TypeOK' /\ ServerInv'
<1>1. /\ HasMessage(buffer) /\ buffer' = Rest(buffer)
      /\ UNCHANGED <<wire, reading, linter, open, sent, received>>
  BY DEF Dispatch
<1>2. /\ buffer' \in Seq(Cells) /\ StreamInv' /\ consumed <= consumed'
      /\ \A n \in Parsed(NextBody(buffer)) :
           n \in DOMAIN sent /\ sent[n].end <= consumed' /\ task[n].phase = "idle"
  BY <1>1, TakenOnce
<1>3. \A k : Message(k)' = Message(k)
  BY <1>1 DEF Message
<1>4. CASE task' = task /\ out' = Append(out, Response(0, Error(None, -32700)))
  <2>1. IsSequence(out)
    BY DEF TypeOK
  <2>2. PICK e : e = Response(0, Error(None, -32700))
    OBVIOUS
  <2>3. out' = Append(out, e) /\ e.to = 0
    BY <1>4, <2>2 DEF Response
  <2>4. /\ IsSequence(out')
        /\ Len(out) \in Nat /\ DOMAIN out = 1..Len(out) /\ DOMAIN out' = 1..Len(out) + 1
        /\ out'[Len(out) + 1] = e
        /\ \A k \in 1..Len(out) : out'[k] = out[k]
    BY <2>1, <2>3, AppendIs
  <2>5. \A k \in 1..Len(out) + 1 : k = Len(out) + 1 \/ k \in 1..Len(out)
    BY <2>4
  <2>6. OutInv'
    BY <1>4, <2>3, <2>4, <2>5 DEF ServerInv, OutInv
  <2>7. TypeOK'
    BY <1>1, <1>2, <1>3, <1>4, <2>4 DEF TypeOK
  <2>8. TaskInv'
    <3>1. consumed \in Int /\ \A k \in DOMAIN sent : sent[k].end \in Int
      BY StreamTypes DEF consumed
    <3>2. consumed' \in Int
      <4>1. Len(buffer') \in Nat /\ received' \in Nat
        BY <1>1, <1>2, StreamTypes
      <4>2. QED
        BY <4>1 DEF consumed
    <3>3. \A k \in DOMAIN sent : sent[k].end <= consumed => sent[k].end <= consumed'
      BY <1>2, <3>1, <3>2
    <3>4. QED
      BY <1>1, <1>3, <1>4, <3>3 DEF ServerInv, TaskInv
  <2>9. QED
    BY <1>2, <2>6, <2>7, <2>8 DEF ServerInv
<1>5. ASSUME NEW n \in Parsed(NextBody(buffer)), NEW t, task' = [task EXCEPT ![n] = t],
             \/ Message(n).form = "request" /\ t = HandleRequest(Message(n)) /\ out' = out
             \/ t = Done /\ \E r : out' = Append(out, Response(n, r))
      PROVE  TypeOK' /\ ServerInv'
  <2>1. n \in DOMAIN sent /\ sent[n].end <= consumed' /\ task[n].phase # "done"
    BY <1>2
  <2>2. /\ t.phase # "idle" /\ TaskType(t, Message(n)) /\ RightTask(t, Message(n))
        /\ t = Done => t.phase = "done"
    <3>1. CASE Message(n).form = "request" /\ t = HandleRequest(Message(n)) /\ out' = out
      <4>1. PICK m \in Messages : m = Message(n)
        BY <2>1, StreamTypes
      <4>2. TaskType(t, m) /\ RightTask(t, m) /\ t.phase \in {"lint", "hash", "answer"}
        BY <3>1, <4>1, HandleRequestRight
      <4>3. QED
        BY <4>1, <4>2 DEF Done
    <3>2. CASE t = Done
      BY <3>2 DEF Done, TaskType, RightTask
    <3>3. QED
      BY <1>5, <3>1, <3>2
  <2>3. QED
    BY <1>1, <1>2, <1>5, <2>1, <2>2, HandlerKeeps
<1>6. CASE \E n \in Parsed(NextBody(buffer)) :
             CASE Message(n).form = "request" ->
                    /\ task' = [task EXCEPT ![n] = HandleRequest(Message(n))]
                    /\ UNCHANGED out
               [] OTHER ->
                    /\ task' = [task EXCEPT ![n] = Done]
                    /\ out' = Append(out, Response(n, Error(None, InvalidCode(Message(n)))))
  <2>1. PICK n \in Parsed(NextBody(buffer)) :
          \/ /\ Message(n).form = "request"
             /\ task' = [task EXCEPT ![n] = HandleRequest(Message(n))] /\ out' = out
          \/ /\ task' = [task EXCEPT ![n] = Done]
             /\ out' = Append(out, Response(n, Error(None, InvalidCode(Message(n)))))
    BY <1>6
  <2>2. QED
    BY <1>5, <2>1
<1>7. QED
  BY <1>4, <1>6 DEF Dispatch

\* What no step of a handler touches, and which one alone may write.
LEMMA HandleTouches ==
  ASSUME NEW n \in Numbers, Handle(n)
  PROVE  /\ open /\ task[n].phase # "idle"
         /\ UNCHANGED <<wire, buffer, reading, open, sent, received>>
         /\ out' = out \/ Answer(n)
<1>1. CASE Configure(n)
  BY <1>1 DEF Configure
<1>2. CASE LintEnds(n) \/ LintThrows(n)
  <2>1. LintEnds(n) => /\ open /\ task[n].phase = "lint" /\ out' = out
                       /\ UNCHANGED <<wire, buffer, reading, open, sent, received>>
    BY DEF LintEnds
  <2>2. LintThrows(n) => /\ open /\ task[n].phase = "lint" /\ out' = out
                         /\ UNCHANGED <<wire, buffer, reading, open, sent, received>>
    BY DEF LintThrows
  <2>3. QED
    BY <1>2, <2>1, <2>2
<1>3. CASE HashKnown(n) \/ HashThrows(n)
  BY <1>3 DEF HashKnown, HashThrows
<1>4. CASE Answer(n)
  BY <1>4 DEF Answer
<1>5. QED
  BY <1>1, <1>2, <1>3, <1>4 DEF Handle

\* Every step of a handler.
LEMMA HandleKeeps ==
  ASSUME TypeOK, ServerInv, NEW n \in Numbers, Handle(n)
  PROVE  TypeOK' /\ ServerInv'
<1>1. task[n].phase # "idle" => n \in DOMAIN sent /\ Message(n) \in Messages
  BY StreamTypes DEF ServerInv, TaskInv
<1>2. TaskType(task[n], Message(n)) /\ RightTask(task[n], Message(n))
  BY DEF TypeOK, ServerInv, TaskInv
<1>3. \A response : Settled(response).phase = "answer"
  BY DEF Settled
<1>4. CASE LintEnds(n)
  <2>1. /\ task[n].phase = "lint" /\ out' = out
        /\ UNCHANGED <<wire, buffer, reading, linter, open, sent, received>>
        /\ task' = [task EXCEPT ![n] = AfterLint(task[n], Message(n))]
    BY <1>4 DEF LintEnds, AfterLint
  <2>2. PICK m \in Messages : m = Message(n)
    BY <1>1, <2>1
  <2>3. PICK t : t = task[n]
    OBVIOUS
  <2>4. PICK u : u = AfterLint(t, m)
    OBVIOUS
  <2>5. TaskType(u, m) /\ RightTask(u, m) /\ u.phase \in {"lint", "hash"}
    BY <1>2, <2>1, <2>2, <2>3, <2>4, AfterLintRight
  <2>6. QED
    BY <2>1, <2>2, <2>3, <2>4, <2>5, TaskKeeps
<1>5. CASE LintThrows(n) \/ HashThrows(n)
  <2>1. /\ task[n].phase \in {"lint", "hash"} /\ out' = out
        /\ UNCHANGED <<wire, buffer, reading, linter, open, sent, received>>
        /\ task' = [task EXCEPT ![n] = Settled(Error(Message(n).id, -32603))]
    BY <1>5 DEF LintThrows, HashThrows
  <2>2. PICK u : u = Settled(Error(Message(n).id, -32603))
    OBVIOUS
  <2>3. TaskType(u, Message(n)) /\ RightTask(u, Message(n))
    BY <1>2, <2>1, <2>2, ThrownRight DEF RightTask
  <2>4. u.phase = "answer"
    BY <1>3, <2>2
  <2>5. task' = [task EXCEPT ![n] = u]
    BY <2>1, <2>2
  <2>6. task[n].phase \notin {"idle", "done"} /\ u.phase # "idle" /\ out' = out
    BY <2>1, <2>4
  <2>7. UNCHANGED <<wire, buffer, reading, linter, open, sent, received>>
    BY <2>1
  <2>8. QED
    BY <2>3, <2>5, <2>6, <2>7, TaskKeeps
<1>6. CASE HashKnown(n)
  <2>1. PICK hash : /\ task[n].phase = "hash" /\ out' = out
                    /\ UNCHANGED <<wire, buffer, reading, linter, open, sent, received>>
                    /\ task' = [task EXCEPT ![n] =
                                  Settled(Success(Message(n).id, Result(task[n], hash)))]
    BY <1>6 DEF HashKnown
  <2>2. PICK m \in Messages : m = Message(n)
    BY <1>1, <2>1
  <2>3. PICK t : t = task[n]
    OBVIOUS
  <2>4. PICK u : u = Settled(Success(m.id, Result(t, hash)))
    OBVIOUS
  <2>5. TaskType(u, m) /\ RightTask(u, m)
    BY <1>2, <2>1, <2>2, <2>3, <2>4, HashRight
  <2>6. QED
    BY <1>3, <2>1, <2>2, <2>3, <2>4, <2>5, TaskKeeps
<1>7. CASE Answer(n)
  <2>1. /\ task[n].phase = "answer"
        /\ UNCHANGED <<wire, buffer, reading, linter, open, sent, received>>
        /\ task' = [task EXCEPT ![n] = Done]
        /\ out' = out \/ out' = Append(out, Response(n, task[n].response))
    BY <1>7 DEF Answer
  <2>2. PICK u : u = Done
    OBVIOUS
  <2>3. u.phase = "done" /\ TaskType(u, Message(n)) /\ RightTask(u, Message(n))
    BY <2>2 DEF Done, TaskType, RightTask
  <2>4. QED
    BY <2>1, <2>2, <2>3, TaskKeeps
<1>8. CASE Configure(n)
  <2>1. PICK t : t = task[n]
    OBVIOUS
  <2>2. PICK u : u = Linting(t.code, t.used, TRUE)
    OBVIOUS
  <2>3. /\ t.phase = "lint" /\ out' = out /\ linter' = "tracked"
        /\ UNCHANGED <<wire, buffer, reading, open, sent, received>>
        /\ task' = [task EXCEPT ![n] = u]
    BY <1>8, <2>1, <2>2 DEF Configure
  <2>4. u.phase = "lint" /\ u.code = t.code /\ u.used = t.used /\ u.ready
    BY <2>2 DEF Linting
  <2>5. TaskType(u, Message(n)) /\ RightTask(u, Message(n))
    BY <1>2, <2>1, <2>3, <2>4 DEF TaskType, RightTask, RightPass
  <2>6. QED
    BY <2>1, <2>3, <2>4, <2>5, TaskKeeps
<1>9. QED
  BY <1>4, <1>5, <1>6, <1>7, <1>8 DEF Handle

\* Every action keeps the types and the invariant.
LEMMA ServerStep == TypeOK /\ ServerInv /\ [Next]_vars => TypeOK' /\ ServerInv'
<1> SUFFICES ASSUME TypeOK, ServerInv, [Next]_vars
             PROVE  TypeOK' /\ ServerInv'
  OBVIOUS
<1>1. CASE StopReading \/ LoadTokens \/ LoadFails \/ End
  <2>1. /\ UNCHANGED <<wire, buffer, task, out, sent, received>>
        /\ reading' \in {reading, FALSE}
        /\ linter' \in {linter, "loaded", "failed"}
        /\ open' \in {open, FALSE, Waiting # {}}
    BY <1>1 DEF StopReading, LoadTokens, LoadFails, End
  <2>2. /\ reading' \in BOOLEAN /\ open' \in BOOLEAN
        /\ linter' \in {"loading", "loaded", "tracked", "failed"}
    BY <2>1 DEF TypeOK
  <2>3. QED
    BY <2>1, <2>2, ControlKeeps
<1>2. CASE UNCHANGED vars
  BY <1>2, ControlKeeps DEF vars, TypeOK
<1>3. QED
  BY <1>1, <1>2, SendKeeps, DataKeeps, DispatchKeeps, HandleKeeps DEF Next

\* So do the initial states.
LEMMA ServerInit == Init => TypeOK /\ ServerInv
<1> SUFFICES ASSUME Init PROVE TypeOK /\ ServerInv
  OBVIOUS
<1>1. /\ wire = <<>> /\ buffer = <<>> /\ sent = <<>> /\ out = <<>> /\ received = 0
      /\ Len(wire) = 0 /\ Len(buffer) = 0 /\ Len(sent) = 0
      /\ DOMAIN wire = {} /\ DOMAIN buffer = {} /\ DOMAIN sent = {} /\ DOMAIN out = {}
  BY DEF Init
<1>2. /\ task = [n \in Numbers |-> task[n]]
      /\ \A n \in Numbers : task[n].phase = "idle"
  BY DEF Init, Idle
<1>3. IsSequence(out)
  BY <1>1, EmptySeq DEF IsSequence
<1>4. \A n \in Numbers : TaskType(task[n], Message(n)) /\ RightTask(task[n], Message(n))
  BY <1>2 DEF TaskType, RightTask
<1>5. TypeOK
  <2>1. /\ wire \in Seq(Cells) /\ buffer \in Seq(Cells)
        /\ sent \in Seq([message : Messages, counts : BOOLEAN, end : Nat])
    BY <1>1, EmptySeq
  <2>2. reading \in BOOLEAN /\ open \in BOOLEAN /\ linter \in {"loading", "loaded", "tracked", "failed"}
    BY DEF Init
  <2>3. /\ Len(sent) <= MaxMessages
        /\ received + Len(wire) = IF sent = <<>> THEN 0 ELSE sent[Len(sent)].end
    BY <1>1, BoundAssumption
  <2>4. received \in Nat
    BY <1>1
  <2>5. QED
    BY <1>2, <1>3, <1>4, <2>1, <2>2, <2>3, <2>4 DEF TypeOK
<1>6. ServerInv
  BY <1>1, <1>2, <1>4 DEF ServerInv, StreamInv, Placed, consumed, TaskInv, OutInv
<1>7. QED
  BY <1>5, <1>6

\* The inductive invariant: each body ends at its own place in the stream, a
\* handler has begun only behind it, and what it has so far is right.
THEOREM ServerTheorem == Spec => [](TypeOK /\ ServerInv)
<1>1. Init => TypeOK /\ ServerInv
  BY ServerInit
<1>2. TypeOK /\ ServerInv /\ [Next]_vars => TypeOK' /\ ServerInv'
  BY ServerStep
<1>3. QED
  BY <1>1, <1>2, PTL DEF Spec

\* The server's variables keep their types, and no snippet is linted more
\* often than its budget says.
THEOREM TypeTheorem == Spec => []TypeOK
<1>1. TypeOK /\ ServerInv => TypeOK
  OBVIOUS
<1>2. QED
  BY <1>1, ServerTheorem, PTL

----------------------------------------------------------------------------
(* The server is what the promise says, step by step.                      *)

\* An answer that is appended belongs to the message that it names.
LEMMA AppendedAnswer ==
  ASSUME TypeOK, NEW e, out' = Append(out, e)
  PROVE  \A n : /\ e.to # n => AnswersTo(n)' = AnswersTo(n)
                /\ e.to = n => AnswersTo(n)' # {}
                /\ e.to = n /\ AnswersTo(n) = {} =>
                     AnswersTo(n)' = {<<Len(out) + 1, e.response>>}
<1>1. /\ Len(out) \in Nat /\ DOMAIN out = 1..Len(out) /\ DOMAIN out' = 1..Len(out) + 1
      /\ out'[Len(out) + 1] = e
      /\ \A k \in 1..Len(out) : out'[k] = out[k]
  <2>1. IsSequence(out)
    BY DEF TypeOK
  <2>2. QED
    BY <2>1, AppendIs
<1>2. PICK N : N = Len(out)
  OBVIOUS
<1>3. /\ N \in Nat /\ DOMAIN out = 1..N /\ DOMAIN out' = 1..N + 1 /\ N + 1 \notin 1..N
      /\ out'[N + 1] = e /\ 1..N + 1 = (1..N) \cup {N + 1}
      /\ \A k \in 1..N : out'[k] = out[k]
  BY <1>1, <1>2
<1>4. ASSUME NEW n
      PROVE  /\ e.to # n => AnswersTo(n)' = AnswersTo(n)
             /\ e.to = n => AnswersTo(n)' # {}
             /\ e.to = n /\ AnswersTo(n) = {} => AnswersTo(n)' = {<<N + 1, e.response>>}
  <2> DEFINE To == {j \in DOMAIN out : out[j].to = n}
             ToNext == {j \in DOMAIN out' : out'[j].to = n}
  <2>1. AnswersTo(n) = {<<k, out[k].response>> : k \in To}
    BY DEF AnswersTo
  <2>2. AnswersTo(n)' = {<<k, out'[k].response>> : k \in ToNext}
    BY DEF AnswersTo
  <2>3. ASSUME e.to # n PROVE AnswersTo(n)' = AnswersTo(n)
    <3>1. ToNext = To /\ \A k \in To : out'[k] = out[k]
      BY <1>3, <2>3
    <3>2. QED
      BY <2>1, <2>2, <3>1
  <2>4. ASSUME e.to = n, AnswersTo(n) = {} PROVE AnswersTo(n)' = {<<N + 1, e.response>>}
    <3>1. To = {}
      BY <2>1, <2>4
    <3>2. ToNext = {N + 1}
      BY <1>3, <2>4, <3>1
    <3>3. QED
      BY <1>3, <2>2, <3>2
  <2>5. ASSUME e.to = n PROVE AnswersTo(n)' # {}
    <3>1. N + 1 \in ToNext
      BY <1>3, <2>5
    <3>2. <<N + 1, out'[N + 1].response>> \in AnswersTo(n)'
      BY <2>2, <3>1
    <3>3. QED
      BY <3>2
  <2>6. QED
    BY <2>3, <2>4, <2>5
<1>5. QED
  BY <1>2, <1>4

\* What a step that sends and receives nothing leaves of the promises.
LEMMA SamePromises ==
  ASSUME UNCHANGED <<sent, received>>
  PROVE  /\ askedBar' = askedBar
         /\ \A n \in Numbers : Promised(n)' = Promised(n) /\ Message(n)' = Message(n)
BY DEF askedBar, Promised, Counted, Message

\* Nothing is answered, and the process goes on: a stutter.
LEMMA NothingSaid ==
  ASSUME UNCHANGED <<sent, received, open>>,
         \A n \in Numbers : AnswersTo(n)' = AnswersTo(n)
  PROVE  UNCHANGED Promise!vars
<1>1. answersBar' = answersBar
  BY SamePromises DEF answersBar
<1>2. QED
  BY <1>1, SamePromises DEF Promise!vars

\* Nothing is answered, and the process ends or goes on.
LEMMA Closes ==
  ASSUME UNCHANGED <<sent, received, out>>, open, open' \in BOOLEAN
  PROVE  [Promise!Next]_(Promise!vars)
<1>1. \A n \in Numbers : AnswersTo(n)' = AnswersTo(n)
  BY DEF AnswersTo
<1>2. answersBar' = answersBar
  BY <1>1, SamePromises DEF answersBar
<1>3. CASE open'
  BY <1>2, <1>3, SamePromises DEF Promise!vars
<1>4. CASE ~open'
  BY <1>2, <1>4, SamePromises DEF Promise!Next, Promise!Close
<1>5. QED
  BY <1>3, <1>4

\* A handler that is not done has not answered.
LEMMA NotAnswered ==
  ASSUME OutInv, NEW n \in Numbers, task[n].phase # "done"
  PROVE  AnswersTo(n) = {}
BY DEF OutInv, AnswersTo

\* A message that is answered rightly, by a handler that is not done.
LEMMA Replies ==
  ASSUME TypeOK, ServerInv, UNCHANGED <<sent, received, open>>, open, NEW n \in Numbers,
         NEW r, out' = Append(out, Response(n, r)), task[n].phase # "done",
         ~IsNotification(Message(n)), RightResponse(Message(n), r)
  PROVE  [Promise!Next]_(Promise!vars)
<1>1. PICK e : e = Response(n, r)
  OBVIOUS
<1>2. e.to = n /\ e.response = r /\ out' = Append(out, e)
  BY <1>1 DEF Response
<1>3. AnswersTo(n) = {}
  BY NotAnswered DEF ServerInv
<1>4. PICK a : a = <<Len(out) + 1, r>>
  OBVIOUS
<1>5. /\ AnswersTo(n)' = {a}
      /\ \A k \in Numbers \ {n} : AnswersTo(k)' = AnswersTo(k)
  BY <1>2, <1>3, <1>4, AppendedAnswer
<1>6. CASE Promised(n)
  <2>1. answersBar[n] = {} /\ answersBar'[n] = {a}
    BY <1>3, <1>5, <1>6, SamePromises DEF answersBar
  <2>2. \A k \in Numbers \ {n} : answersBar'[k] = answersBar[k]
    BY <1>5, SamePromises DEF answersBar
  <2>3. askedBar[n] = {Message(n)}
    BY <1>6 DEF askedBar
  <2>4. RightAnswer(Message(n), a)
    BY <1>4 DEF RightAnswer
  <2>5. Promise!Reply(n)
    BY <2>1, <2>2, <2>3, <2>4, SamePromises DEF Promise!Reply
  <2>6. QED
    BY <2>5 DEF Promise!Next
<1>7. CASE ~Promised(n)
  <2>1. answersBar' = answersBar
    BY <1>5, <1>7, SamePromises DEF answersBar
  <2>2. QED
    BY <2>1, SamePromises DEF Promise!vars
<1>8. QED
  BY <1>6, <1>7

\* A new message has not arrived.
LEMMA SendPromises == ASSUME TypeOK, ServerInv, Send PROVE UNCHANGED Promise!vars
<1> DEFINE N == Len(sent)
<1>1. PICK m \in Messages, h \in Headers :
        sent' = Append(sent, [message |-> m, counts |-> Counts(h),
                              end |-> received + Len(wire) + Len(Frame(N + 1, h))])
  BY DEF Send
<1>2. UNCHANGED <<out, open, received>> /\ N < MaxMessages
  BY DEF Send
<1>3. N \in Nat /\ DOMAIN sent = 1..N /\ Len(wire) \in Nat /\ received \in Nat
  BY StreamTypes
<1>4. PICK e : e = [message |-> m, counts |-> Counts(h),
                    end |-> received + Len(wire) + Len(Frame(N + 1, h))]
  OBVIOUS
<1>5. e.end > received
  <2>1. N + 1 \in Numbers
    BY <1>2, <1>3
  <2>2. Len(Frame(N + 1, h)) \in Nat /\ Len(Frame(N + 1, h)) >= 1
    BY <2>1, FrameIs
  <2>3. QED
    BY <1>3, <1>4, <2>2
<1>6. /\ DOMAIN sent' = 1..N + 1 /\ sent'[N + 1] = e
      /\ \A n \in 1..N : sent'[n] = sent[n]
  <2>1. sent \in Seq([message : Messages, counts : BOOLEAN, end : Nat]) /\ sent' = Append(sent, e)
    BY <1>1, <1>4 DEF TypeOK
  <2>2. QED
    BY <2>1
<1>7. ASSUME NEW n \in Numbers
      PROVE  Promised(n)' = Promised(n) /\ (Promised(n) => Message(n)' = Message(n))
  <2>1. CASE n \in 1..N
    <3>1. \A k \in 1..n : k \in 1..N
      BY <1>3, <2>1
    <3>2. \A k \in 1..n : sent'[k] = sent[k]
      BY <1>6, <3>1
    <3>3. n \in DOMAIN sent /\ n \in DOMAIN sent' /\ sent'[n] = sent[n]
      BY <1>3, <1>6, <2>1
    <3>4. QED
      BY <1>2, <3>2, <3>3 DEF Promised, Counted, Message
  <2>2. CASE n \notin 1..N
    <3>1. ~Promised(n)
      BY <1>3, <2>2 DEF Promised, Counted
    <3>2. CASE n = N + 1
      <4>1. ~(sent'[n].end <= received')
        <5>1. e.end \in Int
          BY <1>3, <1>4, <1>5, <1>2, FrameIs
        <5>2. QED
          BY <1>2, <1>3, <1>5, <1>6, <3>2, <5>1
      <4>2. QED
        BY <3>1, <4>1 DEF Promised, Counted
    <3>3. CASE n # N + 1
      <4>1. n \notin DOMAIN sent'
        BY <1>3, <1>6, <2>2, <3>3
      <4>2. QED
        BY <3>1, <4>1 DEF Promised, Counted
    <3>4. QED
      BY <3>2, <3>3
  <2>3. QED
    BY <2>1, <2>2
<1>8. askedBar' = askedBar
  BY <1>7 DEF askedBar
<1>9. \A n \in Numbers : AnswersTo(n)' = AnswersTo(n)
  BY <1>2 DEF AnswersTo
<1>10. answersBar' = answersBar
  BY <1>7, <1>9 DEF answersBar
<1>11. QED
  BY <1>2, <1>8, <1>10 DEF Promise!vars

\* What arrives was not answered before.
LEMMA DataPromises == ASSUME TypeOK, ServerInv, Data PROVE [Promise!Next]_(Promise!vars)
<1>1. PICK k \in 1..Len(wire) : received' = received + k
  BY DEF Data
<1>2. open /\ UNCHANGED <<task, out, open, sent>>
  BY DEF Data
<1>3. /\ received \in Nat /\ Len(buffer) \in Nat /\ Len(wire) \in Nat
      /\ \A n \in DOMAIN sent : sent[n].end \in Nat
  BY StreamTypes
<1>4. received' \in Nat /\ received <= received' /\ consumed \in Int /\ consumed <= received
  BY <1>1, <1>3 DEF consumed
<1>5. \A n \in Numbers : Message(n)' = Message(n) /\ AnswersTo(n)' = AnswersTo(n)
  BY <1>2 DEF Message, AnswersTo
<1>6. ASSUME NEW n \in Numbers, Promised(n) PROVE Promised(n)'
  <2>1. n \in DOMAIN sent /\ sent[n].end <= received /\ \A i \in 1..n : sent[i].counts
    BY <1>6 DEF Promised, Counted
  <2>2. sent[n].end <= received'
    BY <1>3, <1>4, <2>1
  <2>3. QED
    BY <1>2, <2>1, <2>2 DEF Promised, Counted
<1>7. ASSUME NEW n \in Numbers, Promised(n)', ~Promised(n) PROVE AnswersTo(n) = {}
  <2>1. n \in DOMAIN sent /\ ~(sent[n].end <= received)
    BY <1>2, <1>7 DEF Promised, Counted
  <2>2. ~(sent[n].end <= consumed)
    BY <1>3, <1>4, <2>1
  <2>3. task[n].phase = "idle"
    BY <2>2 DEF ServerInv, TaskInv
  <2>4. QED
    BY <2>3, NotAnswered DEF ServerInv
<1>8. \A n \in Numbers : askedBar[n] \subseteq askedBar'[n]
  BY <1>5, <1>6 DEF askedBar
<1>9. answersBar' = answersBar
  <2>1. \A n \in Numbers : answersBar'[n] = answersBar[n]
    BY <1>5, <1>6, <1>7 DEF answersBar
  <2>2. QED
    BY <2>1 DEF answersBar
<1>10. QED
  BY <1>2, <1>8, <1>9 DEF Promise!Next, Promise!Arrive

\* A message that is no request is refused at once; what is no message is
\* answered to nobody.
LEMMA DispatchPromises ==
  ASSUME TypeOK, ServerInv, Dispatch
  PROVE  [Promise!Next]_(Promise!vars)
<1>1. /\ HasMessage(buffer) /\ buffer' = Rest(buffer) /\ open
      /\ UNCHANGED <<wire, linter, open, sent, received>>
  BY DEF Dispatch
<1>2. \A n \in Parsed(NextBody(buffer)) : n \in DOMAIN sent /\ task[n].phase = "idle"
  BY <1>1, TakenOnce
<1>3. CASE out' = Append(out, Response(0, Error(None, -32700)))
  <2>1. PICK e : e = Response(0, Error(None, -32700))
    OBVIOUS
  <2>2. e.to = 0 /\ out' = Append(out, e)
    BY <1>3, <2>1 DEF Response
  <2>3. \A n \in Numbers : AnswersTo(n)' = AnswersTo(n)
    BY <2>2, AppendedAnswer
  <2>4. QED
    BY <1>1, <2>3, NothingSaid
<1>4. CASE out' = out
  <2>1. \A n \in Numbers : AnswersTo(n)' = AnswersTo(n)
    BY <1>4 DEF AnswersTo
  <2>2. QED
    BY <1>1, <2>1, NothingSaid
<1>5. ASSUME NEW n \in Parsed(NextBody(buffer)), Message(n).form # "request",
             out' = Append(out, Response(n, Error(None, InvalidCode(Message(n)))))
      PROVE  [Promise!Next]_(Promise!vars)
  <2>1. n \in Numbers /\ task[n].phase # "done"
    BY <1>2, StreamTypes
  <2>2. PICK r : r = Error(None, InvalidCode(Message(n)))
    OBVIOUS
  <2>3. ~IsNotification(Message(n)) /\ RightResponse(Message(n), r)
    BY <1>5, <2>2 DEF IsNotification, RightResponse, Understood, Error
  <2>4. QED
    BY <1>1, <1>5, <2>1, <2>2, <2>3, Replies
<1>6. CASE \E n \in Parsed(NextBody(buffer)) :
             CASE Message(n).form = "request" ->
                    /\ task' = [task EXCEPT ![n] = HandleRequest(Message(n))]
                    /\ UNCHANGED out
               [] OTHER ->
                    /\ task' = [task EXCEPT ![n] = Done]
                    /\ out' = Append(out, Response(n, Error(None, InvalidCode(Message(n)))))
  <2>1. PICK n \in Parsed(NextBody(buffer)) :
          \/ out' = out
          \/ /\ Message(n).form # "request"
             /\ out' = Append(out, Response(n, Error(None, InvalidCode(Message(n)))))
    BY <1>6
  <2>2. QED
    BY <1>4, <1>5, <2>1
<1>7. QED
  BY <1>3, <1>6 DEF Dispatch

\* A handler that is done says what is right for its message, or nothing.
LEMMA HandlePromises ==
  ASSUME TypeOK, ServerInv, NEW n \in Numbers, Handle(n)
  PROVE  [Promise!Next]_(Promise!vars)
<1>1. open /\ UNCHANGED <<open, sent, received>>
  BY HandleTouches
<1>2. CASE out' = out
  <2>1. \A k \in Numbers : AnswersTo(k)' = AnswersTo(k)
    BY <1>2 DEF AnswersTo
  <2>2. QED
    BY <1>1, <2>1, NothingSaid
<1>3. CASE Answer(n) /\ out' # out
  <2>1. /\ task[n].phase = "answer" /\ ~IsNotification(Message(n))
        /\ out' = Append(out, Response(n, task[n].response))
    BY <1>3 DEF Answer
  <2>2. PICK r : r = task[n].response
    OBVIOUS
  <2>3. RightResponse(Message(n), r)
    BY <2>1, <2>2 DEF ServerInv, TaskInv, RightTask
  <2>4. task[n].phase # "done" /\ out' = Append(out, Response(n, r))
    BY <2>1, <2>2
  <2>5. QED
    BY <1>1, <2>1, <2>3, <2>4, Replies
<1>4. QED
  BY <1>2, <1>3, HandleTouches

\* Every step of the server is one of the promise, or none.
LEMMA NextPromise ==
  TypeOK /\ TypeOK' /\ ServerInv /\ [Next]_vars => [Promise!Next]_(Promise!vars)
<1> SUFFICES ASSUME TypeOK, TypeOK', ServerInv, [Next]_vars
             PROVE  [Promise!Next]_(Promise!vars)
  OBVIOUS
<1>1. CASE StopReading \/ LoadTokens \/ LoadFails \/ End
  <2>1. open /\ UNCHANGED <<sent, received, out>> /\ open' \in BOOLEAN
    BY <1>1 DEF StopReading, LoadTokens, LoadFails, End, TypeOK
  <2>2. QED
    BY <2>1, Closes
<1>2. CASE UNCHANGED vars
  <2>1. UNCHANGED <<sent, received, out, open>>
    BY <1>2 DEF vars
  <2>2. \A n \in Numbers : AnswersTo(n)' = AnswersTo(n)
    BY <2>1 DEF AnswersTo
  <2>3. QED
    BY <2>1, <2>2, NothingSaid
<1>3. QED
  BY <1>1, <1>2, SendPromises, DataPromises, DispatchPromises, HandlePromises DEF Next

\* The server begins where the promise does.
LEMMA InitPromise == Init => Promise!Init
<1> SUFFICES ASSUME Init PROVE Promise!Init
  OBVIOUS
<1>1. DOMAIN sent = {} /\ open = TRUE
  BY DEF Init
<1>2. \A n \in Numbers : ~Promised(n)
  BY <1>1 DEF Promised, Counted
<1>3. QED
  BY <1>1, <1>2 DEF Promise!Init, askedBar, answersBar

\* Every step is one that the promise allows: what is behind right headers is
\* answered at most once, rightly, after it has arrived and while the process
\* runs, and a notification is not answered at all.
THEOREM PromiseSafe == Spec => Promise!Safe
<1>1. Init => Promise!Init
  BY InitPromise
<1>2. TypeOK /\ TypeOK' /\ ServerInv /\ [Next]_vars => [Promise!Next]_(Promise!vars)
  BY NextPromise
<1>3. Spec => [](TypeOK /\ ServerInv)
  BY ServerTheorem
<1>4. QED
  BY <1>1, <1>2, <1>3, PTL DEF Spec, Promise!Safe

----------------------------------------------------------------------------
(* Nothing is forgotten: the loop finds every message behind right         *)
(* headers, however the stream was cut.                                    *)

\* The stream has as many cells as were sent.
LEMMA StreamEnds ==
  ASSUME TypeOK
  PROVE  /\ DOMAIN sent = {} => received + Len(wire) = 0
         /\ DOMAIN sent # {} => Len(sent) \in DOMAIN sent
                                /\ received + Len(wire) = sent[Len(sent)].end
<1>1. Len(sent) \in Nat /\ DOMAIN sent = 1..Len(sent)
  BY StreamTypes
<1>2. sent = <<>> <=> DOMAIN sent = {}
  <2>1. sent \in Seq([message : Messages, counts : BOOLEAN, end : Nat])
    BY DEF TypeOK
  <2>2. sent = <<>> <=> Len(sent) = 0
    BY <2>1, EmptySeq
  <2>3. 1..Len(sent) = {} <=> Len(sent) = 0
    BY <1>1
  <2>4. QED
    BY <1>1, <2>2, <2>3
<1>3. QED
  BY <1>1, <1>2 DEF TypeOK

\* Cells that stay in the stream keep their places in it, and no message is
\* sent: the frames stay.
LEMMA FrameKeeps ==
  ASSUME TypeOK, TypeOK', FrameInv, sent' = sent, consumed <= consumed',
         \A p \in Int : consumed' < p /\ p <= received + Len(wire) => CellAt(p)' = CellAt(p)
  PROVE  FrameInv'
<1>1. /\ Len(sent) \in Nat /\ DOMAIN sent = 1..Len(sent) /\ received \in Nat /\ Len(wire) \in Nat
      /\ \A n \in DOMAIN sent : n \in Numbers /\ sent[n].end \in Nat
  BY StreamTypes
<1>2. consumed \in Int /\ consumed' \in Int
  <2>1. Len(buffer) \in Nat /\ received \in Nat
    BY StreamTypes
  <2>2. Len(buffer') \in Nat /\ received' \in Nat
    BY DEF TypeOK
  <2>3. QED
    BY <2>1, <2>2 DEF consumed
<1>3. \A n \in DOMAIN sent : sent[n].end <= received + Len(wire)
  <2>1. SUFFICES ASSUME NEW n \in DOMAIN sent PROVE sent[n].end <= received + Len(wire)
    OBVIOUS
  <2>2. Len(sent) \in DOMAIN sent /\ received + Len(wire) = sent[Len(sent)].end /\ n <= Len(sent)
    BY <1>1, StreamEnds
  <2>3. QED
    BY <2>2 DEF FrameInv
<1>4. ASSUME NEW n \in DOMAIN sent, Counted(n)'
      PROVE  \E h \in Headers : Counts(h) /\ Framed(n, Frame(n, h))'
  <2>1. Counted(n)
    BY <1>4 DEF Counted
  <2>2. PICK h \in Headers : Counts(h) /\ Framed(n, Frame(n, h))
    BY <2>1 DEF FrameInv
  <2>3. PICK frame : frame = Frame(n, h)
    OBVIOUS
  <2>4. Len(frame) \in Nat
    BY <1>1, <2>3, FrameIs
  <2>5. PICK start : start = Before(n)
    OBVIOUS
  <2>6. Before(n)' = start
    BY <2>5 DEF Before
  <2>7. start \in Nat
    BY <1>1, <2>5 DEF Before
  <2>8. /\ sent[n].end = start + Len(frame)
        /\ \A i \in 1..Len(frame) : start + i > consumed => CellAt(start + i) = frame[i]
    BY <2>2, <2>3, <2>5 DEF Framed
  <2>9. ASSUME NEW i \in 1..Len(frame), start + i > consumed'
        PROVE  CellAt(start + i)' = frame[i]
    <3>1. /\ start + i \in Int /\ consumed' < start + i /\ start + i > consumed
          /\ start + i <= start + Len(frame)
      BY <1>2, <2>4, <2>7, <2>9
    <3>2. start + i <= received + Len(wire)
      BY <1>1, <1>3, <2>8, <3>1
    <3>3. PICK p \in Int : p = start + i
      BY <3>1
    <3>4. CellAt(p)' = CellAt(p)
      BY <3>1, <3>2, <3>3
    <3>5. QED
      BY <2>8, <3>1, <3>3, <3>4
  <2>10. sent'[n].end = start + Len(frame)
    BY <2>8
  <2>11. Framed(n, frame)'
    BY <2>6, <2>9, <2>10 DEF Framed
  <2>12. QED
    BY <2>2, <2>3, <2>11
<1>5. QED
  BY <1>4 DEF FrameInv

\* Where the loop stands before a counted message, it finds that one if it is
\* all there.
LEMMA NextFound ==
  ASSUME TypeOK, FrameInv, NEW n \in DOMAIN sent, Counted(n), consumed = Before(n)
  PROVE  /\ HasMessage(buffer) <=> sent[n].end <= received
         /\ HasMessage(buffer) =>
              /\ NextBody(buffer) = Body(n)
              /\ consumed + (HeaderEnd(buffer) + ContentLength(buffer)) = sent[n].end
<1>1. /\ received \in Nat /\ Len(buffer) \in Nat /\ buffer \in Seq(Cells) /\ n \in Numbers
      /\ sent[n].end \in Nat
  BY StreamTypes DEF TypeOK
<1>2. PICK h \in Headers : Counts(h) /\ Framed(n, Frame(n, h))
  BY DEF FrameInv
<1>3. PICK frame : frame = Frame(n, h)
  OBVIOUS
<1>4. Len(frame) \in Nat
  BY <1>1, <1>3, FrameIs
<1>5. PICK full \in Nat : full = Len(buffer)
  BY <1>1
<1>6. PICK start \in Int : start = consumed
  <2>1. consumed \in Int
    BY <1>1 DEF consumed
  <2>2. QED
    BY <2>1
<1>7. start = received - full /\ start = Before(n)
  BY <1>5, <1>6 DEF consumed
<1>8. /\ sent[n].end = start + Len(frame)
      /\ \A i \in 1..Len(frame) : start + i > start => CellAt(start + i) = frame[i]
  BY <1>2, <1>3, <1>6, <1>7 DEF Framed
<1>9. ASSUME NEW i \in 1..Len(frame), i <= full PROVE buffer[i] = frame[i]
  <2>1. start + i > start /\ start + i <= received /\ start + i - start = i
    BY <1>1, <1>4, <1>5, <1>7, <1>9
  <2>2. CellAt(start + i) = buffer[i]
    BY <1>6, <2>1 DEF CellAt
  <2>3. QED
    BY <1>8, <2>1, <2>2
<1>10. /\ HasMessage(buffer) <=> Len(frame) <= full
       /\ HasMessage(buffer) => /\ NextBody(buffer) = Body(n)
                                /\ HeaderEnd(buffer) + ContentLength(buffer) = Len(frame)
  BY <1>1, <1>2, <1>3, <1>5, <1>9, MessageFound
<1>11. Len(frame) <= full <=> sent[n].end <= received
  BY <1>1, <1>4, <1>5, <1>7, <1>8
<1>12. QED
  BY <1>6, <1>8, <1>10, <1>11

\* A body is that of one message.
LEMMA BodyOf == \A n, m : Body(n) = Body(m) => n = m
<1>1. SUFFICES ASSUME NEW n, NEW m, Body(n) = Body(m) PROVE n = m
  OBVIOUS
<1>2. Body(n)[1] = Piece(n, 1) /\ Body(m)[1] = Piece(m, 1)
  BY DEF Body
<1>3. QED
  BY <1>1, <1>2, PieceIs

\* Nothing of the stream changes and no handler is forgotten.
LEMMA PlaceKeeps ==
  ASSUME PlaceInv, sent' = sent, consumed' = consumed,
         \A n \in Numbers : task[n].phase # "idle" => task'[n].phase # "idle",
         TypeOK
  PROVE  PlaceInv'
<1>1. Len(sent) \in Nat /\ DOMAIN sent = 1..Len(sent) /\ \A n \in DOMAIN sent : n \in Numbers
  BY StreamTypes
<1>2. PICK n \in 1..(Len(sent) + 1) :
        /\ \A k \in 1..(n - 1) : task[k].phase # "idle" /\ sent[k].counts
        /\ consumed = Before(n) \/ (n \in DOMAIN sent /\ ~sent[n].counts)
  BY DEF PlaceInv
<1>3. \A k \in 1..(n - 1) : k \in Numbers
  BY <1>1, <1>2
<1>4. Before(n)' = Before(n)
  BY DEF Before
<1>5. /\ \A k \in 1..(n - 1) : task'[k].phase # "idle" /\ sent'[k].counts
      /\ consumed' = Before(n)' \/ (n \in DOMAIN sent' /\ ~sent'[n].counts)
  BY <1>2, <1>3, <1>4
<1>6. QED
  BY <1>2, <1>5 DEF PlaceInv

\* A handler that is done has answered, if there was to be an answer.
LEMMA DoneKeeps ==
  ASSUME TypeOK, ServerInv, DoneInv, sent' = sent, NEW n \in Numbers, NEW t,
         task' = [task EXCEPT ![n] = t],
         \/ out' = out /\ (t.phase = "done" => IsNotification(Message(n)))
         \/ \E r : out' = Append(out, Response(n, r))
  PROVE  DoneInv'
<1>1. \A k : Message(k)' = Message(k)
  BY DEF Message
<1>2. task = [k \in Numbers |-> task[k]]
  BY DEF TypeOK
<1>3. task'[n] = t /\ \A k \in Numbers : k # n => task'[k] = task[k]
  BY <1>2
<1>4. CASE out' = out /\ (t.phase = "done" => IsNotification(Message(n)))
  <2>1. \A k \in Numbers : AnswersTo(k)' = AnswersTo(k)
    BY <1>4 DEF AnswersTo
  <2>2. ASSUME NEW k \in Numbers, task'[k].phase = "done"
        PROVE  IsNotification(Message(k)) \/ AnswersTo(k)' # {}
    <3>1. CASE k = n
      BY <1>3, <1>4, <2>2, <3>1
    <3>2. CASE k # n
      BY <1>3, <2>1, <2>2, <3>2 DEF DoneInv
    <3>3. QED
      BY <3>1, <3>2
  <2>3. QED
    BY <1>1, <2>2 DEF DoneInv
<1>5. ASSUME NEW r, out' = Append(out, Response(n, r)) PROVE DoneInv'
  <2>1. PICK e : e = Response(n, r)
    OBVIOUS
  <2>2. e.to = n /\ out' = Append(out, e)
    BY <1>5, <2>1 DEF Response
  <2>3. AnswersTo(n)' # {} /\ \A k \in Numbers : k # n => AnswersTo(k)' = AnswersTo(k)
    BY <2>2, AppendedAnswer
  <2>4. ASSUME NEW k \in Numbers, task'[k].phase = "done"
        PROVE  IsNotification(Message(k)) \/ AnswersTo(k)' # {}
    BY <1>3, <2>3, <2>4 DEF DoneInv
  <2>5. QED
    BY <1>1, <2>4 DEF DoneInv
<1>6. QED
  BY <1>4, <1>5

\* A step that leaves the stream and begins no handler.
LEMMA StillPlaced ==
  ASSUME TypeOK, TypeOK', ProgressInv, UNCHANGED <<wire, buffer, sent, received>>,
         \A n \in Numbers : task[n].phase # "idle" => task'[n].phase # "idle"
  PROVE  FrameInv' /\ PlaceInv'
<1>1. consumed' = consumed /\ \A p \in Int : CellAt(p)' = CellAt(p)
  BY DEF consumed, CellAt
<1>2. consumed <= consumed'
  <2>1. consumed \in Int
    BY StreamTypes DEF consumed
  <2>2. QED
    BY <1>1, <2>1
<1>3. FrameInv'
  BY <1>1, <1>2, FrameKeeps DEF ProgressInv
<1>4. QED
  BY <1>1, <1>3, PlaceKeeps DEF ProgressInv

\* A step of the control alone; the loop stops where it finds no message.
LEMMA ControlProgress ==
  ASSUME TypeOK, TypeOK', ProgressInv, UNCHANGED <<wire, buffer, task, out, sent, received>>,
         ~reading' => ~reading \/ ~HasMessage(buffer)
  PROVE  ProgressInv'
<1>1. \A n : Message(n)' = Message(n) /\ AnswersTo(n)' = AnswersTo(n)
  BY DEF Message, AnswersTo
<1>2. DoneInv'
  BY <1>1 DEF ProgressInv, DoneInv
<1>3. QED
  BY <1>2, StillPlaced DEF ProgressInv

\* A step of a handler that is under way.
LEMMA HandleProgress ==
  ASSUME TypeOK, TypeOK', ServerInv, ProgressInv, NEW n \in Numbers, Handle(n)
  PROVE  ProgressInv'
<1>1. task[n].phase # "idle" /\ UNCHANGED <<wire, buffer, reading, sent, received>>
  BY HandleTouches
<1>2. \A response : Settled(response).phase = "answer"
  BY DEF Settled
<1>3. \A code, used, remaining : /\ Linted(code, used, remaining).phase = "hash"
                                 /\ Linting(code, used, TRUE).phase = "lint"
  BY DEF Linted, Linting
<1>4. ASSUME NEW t, task' = [task EXCEPT ![n] = t], t.phase # "idle",
             \/ out' = out /\ (t.phase = "done" => IsNotification(Message(n)))
             \/ \E r : out' = Append(out, Response(n, r))
      PROVE  ProgressInv'
  <2>1. task = [k \in Numbers |-> task[k]]
    BY DEF TypeOK
  <2>2. \A k \in Numbers : task[k].phase # "idle" => task'[k].phase # "idle"
    BY <1>4, <2>1
  <2>3. FrameInv' /\ PlaceInv'
    BY <1>1, <2>2, StillPlaced
  <2>4. DoneInv'
    BY <1>1, <1>4, DoneKeeps DEF ProgressInv
  <2>5. QED
    BY <1>1, <2>3, <2>4 DEF ProgressInv
<1>5. CASE Configure(n) \/ LintEnds(n)
  <2>1. PICK t : task' = [task EXCEPT ![n] = t] /\ t.phase \in {"lint", "hash"} /\ out' = out
    <3>1. CASE Configure(n)
      BY <1>3, <3>1, ZenonT(30) DEF Configure
    <3>2. CASE LintEnds(n)
      <4>1. /\ task' = [task EXCEPT ![n] = AfterLint(task[n], Message(n))]
            /\ out' = out
        BY <3>2 DEF LintEnds, AfterLint
      <4>2. AfterLint(task[n], Message(n)).phase \in {"lint", "hash"}
        BY <1>3 DEF AfterLint
      <4>3. QED
        BY <4>1, <4>2
    <3>3. QED
      BY <1>5, <3>1, <3>2
  <2>2. QED
    BY <1>4, <2>1
<1>6. CASE LintThrows(n) \/ HashThrows(n) \/ HashKnown(n)
  <2>1. PICK t : task' = [task EXCEPT ![n] = t] /\ t.phase = "answer" /\ out' = out
    BY <1>2, <1>6 DEF LintThrows, HashThrows, HashKnown
  <2>2. QED
    BY <1>4, <2>1
<1>7. CASE Answer(n)
  <2>1. /\ task' = [task EXCEPT ![n] = Done]
        /\ \/ out' = out /\ IsNotification(Message(n))
           \/ out' = Append(out, Response(n, task[n].response))
    BY <1>7 DEF Answer
  <2>2. Done.phase = "done"
    BY DEF Done
  <2>3. QED
    BY <1>4, <2>1, <2>2
<1>8. QED
  BY <1>5, <1>6, <1>7 DEF Handle

\* A message is sent: the stream goes on with its frame.
LEMMA SendProgress ==
  ASSUME TypeOK, TypeOK', ServerInv, ProgressInv, Send
  PROVE  ProgressInv'
<1> DEFINE S == Len(sent)
           W == Len(wire)
<1>1. UNCHANGED <<buffer, reading, task, out, received>>
  BY DEF Send
<1>2. /\ S \in Nat /\ DOMAIN sent = 1..S /\ W \in Nat /\ received \in Nat /\ Len(buffer) \in Nat
      /\ \A n \in DOMAIN sent : n \in Numbers /\ sent[n].end \in Nat
  BY StreamTypes
<1>3. PICK h \in Headers : \E frame, e : Sends(h, frame, e)
  BY SendIs
<1>4. PICK frame, e : Sends(h, frame, e)
  BY <1>3
<1>5. /\ frame = Frame(S + 1, h) /\ Len(frame) \in Nat /\ Len(frame) >= 1
      /\ e.counts = Counts(h) /\ e.end = received + W + Len(frame)
      /\ DOMAIN sent' = 1..S + 1 /\ Len(sent') = S + 1
      /\ sent'[S + 1] = e /\ \A n \in 1..S : sent'[n] = sent[n]
      /\ \A k \in 1..W + Len(frame) : wire'[k] = IF k <= W THEN wire[k] ELSE frame[k - W]
  BY <1>4 DEF Sends
<1>6. consumed' = consumed /\ consumed \in Int /\ consumed = received - Len(buffer)
  BY <1>1, <1>2 DEF consumed
<1>7. ASSUME NEW p \in Int, consumed < p, p <= received + W PROVE CellAt(p)' = CellAt(p)
  <2>1. CASE p <= received
    BY <1>1, <1>6, <2>1 DEF CellAt
  <2>2. CASE ~(p <= received)
    <3>1. p - received \in 1..W + Len(frame) /\ p - received <= W
      BY <1>2, <1>5, <1>7, <2>2
    <3>2. wire'[p - received] = wire[p - received]
      BY <1>5, <3>1
    <3>3. QED
      BY <1>1, <2>2, <3>2 DEF CellAt
  <2>3. QED
    BY <2>1, <2>2
<1>8. PICK start \in Int : start = received + W
  <2>1. received + W \in Int
    BY <1>2
  <2>2. QED
    BY <2>1
<1>9. ASSUME NEW i \in 1..Len(frame) PROVE CellAt(start + i)' = frame[i]
  <2>1. PICK l \in Nat : l = Len(frame)
    BY <1>5
  <2>2. PICK w \in Nat : w = W
    BY <1>2
  <2>3. start = received + w /\ i \in 1..l
    BY <1>9, <1>8, <2>1, <2>2
  <2>4. /\ ~(start + i <= received) /\ (start + i) - received = w + i
        /\ w + i \in 1..w + l /\ ~(w + i <= w) /\ (w + i) - w = i
    BY <1>2, <2>3
  <2>5. wire'[w + i] = frame[(w + i) - w]
    BY <1>5, <2>1, <2>2, <2>4
  <2>6. PICK p \in Int : p = start + i
    BY <2>3
  <2>7. wire'[p - received] = frame[i] /\ ~(p <= received)
    <3>1. frame[(w + i) - w] = frame[i]
      BY <2>4
    <3>2. p - received = w + i
      BY <2>4, <2>6, Zenon
    <3>3. ~(p <= received)
      BY <2>4, <2>6, Zenon
    <3>4. QED
      BY <2>5, <3>1, <3>2, <3>3, Zenon
  <2>8. CellAt(p)' = frame[i]
    BY <1>1, <2>7 DEF CellAt
  <2>9. QED
    BY <2>6, <2>8
<1>10. \A n \in 1..S : n \in DOMAIN sent' /\ sent'[n] = sent[n]
  BY <1>2, <1>5
<1>11. \A n \in 1..S + 1 : Before(n)' = Before(n)
  <2>1. \A n \in 1..S + 1 : n = 1 \/ n - 1 \in 1..S
    BY <1>2
  <2>2. QED
    BY <1>10, <2>1 DEF Before
<1>12. Before(S + 1) = received + W
  <2>1. CASE S = 0
    <3>1. DOMAIN sent = {} /\ S + 1 = 1
      BY <1>2, <2>1
    <3>2. QED
      BY <3>1, StreamEnds DEF Before
  <2>2. CASE S # 0
    <3>1. S \in DOMAIN sent /\ S + 1 # 1 /\ S + 1 - 1 = S
      BY <1>2, <2>2
    <3>2. QED
      BY <3>1, StreamEnds DEF Before
  <2>3. QED
    BY <2>1, <2>2
<1>13. \A n \in 1..S : sent[n].end <= received + W
  <2>1. SUFFICES ASSUME NEW n \in 1..S PROVE sent[n].end <= received + W
    OBVIOUS
  <2>2. S \in DOMAIN sent /\ n \in DOMAIN sent /\ n <= S /\ received + W = sent[S].end
    BY <1>2, StreamEnds
  <2>3. QED
    BY <2>2 DEF ProgressInv, FrameInv
<1>14. \A i, j \in DOMAIN sent' : i <= j => sent'[i].end <= sent'[j].end
  <2>1. SUFFICES ASSUME NEW i \in DOMAIN sent', NEW j \in DOMAIN sent', i <= j
                 PROVE  sent'[i].end <= sent'[j].end
    OBVIOUS
  <2>2. i \in 1..S + 1 /\ j \in 1..S + 1
    BY <1>5
  <2>3. CASE j \in 1..S
    <3>1. i \in 1..S
      BY <1>2, <2>1, <2>2, <2>3
    <3>2. sent[i].end <= sent[j].end
      BY <1>2, <2>1, <2>3, <3>1 DEF ProgressInv, FrameInv
    <3>3. QED
      BY <1>10, <2>3, <3>1, <3>2
  <2>4. CASE j = S + 1 /\ i \in 1..S
    <3>1. sent[i].end <= received + W /\ sent[i].end \in Nat
      BY <1>2, <1>13, <2>4
    <3>2. sent[i].end <= e.end
      BY <1>2, <1>5, <3>1
    <3>3. QED
      BY <1>5, <2>4, <3>2
  <2>5. CASE j = S + 1 /\ i = S + 1
    <3>1. e.end \in Int /\ sent'[i].end = e.end /\ sent'[j].end = e.end
      BY <1>2, <1>5, <2>5
    <3>2. QED
      BY <3>1
  <2>6. QED
    BY <1>2, <2>2, <2>3, <2>4, <2>5
<1>15. ASSUME NEW n \in DOMAIN sent', Counted(n)'
       PROVE  \E g \in Headers : Counts(g) /\ Framed(n, Frame(n, g))'
  <2>1. CASE n \in 1..S
    <3>1. Counted(n)
      <4>1. n \in DOMAIN sent /\ \A k \in 1..n : sent'[k].counts /\ k \in 1..S
        BY <1>2, <1>15, <2>1 DEF Counted
      <4>2. QED
        BY <1>10, <4>1 DEF Counted
    <3>2. PICK g \in Headers : Counts(g) /\ Framed(n, Frame(n, g))
      BY <1>2, <2>1, <3>1 DEF ProgressInv, FrameInv
    <3>3. PICK f : f = Frame(n, g)
      OBVIOUS
    <3>4. Len(f) \in Nat
      BY <1>2, <2>1, <3>3, FrameIs
    <3>5. PICK first : first = Before(n)
      OBVIOUS
    <3>6. Before(n)' = first /\ sent'[n].end = sent[n].end
      BY <1>2, <1>10, <1>11, <2>1, <3>5
    <3>7. first \in Nat
      <4>1. n = 1 \/ n - 1 \in DOMAIN sent
        BY <1>2, <2>1
      <4>2. QED
        BY <1>2, <3>5, <4>1 DEF Before
    <3>8. /\ sent[n].end = first + Len(f)
          /\ \A i \in 1..Len(f) : first + i > consumed => CellAt(first + i) = f[i]
      BY <3>2, <3>3, <3>5 DEF Framed
    <3>9. ASSUME NEW i \in 1..Len(f), first + i > consumed'
          PROVE  CellAt(first + i)' = f[i]
      <4>1. first + i \in Int /\ first + i <= first + Len(f) /\ consumed < first + i
        BY <1>6, <3>4, <3>7, <3>9
      <4>2. first + i <= received + W
        BY <1>2, <1>13, <2>1, <3>8, <4>1
      <4>3. PICK p \in Int : p = first + i
        BY <4>1
      <4>4. CellAt(p)' = CellAt(p)
        BY <1>7, <4>1, <4>2, <4>3
      <4>5. QED
        BY <1>6, <3>8, <4>1, <4>3, <4>4
    <3>10. Framed(n, f)'
      BY <3>6, <3>8, <3>9 DEF Framed
    <3>11. QED
      BY <3>2, <3>3, <3>10
  <2>2. CASE n = S + 1
    <3>1. Counts(h)
      <4>1. sent'[n].counts
        BY <1>2, <1>15, <2>2 DEF Counted
      <4>2. QED
        BY <1>5, <2>2, <4>1
    <3>2. Before(n)' = start
      BY <1>2, <1>11, <1>12, <1>8, <2>2
    <3>3. sent'[n].end = start + Len(frame)
      BY <1>5, <1>8, <2>2
    <3>4. Framed(n, frame)'
      BY <1>9, <3>2, <3>3 DEF Framed
    <3>5. QED
      BY <1>5, <2>2, <3>1, <3>4
  <2>3. QED
    BY <1>2, <1>5, <2>1, <2>2
<1>16. FrameInv'
  BY <1>14, <1>15 DEF FrameInv
<1>17. PlaceInv'
  <2>1. PICK n \in 1..(S + 1) :
          /\ \A k \in 1..(n - 1) : task[k].phase # "idle" /\ sent[k].counts
          /\ consumed = Before(n) \/ (n \in DOMAIN sent /\ ~sent[n].counts)
    BY DEF ProgressInv, PlaceInv
  <2>2. \A k \in 1..(n - 1) : k \in 1..S
    BY <1>2, <2>1
  <2>3. \A k \in 1..(n - 1) : task'[k].phase # "idle" /\ sent'[k].counts
    BY <1>1, <1>10, <2>1, <2>2
  <2>4. consumed' = Before(n)' \/ (n \in DOMAIN sent' /\ ~sent'[n].counts)
    BY <1>2, <1>6, <1>10, <1>11, <2>1
  <2>5. n \in 1..(Len(sent') + 1)
    BY <1>2, <1>5, <2>1
  <2>6. QED
    BY <2>3, <2>4, <2>5 DEF PlaceInv
<1>18. DoneInv'
  <2>1. \A n \in Numbers : AnswersTo(n)' = AnswersTo(n)
    BY <1>1 DEF AnswersTo
  <2>2. ASSUME NEW n \in Numbers, task'[n].phase = "done"
        PROVE  IsNotification(Message(n))' \/ AnswersTo(n)' # {}
    <3>1. task[n].phase = "done" /\ n \in DOMAIN sent
      BY <1>1, <2>2 DEF ServerInv, TaskInv
    <3>2. Message(n)' = Message(n)
      BY <1>2, <1>10, <3>1 DEF Message
    <3>3. IsNotification(Message(n)) \/ AnswersTo(n) # {}
      BY <3>1 DEF ProgressInv, DoneInv
    <3>4. QED
      BY <2>1, <3>2, <3>3 DEF IsNotification
  <2>3. QED
    BY <2>2 DEF DoneInv
<1>19. QED
  BY <1>1, <1>16, <1>17, <1>18 DEF ProgressInv

\* A chunk arrives: the loop runs.
LEMMA DataProgress ==
  ASSUME TypeOK, TypeOK', ProgressInv, Data
  PROVE  ProgressInv'
<1> DEFINE B == Len(buffer)
           W == Len(wire)
<1>1. PICK k \in 1..W :
        /\ received' = received + k /\ consumed' = consumed
        /\ \A i \in 1..W - k : wire'[i] = wire[k + i]
        /\ \A i \in 1..B + k : buffer'[i] = IF i <= B THEN buffer[i] ELSE wire[i - B]
  BY DataIs
<1>2. UNCHANGED <<task, out, sent>> /\ reading' = TRUE
  BY DEF Data
<1>3. B \in Nat /\ W \in Nat /\ received \in Nat /\ k \in Nat /\ k <= W /\ k >= 1
  BY <1>1, StreamTypes
<1>4. PICK c \in Int : c = consumed /\ c = received - B
  <2>1. received - B \in Int
    BY <1>3
  <2>2. QED
    BY <2>1 DEF consumed
<1>5. ASSUME NEW p \in Int, c < p, p <= received + W PROVE CellAt(p)' = CellAt(p)
  <2>1. CASE p <= received
    <3>1. p <= received + k /\ p - c \in 1..B + k /\ p - c <= B
      BY <1>3, <1>4, <1>5, <2>1
    <3>2. buffer'[p - c] = buffer[p - c]
      BY <1>1, <3>1
    <3>3. QED
      BY <1>1, <1>4, <2>1, <3>1, <3>2 DEF CellAt
  <2>2. CASE ~(p <= received) /\ p <= received + k
    <3>1. p - c \in 1..B + k /\ ~(p - c <= B) /\ p - c - B = p - received
      BY <1>3, <1>4, <1>5, <2>2
    <3>2. buffer'[p - c] = wire[p - received]
      BY <1>1, <3>1
    <3>3. QED
      BY <1>1, <1>4, <2>2, <3>2 DEF CellAt
  <2>3. CASE ~(p <= received + k)
    <3>1. /\ p - (received + k) \in 1..W - k /\ k + (p - (received + k)) = p - received
          /\ ~(p <= received)
      BY <1>3, <1>5, <2>3
    <3>2. wire'[p - (received + k)] = wire[p - received]
      BY <1>1, <3>1
    <3>3. QED
      BY <1>1, <2>3, <3>1, <3>2 DEF CellAt
  <2>4. QED
    BY <1>3, <2>1, <2>2, <2>3
<1>6. FrameInv'
  <2>1. consumed <= consumed'
    BY <1>1, <1>4
  <2>2. QED
    BY <1>1, <1>2, <1>4, <1>5, <2>1, FrameKeeps DEF ProgressInv
<1>7. PlaceInv'
  BY <1>1, <1>2, PlaceKeeps DEF ProgressInv
<1>8. DoneInv'
  <2>1. \A n : Message(n)' = Message(n) /\ AnswersTo(n)' = AnswersTo(n)
    BY <1>2 DEF Message, AnswersTo
  <2>2. QED
    BY <1>2, <2>1 DEF ProgressInv, DoneInv
<1>9. QED
  BY <1>2, <1>6, <1>7, <1>8 DEF ProgressInv

\* A message is taken: it is the next one that is not handled, or the stream
\* has been misread.
LEMMA DispatchProgress ==
  ASSUME TypeOK, TypeOK', ServerInv, ProgressInv, Dispatch
  PROVE  ProgressInv'
<1> DEFINE B == Len(buffer)
           W == Len(wire)
<1>1. /\ reading /\ HasMessage(buffer) /\ buffer' = Rest(buffer)
      /\ UNCHANGED <<wire, reading, open, sent, received>>
  BY DEF Dispatch
<1>2. /\ B \in Nat /\ W \in Nat /\ received \in Nat /\ Len(sent) \in Nat
      /\ DOMAIN sent = 1..Len(sent) /\ \A n \in DOMAIN sent : n \in Numbers /\ sent[n].end \in Nat
      /\ buffer \in Seq(Cells)
  BY StreamTypes DEF TypeOK
<1>3. PICK stop \in 1..B :
        /\ stop = HeaderEnd(buffer) + ContentLength(buffer)
        /\ \A k \in 1..B - stop : buffer'[k] = buffer[stop + k]
        /\ consumed \in Int /\ consumed' = consumed + stop /\ consumed <= consumed'
  BY <1>1, TakenIs
<1>4. PICK c \in Int : c = consumed /\ c = received - B
  BY <1>3 DEF consumed
<1>5. ASSUME NEW p \in Int, consumed' < p, p <= received + W PROVE CellAt(p)' = CellAt(p)
  <2>1. CASE p <= received
    <3>1. /\ p - (c + stop) \in 1..B - stop
          /\ stop + (p - (c + stop)) = p - c
      <4>1. /\ B \in Int /\ stop \in Int /\ c \in Int /\ p \in Int /\ received \in Int
            /\ c = received - B /\ c + stop < p /\ p <= received
        BY <1>2, <1>3, <1>4, <1>5, <2>1
      <4> HIDE DEF B, W
      <4>2. QED
        BY ONLY <4>1
    <3>2. buffer'[p - (c + stop)] = buffer[p - c]
      <4>1. buffer'[p - (c + stop)] = buffer[stop + (p - (c + stop))]
        BY <1>3, <3>1
      <4>2. QED
        BY <3>1, <4>1
    <3>3. QED
      BY <1>1, <1>3, <1>4, <2>1, <3>2 DEF CellAt
  <2>2. CASE ~(p <= received)
    BY <1>1, <2>2 DEF CellAt
  <2>3. QED
    BY <2>1, <2>2
<1>6. FrameInv'
  BY <1>1, <1>3, <1>5, FrameKeeps DEF ProgressInv
<1>7. task = [n \in Numbers |-> task[n]]
  BY DEF TypeOK
<1>8. \A m \in Messages : HandleRequest(m).phase \in {"lint", "hash", "answer"} \/ m.form # "request"
  BY HandleRequestRight
<1>9. ASSUME NEW n \in DOMAIN sent, NextBody(buffer) = Body(n)
      PROVE  task'[n].phase # "idle"
  <2>1. \A k \in Parsed(NextBody(buffer)) : k = n
    BY <1>9, BodyOf DEF Parsed
  <2>2. n \in Parsed(NextBody(buffer))
    BY <1>9 DEF Parsed
  <2>3. \/ Message(n).form = "request" /\ task' = [task EXCEPT ![n] = HandleRequest(Message(n))]
        \/ task' = [task EXCEPT ![n] = Done]
    BY <2>1, <2>2 DEF Dispatch
  <2>4. Message(n) \in Messages /\ n \in Numbers
    BY StreamTypes
  <2>5. QED
    BY <1>7, <1>8, <2>3, <2>4 DEF Done
<1>10. ASSUME NEW n \in Numbers, task[n].phase # "idle" PROVE task'[n] = task[n]
  <2>1. \A k \in Parsed(NextBody(buffer)) : k # n /\ k \in Numbers
    BY <1>1, <1>2, <1>10, TakenOnce
  <2>2. \/ task' = task
        \/ \E k \in Parsed(NextBody(buffer)) : \E t : task' = [task EXCEPT ![k] = t]
    BY DEF Dispatch
  <2>3. QED
    BY <1>7, <2>1, <2>2
<1>11. PlaceInv'
  <2>1. PICK n \in 1..(Len(sent) + 1) :
          /\ \A k \in 1..(n - 1) : task[k].phase # "idle" /\ sent[k].counts
          /\ consumed = Before(n) \/ (n \in DOMAIN sent /\ ~sent[n].counts)
    BY DEF ProgressInv, PlaceInv
  <2>2. \A k \in 1..(n - 1) : k \in Numbers
    BY <1>2, <2>1
  <2>3. \A k \in 1..(n - 1) : task'[k].phase # "idle" /\ sent'[k].counts
    BY <1>1, <1>10, <2>1, <2>2
  <2>4. CASE n \in DOMAIN sent /\ ~sent[n].counts
    BY <1>1, <2>1, <2>3, <2>4 DEF PlaceInv
  <2>5. CASE n \notin DOMAIN sent
    <3>1. consumed = Before(n) /\ n = Len(sent) + 1
      BY <1>2, <2>1, <2>5
    <3>2. Before(n) = received + W
      <4>1. CASE Len(sent) = 0
        <5>1. DOMAIN sent = {} /\ n = 1
          BY <1>2, <3>1, <4>1
        <5>2. QED
          BY <5>1, StreamEnds DEF Before
      <4>2. CASE Len(sent) # 0
        <5>1. Len(sent) \in DOMAIN sent /\ n # 1 /\ n - 1 = Len(sent)
          BY <1>2, <3>1, <4>2
        <5>2. QED
          BY <5>1, StreamEnds DEF Before
      <4>3. QED
        BY <4>1, <4>2
    <3>3. PICK b \in Nat, w \in Nat : b = B /\ w = W
      BY <1>2
    <3>4. received - b = received + w
      BY <1>4, <3>1, <3>2, <3>3
    <3>5. b = 0
      BY <1>2, <3>4
    <3>6. stop \in 1..0
      BY <3>3, <3>5
    <3>7. QED
      BY <3>6
  <2>6. CASE n \in DOMAIN sent /\ sent[n].counts /\ consumed = Before(n)
    <3>1. Counted(n)
      <4>1. \A k \in 1..n : k \in 1..(n - 1) \/ k = n
        BY <1>2, <2>1
      <4>2. QED
        BY <2>1, <2>6, <4>1 DEF Counted
    <3>2. NextBody(buffer) = Body(n) /\ consumed' = sent[n].end
      BY <1>1, <1>3, <2>6, <3>1, NextFound DEF ProgressInv
    <3>3. task'[n].phase # "idle"
      BY <1>9, <2>6, <3>2
    <3>4. n + 1 \in 1..(Len(sent) + 1) /\ n + 1 # 1 /\ n + 1 - 1 = n
      BY <1>2, <2>6
    <3>5. \A k \in 1..(n + 1 - 1) : task'[k].phase # "idle" /\ sent'[k].counts
      <4>1. \A k \in 1..n : k \in 1..(n - 1) \/ k = n
        BY <1>2, <2>1
      <4>2. QED
        BY <1>1, <2>3, <2>6, <3>3, <3>4, <4>1
    <3>6. consumed' = Before(n + 1)'
      BY <1>1, <3>2, <3>4 DEF Before
    <3>7. QED
      BY <1>1, <3>4, <3>5, <3>6 DEF PlaceInv
  <2>7. QED
    BY <2>1, <2>4, <2>5, <2>6
<1>12. DoneInv'
  <2>1. CASE task' = task /\ out' = Append(out, Response(0, Error(None, -32700)))
    <3>1. PICK e : e = Response(0, Error(None, -32700))
      OBVIOUS
    <3>2. e.to = 0 /\ out' = Append(out, e)
      BY <2>1, <3>1 DEF Response
    <3>3. \A n \in Numbers : AnswersTo(n)' = AnswersTo(n)
      BY <3>2, AppendedAnswer
    <3>4. \A n \in Numbers : Message(n)' = Message(n)
      BY <1>1 DEF Message
    <3>5. QED
      BY <2>1, <3>3, <3>4 DEF ProgressInv, DoneInv
  <2>2. ASSUME NEW n \in Parsed(NextBody(buffer)),
               \/ /\ Message(n).form = "request"
                  /\ task' = [task EXCEPT ![n] = HandleRequest(Message(n))] /\ out' = out
               \/ /\ task' = [task EXCEPT ![n] = Done]
                  /\ out' = Append(out, Response(n, Error(None, InvalidCode(Message(n)))))
        PROVE  DoneInv'
    <3>1. n \in Numbers /\ Message(n) \in Messages
      <4>1. n \in DOMAIN sent
        BY DEF Parsed
      <4>2. QED
        BY <4>1, StreamTypes
    <3>2. PICK t : /\ task' = [task EXCEPT ![n] = t]
                   /\ \/ out' = out /\ t.phase # "done"
                      \/ \E r : out' = Append(out, Response(n, r))
      <4>1. Message(n).form = "request" => HandleRequest(Message(n)).phase # "done"
        BY <1>8, <3>1
      <4>2. QED
        BY <2>2, <4>1
    <3>3. QED
      BY <1>1, <3>1, <3>2, DoneKeeps DEF ProgressInv
  <2>3. CASE \E n \in Parsed(NextBody(buffer)) :
               CASE Message(n).form = "request" ->
                      /\ task' = [task EXCEPT ![n] = HandleRequest(Message(n))]
                      /\ UNCHANGED out
                 [] OTHER ->
                      /\ task' = [task EXCEPT ![n] = Done]
                      /\ out' = Append(out, Response(n, Error(None, InvalidCode(Message(n)))))
    <3>1. PICK n \in Parsed(NextBody(buffer)) :
            \/ /\ Message(n).form = "request"
               /\ task' = [task EXCEPT ![n] = HandleRequest(Message(n))] /\ out' = out
            \/ /\ task' = [task EXCEPT ![n] = Done]
               /\ out' = Append(out, Response(n, Error(None, InvalidCode(Message(n)))))
      BY <2>3
    <3>2. QED
      BY <2>2, <3>1
  <2>4. QED
    BY <2>1, <2>3 DEF Dispatch
<1>13. QED
  BY <1>1, <1>6, <1>11, <1>12 DEF ProgressInv

\* Every step keeps the frames, the place of the loop, and the answers.
LEMMA ProgressStep ==
  TypeOK /\ TypeOK' /\ ServerInv /\ ProgressInv /\ [Next]_vars => ProgressInv'
<1> SUFFICES ASSUME TypeOK, TypeOK', ServerInv, ProgressInv, [Next]_vars
             PROVE  ProgressInv'
  OBVIOUS
<1>1. CASE StopReading \/ LoadTokens \/ LoadFails \/ End
  <2>1. /\ UNCHANGED <<wire, buffer, task, out, sent, received>>
        /\ ~reading' => ~reading \/ ~HasMessage(buffer)
    BY <1>1 DEF StopReading, LoadTokens, LoadFails, End
  <2>2. QED
    BY <2>1, ControlProgress
<1>2. CASE UNCHANGED vars
  BY <1>2, ControlProgress DEF vars
<1>3. QED
  BY <1>1, <1>2, SendProgress, DataProgress, DispatchProgress, HandleProgress DEF Next

\* At first the stream is empty.
LEMMA ProgressInit == Init => ProgressInv
<1> SUFFICES ASSUME Init PROVE ProgressInv
  OBVIOUS
<1>1. /\ sent = <<>> /\ DOMAIN sent = {} /\ Len(sent) = 0
      /\ buffer = <<>> /\ Len(buffer) = 0 /\ received = 0
      /\ \A n \in Numbers : task[n].phase = "idle"
  BY DEF Init, Idle
<1>2. FrameInv
  BY <1>1 DEF FrameInv
<1>3. PlaceInv
  <2>1. 1 \in 1..(Len(sent) + 1) /\ \A k : k \notin 1..(1 - 1)
    BY <1>1
  <2>2. consumed = 0
    <3>1. consumed = received - Len(buffer)
      BY DEF consumed
    <3>2. QED
      BY ONLY <1>1, <3>1
  <2>3. Before(1) = 0
    BY DEF Before
  <2>4. QED
    BY <2>1, <2>2, <2>3 DEF PlaceInv
<1>4. DoneInv
  BY <1>1 DEF DoneInv
<1>5. ~HasMessage(buffer)
  <2>1. HeaderEnds(buffer) = {}
    BY <1>1 DEF HeaderEnds
  <2>2. QED
    BY <2>1 DEF HasMessage
<1>6. QED
  BY <1>2, <1>3, <1>4, <1>5 DEF ProgressInv

\* The frames of counted messages stand in the stream at their places, and
\* the loop is always before the first of them that is not handled.
THEOREM ProgressTheorem == Spec => []ProgressInv
<1>1. Init => ProgressInv
  BY ProgressInit
<1>2. TypeOK /\ TypeOK' /\ ServerInv /\ ProgressInv /\ [Next]_vars => ProgressInv'
  BY ProgressStep
<1>3. Spec => [](TypeOK /\ ServerInv)
  BY ServerTheorem
<1>4. QED
  BY <1>1, <1>2, <1>3, PTL DEF Spec

\* Where nothing is under way, nothing is forgotten.
LEMMA NoneLeft == TypeOK /\ ServerInv /\ ProgressInv => NoneForgotten
<1> SUFFICES ASSUME TypeOK, ServerInv, ProgressInv, ~reading,
                    \A n \in Numbers : task[n].phase \in {"idle", "done"},
                    NEW n \in Numbers, askedBar[n] # {}
             PROVE  Promise!Served(n)
  BY DEF NoneForgotten
<1>1. Promised(n) /\ askedBar[n] = {Message(n)}
  BY DEF askedBar
<1>2. n \in DOMAIN sent /\ Counted(n) /\ sent[n].end <= received /\ \A k \in 1..n : sent[k].counts
  BY <1>1 DEF Promised, Counted
<1>3. /\ Len(sent) \in Nat /\ DOMAIN sent = 1..Len(sent) /\ received \in Nat
      /\ \A k \in DOMAIN sent : sent[k].end \in Nat
  BY StreamTypes
<1>4. CASE task[n].phase = "done"
  <2>1. IsNotification(Message(n)) \/ AnswersTo(n) # {}
    BY <1>4 DEF ProgressInv, DoneInv
  <2>2. answersBar[n] = AnswersTo(n)
    BY <1>1 DEF answersBar
  <2>3. QED
    BY <1>1, <2>1, <2>2 DEF Promise!Served
<1>5. CASE task[n].phase = "idle"
  <2>1. PICK m \in 1..(Len(sent) + 1) :
          /\ \A k \in 1..(m - 1) : task[k].phase # "idle" /\ sent[k].counts
          /\ consumed = Before(m) \/ (m \in DOMAIN sent /\ ~sent[m].counts)
    BY DEF ProgressInv, PlaceInv
  <2>2. m <= n
    <3>1. n \notin 1..(m - 1)
      BY <1>5, <2>1
    <3>2. QED
      BY <1>2, <1>3, <2>1, <3>1
  <2>3. m \in DOMAIN sent /\ m \in 1..n /\ \A k \in 1..m : k \in 1..n
    BY <1>2, <1>3, <2>1, <2>2
  <2>4. Counted(m) /\ consumed = Before(m)
    BY <1>2, <2>1, <2>3 DEF Counted
  <2>5. sent[m].end <= sent[n].end
    BY <1>2, <2>2, <2>3 DEF ProgressInv, FrameInv
  <2>6. sent[m].end <= received
    BY <1>2, <1>3, <2>3, <2>5
  <2>7. HasMessage(buffer)
    BY <2>3, <2>4, <2>6, NextFound DEF ProgressInv
  <2>8. QED
    BY <2>7 DEF ProgressInv
<1>6. QED
  BY <1>4, <1>5

\* Whenever the loop has stopped and no handler is under way, every message
\* that arrived whole behind right headers has its answer: the server cannot
\* come to rest with one outstanding.
THEOREM NoneForgottenTheorem == Spec => []NoneForgotten
<1>1. TypeOK /\ ServerInv /\ ProgressInv => NoneForgotten
  BY NoneLeft
<1>2. QED
  BY <1>1, ServerTheorem, ProgressTheorem, PTL

=============================================================================
