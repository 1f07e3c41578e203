---------------------------- MODULE AuthLogProofs ---------------------------
(* Proofs about AuthLog, for any number of lines, of rotations, of crashes  *)
(* and of failing inserts.                                                  *)
EXTENDS AuthLog, TLAPS

-----------------------------------------------------------------------------
(* The inductive invariant: what syslog writes, where the reader stands in  *)
(* it, and how the two histories relate to that place.                      *)

Pieces(k) == 1..Len(files[k])

(* Rename keeps room for the file that Reopen makes. *)
RoomToReopen == ~linked => Len(files) < MaxFiles

(* No line is numbered before it is begun. *)
Begun == \A k \in 1..Len(files) : \A q \in Pieces(k) : files[k][q].line <= written

(* A front is followed by the rest of the same line. *)
Paired ==
  \A k \in 1..Len(files) : \A q \in Pieces(k) :
    q + 1 \in Pieces(k) /\ files[k][q].part = "front" =>
      /\ files[k][q + 1].part = "rest"
      /\ files[k][q + 1].line = files[k][q].line
      /\ files[k][q + 1].ssh = files[k][q].ssh

(* Behind the end of a line come later lines, in a file and in the files    *)
(* it is rotated to.                                                        *)
LinesAscend ==
  \A k \in 1..Len(files) : \A p, q \in Pieces(k) :
    p < q /\ files[k][p].part = "rest" => files[k][p].line < files[k][q].line

FilesAscend ==
  \A k, l \in 1..Len(files) : k < l =>
    \A p \in Pieces(k), q \in Pieces(l) : files[k][p].line < files[l][q].line

LogInv == RoomToReopen /\ Begun /\ Paired /\ LinesAscend /\ FilesAscend

(* Between two calls the parser is where lastOffset says; a process that is *)
(* down has no parser; the scanner holds a front only while it reads.       *)
Placed ==
  /\ scan = "closed" => lastOffset = pos
  /\ ~up => scan = "closed" /\ fd = 0
  /\ fd = 0 => pos = 0
  /\ carry => scan = "reading" /\ pos > 0 /\ files[fd][pos].part = "front"

(* A line that was recorded is never met again: everything still to come in *)
(* this file and in those behind it is later, but for the rest of a line    *)
(* whose front was handed out at the end of the file, and a rest by itself  *)
(* matches no pattern.                                                      *)
Passed(n) ==
  /\ n <= written
  /\ fd > 0
  /\ \A q \in Pieces(fd) : q > pos \/ (q = pos /\ carry) =>
       \/ n < files[fd][q].line
       \/ q = pos + 1 /\ ~carry /\ files[fd][q].part = "rest"
  /\ \A l \in fd+1..Len(files) : \A q \in Pieces(l) : n < files[l][q].line

RowsPassed == up => \A i \in base+1..Len(rows) : Passed(rows[i])

(* Every SSH piece behind the reader is accounted for, but for the front it *)
(* holds.                                                                   *)
Accounted ==
  fd # 0 =>
    \A q \in 1..pos : files[fd][q].ssh =>
      files[fd][q].line \in Recorded \cup lost \/ (carry /\ q = pos)

ParserInv == TypeOK /\ LogInv /\ Placed /\ RowsPassed /\ InOrderOnce /\ Accounted

(* The type invariant, part by part. *)
TypeLog ==
  /\ files \in Seq(Seq(Piece)) /\ Len(files) \in 1..MaxFiles
  /\ linked \in BOOLEAN /\ written \in 0..MaxLines

TypeParser ==
  /\ up \in BOOLEAN /\ logPath \in BOOLEAN /\ carry \in BOOLEAN
  /\ scan \in {"closed", "reading", "eof"}
  /\ fd \in 0..Len(files)
  /\ lastOffset \in Nat /\ pos \in 0..(IF fd = 0 THEN 0 ELSE Len(files[fd]))
  /\ scan # "closed" => fd # 0

TypeHistory ==
  /\ rows \in Seq(1..MaxLines) /\ base \in 0..Len(rows)
  /\ lost \subseteq 1..MaxLines
  /\ crashes \in 0..MaxCrashes /\ faults \in 0..MaxFaults

LEMMA TypeParts == TypeOK <=> TypeLog /\ TypeParser /\ TypeHistory
BY DEF TypeOK, TypeLog, TypeParser, TypeHistory

LEMMA TypePartsNext == TypeLog' /\ TypeParser' /\ TypeHistory' => TypeOK'
BY DEF TypeOK, TypeLog, TypeParser, TypeHistory

(* The rows written since boot hold line numbers. *)
LEMMA RowsAreLines ==
  ASSUME TypeHistory, NEW i \in base+1..Len(rows)
  PROVE  i \in 1..Len(rows) /\ rows[i] \in 1..MaxLines
<1>1. rows \in Seq(1..MaxLines) /\ base \in 0..Len(rows) /\ Len(rows) \in Nat
  BY DEF TypeHistory
<1>2. i \in 1..Len(rows)
  BY <1>1
<1>3. \A S : rows \in Seq(S) => rows[i] \in S
  BY <1>2
<1> QED BY <1>1, <1>2, <1>3

LEMMA InitInv == Init => ParserInv
<1> SUFFICES ASSUME Init PROVE ParserInv
  OBVIOUS
<1> USE BoundsAssumption
<1>1. files = << <<>> >> /\ Len(files) = 1 /\ files[1] = <<>> /\ Len(files[1]) = 0
  BY DEF Init
<1>2. rows = <<>> /\ Len(rows) = 0
  BY DEF Init
<1>3. TypeLog
  BY <1>1 DEF Init, TypeLog
<1>4. TypeParser
  <2>1. pos \in 0..(IF fd = 0 THEN 0 ELSE Len(files[fd])) /\ fd \in 0..Len(files)
    BY <1>1 DEF Init
  <2> QED BY <2>1 DEF Init, TypeParser
<1>5. TypeHistory
  BY <1>2 DEF Init, TypeHistory
<1>6. LogInv
  BY <1>1 DEF Init, LogInv, RoomToReopen, Begun, Paired, LinesAscend, FilesAscend, Pieces
<1>7. Placed /\ RowsPassed /\ InOrderOnce /\ Accounted
  BY <1>2 DEF Init, Placed, RowsPassed, InOrderOnce, Accounted
<1> QED BY <1>3, <1>4, <1>5, <1>6, <1>7, TypeParts DEF ParserInv

-----------------------------------------------------------------------------
(* The log.  Whatever syslog and logrotate do, what was written stays where *)
(* it is: a reader in the middle of a file is not disturbed.                *)

(* Every file keeps its pieces at their offsets. *)
Kept ==
  /\ Len(files) <= Len(files')
  /\ \A k \in 1..Len(files) :
       /\ Len(files[k]) <= Len(files'[k])
       /\ \A q \in Pieces(k) : files'[k][q] = files[k][q]

(* Growing writes behind the end of the newest file only. *)
LEMMA Grown ==
  ASSUME TypeLog, NEW pieces \in Seq(Piece), Grow(pieces)
  PROVE  /\ files' \in Seq(Seq(Piece)) /\ Len(files') = Len(files) /\ Kept
         /\ \A k \in 1..Len(files) : k # Len(files) => files'[k] = files[k]
         /\ Len(files'[Len(files)]) = Len(Newest) + Len(pieces)
         /\ \A q \in Len(Newest)+1..Len(Newest)+Len(pieces) :
              files'[Len(files)][q] = pieces[q - Len(Newest)]
<1> DEFINE n == Len(files)
<1>1. files \in Seq(Seq(Piece)) /\ n \in Nat /\ n >= 1 /\ Newest \in Seq(Piece)
  BY BoundsAssumption DEF TypeLog, Newest
<1>2. files' = [files EXCEPT ![n] = files[n] \o pieces]
  BY DEF Grow
<1>3. files[n] \o pieces \in Seq(Piece)
  BY <1>1 DEF Newest
<1>4. files' \in Seq(Seq(Piece)) /\ Len(files') = n
  BY <1>1, <1>2, <1>3
<1>5. files'[n] = files[n] \o pieces /\ \A k \in 1..n : k # n => files'[k] = files[k]
  BY <1>1, <1>2
<1>6. /\ Len(files'[n]) = Len(Newest) + Len(pieces)
      /\ \A q \in 1..Len(Newest) : files'[n][q] = Newest[q]
      /\ \A q \in Len(Newest)+1..Len(Newest)+Len(pieces) : files'[n][q] = pieces[q - Len(Newest)]
  BY <1>1, <1>5 DEF Newest
<1>7. ASSUME NEW k \in 1..n
      PROVE  Len(files[k]) <= Len(files'[k]) /\ \A q \in Pieces(k) : files'[k][q] = files[k][q]
  <2>1. files[k] \in Seq(Piece) /\ Len(files[k]) \in Nat /\ Len(pieces) \in Nat
    BY <1>1
  <2>2. CASE k = n
    BY <1>6, <2>1, <2>2 DEF Newest, Pieces
  <2>3. CASE k # n
    BY <1>5, <2>1, <2>3
  <2> QED BY <2>2, <2>3
<1>8. Kept
  BY <1>1, <1>4, <1>7 DEF Kept
<1> QED BY <1>4, <1>5, <1>6, <1>8

(* What the parser knows of what it has read survives. *)
LEMMA ParserUndisturbed ==
  ASSUME TypeOK, Placed, Accounted, InOrderOnce, Kept, TypeLog',
         UNCHANGED <<parser, rows, base, lost, crashes, faults>>
  PROVE  TypeParser' /\ TypeHistory' /\ Placed' /\ Accounted' /\ InOrderOnce'
<1> USE DEF parser
<1>0. TypeParser /\ TypeHistory /\ TypeLog
  BY TypeParts
<1>1. ASSUME fd # 0
      PROVE  /\ fd \in 1..Len(files) /\ fd \in 1..Len(files') /\ pos \in 0..Len(files'[fd])
             /\ \A q \in 1..pos : files'[fd][q] = files[fd][q]
  <2>1. fd \in 1..Len(files) /\ pos \in 0..Len(files[fd])
    BY <1>0, <1>1 DEF TypeParser, TypeLog
  <2>2. /\ files[fd] \in Seq(Piece) /\ Len(files) \in Nat
        /\ Len(files') \in Nat /\ Len(files) <= Len(files')
    BY <1>0, <2>1 DEF TypeLog, Kept
  <2>3. files'[fd] \in Seq(Piece) /\ Len(files[fd]) <= Len(files'[fd])
    BY <2>1, <2>2 DEF TypeLog, Kept
  <2>4. \A q \in 1..pos : files'[fd][q] = files[fd][q]
    BY <2>1, <2>2 DEF Kept, Pieces
  <2> QED BY <2>1, <2>2, <2>3, <2>4
<1>2. TypeParser'
  <2>1. fd' \in 0..Len(files') /\ (fd' = 0 => pos' = 0)
    BY <1>0, <1>1 DEF TypeParser, TypeLog
  <2>2. pos' \in 0..(IF fd' = 0 THEN 0 ELSE Len(files'[fd']))
    BY <1>1, <2>1
  <2> QED BY <1>0, <2>1, <2>2 DEF TypeParser
<1>3. TypeHistory'
  BY <1>0 DEF TypeHistory
<1>4. Placed'
  <2>1. carry => fd # 0 /\ pos \in 1..pos
    BY <1>0 DEF Placed, TypeParser
  <2> QED BY <1>1, <2>1 DEF Placed
<1>5. Accounted'
  <2>1. Recorded' = Recorded
    BY DEF Recorded
  <2> QED BY <1>1, <2>1 DEF Accounted
<1>6. InOrderOnce'
  BY DEF InOrderOnce
<1> QED BY <1>2, <1>3, <1>4, <1>5, <1>6

(* A recorded line stays behind the reader if what is written is later, or  *)
(* is the rest of the line whose front was the last thing read.             *)
LEMMA PassedStays ==
  ASSUME TypeOK, TypeLog', UNCHANGED parser, written <= written', Len(files) <= Len(files'),
         NEW x \in 1..MaxLines, Passed(x),
         \A k \in 1..Len(files') : \A q \in Pieces(k)' :
           \/ k \in 1..Len(files) /\ q \in Pieces(k) /\ files'[k][q] = files[k][q]
           \/ x < files'[k][q].line
           \/ k = fd /\ q = pos + 1 /\ ~carry /\ files'[k][q].part = "rest"
  PROVE  Passed(x)'
<1> USE BoundsAssumption DEF parser
<1>0. TypeLog /\ TypeParser
  BY TypeParts
<1>1. x \in Nat /\ written \in Nat /\ written' \in Nat /\ x <= written'
  BY <1>0 DEF TypeLog, Passed
<1>2. fd \in 1..Len(files) /\ fd \in 1..Len(files') /\ fd' = fd /\ pos' = pos /\ carry' = carry
  BY <1>0 DEF TypeLog, TypeParser, Passed
<1>3. ASSUME NEW q \in Pieces(fd)', q > pos \/ (q = pos /\ carry)
      PROVE  x < files'[fd][q].line \/ (q = pos + 1 /\ ~carry /\ files'[fd][q].part = "rest")
  <2>1. \/ q \in Pieces(fd) /\ files'[fd][q] = files[fd][q]
        \/ x < files'[fd][q].line
        \/ q = pos + 1 /\ ~carry /\ files'[fd][q].part = "rest"
    BY <1>2
  <2>2. q \in Pieces(fd) =>
          \/ x < files[fd][q].line
          \/ q = pos + 1 /\ ~carry /\ files[fd][q].part = "rest"
    BY <1>3 DEF Passed
  <2> QED BY <2>1, <2>2
<1>4. ASSUME NEW l \in fd+1..Len(files'), NEW q \in Pieces(l)'
      PROVE  x < files'[l][q].line
  <2>0. fd \in Nat /\ fd >= 1 /\ Len(files') \in Nat /\ Len(files) \in Nat
    BY <1>0, <1>2, SMTT(30) DEF TypeLog
  <2>1. l \in 1..Len(files') /\ l # fd
    BY <2>0
  <2>2. l \in 1..Len(files) => l \in fd+1..Len(files)
    BY <2>0
  <2> QED BY <1>4, <2>1, <2>2 DEF Passed
<1> QED BY <1>1, <1>2, <1>3, <1>4 DEF Passed, Pieces

(* A line is begun behind all lines there are, in one piece or in two. *)
LEMMA WriteLineInv == ParserInv /\ (\E ssh \in BOOLEAN : WriteLine(ssh)) => ParserInv'
<1> SUFFICES ASSUME ParserInv, NEW ssh \in BOOLEAN, WriteLine(ssh)
             PROVE  ParserInv'
  OBVIOUS
<1> USE BoundsAssumption
<1>0. TypeLog /\ TypeParser /\ TypeHistory /\ LogInv /\ Placed /\ RowsPassed /\ InOrderOnce
      /\ Accounted /\ TypeOK
  BY TypeParts DEF ParserInv
<1>1. PICK n \in 1..MaxFiles, m \in Nat : n = Len(files) /\ m = Len(Newest)
  BY <1>0 DEF TypeLog, Newest
<1>2. /\ written \in 0..MaxLines /\ written < MaxLines /\ written' = written + 1 /\ ~HalfWritten
      /\ UNCHANGED <<linked, parser, rows, base, lost, crashes, faults>>
  BY <1>0 DEF WriteLine, TypeLog
<1>3. PICK front, rest :
        /\ front = [line |-> written + 1, part |-> "front", ssh |-> ssh]
        /\ rest = [line |-> written + 1, part |-> "rest", ssh |-> ssh]
  OBVIOUS
<1>4. front \in Piece /\ rest \in Piece
  BY <1>2, <1>3 DEF Piece
<1>5. PICK pieces \in Seq(Piece) : (pieces = <<front, rest>> \/ pieces = <<front>>) /\ Grow(pieces)
  <2>1. <<front, rest>> \in Seq(Piece) /\ <<front>> \in Seq(Piece)
    BY <1>4
  <2>2. Grow(<<front, rest>>) \/ Grow(<<front>>)
    BY <1>3 DEF WriteLine
  <2> QED BY <2>1, <2>2
<1>6. PICK len \in 1..2 : len = Len(pieces) /\ pieces[1] = front /\ (len = 2 => pieces[2] = rest)
  BY <1>5
<1>7. /\ files' \in Seq(Seq(Piece)) /\ Len(files') = n /\ Kept
      /\ \A k \in 1..n : k # n => files'[k] = files[k]
      /\ Len(files'[n]) = m + len
      /\ \A q \in m+1..m+len : files'[n][q] = pieces[q - m]
  BY <1>0, <1>1, <1>5, <1>6, Grown
<1>8. files \in Seq(Seq(Piece)) /\ files[n] \in Seq(Piece) /\ Len(files[n]) = m
  BY <1>0, <1>1 DEF TypeLog, Newest
(* The new pieces. *)
<1>9. ASSUME NEW k \in 1..n, NEW q \in Pieces(k)'
      PROVE  \/ q \in Pieces(k) /\ files'[k][q] = files[k][q]
             \/ /\ k = n /\ q > m /\ files'[k][q].line = written + 1
                /\ \/ q = m + 1 /\ files'[k][q] = front
                   \/ q = m + 2 /\ files'[k][q] = rest
  <2>1. CASE k # n
    BY <1>7, <2>1 DEF Pieces
  <2>2. CASE k = n /\ q <= m
    <3>1. q \in Pieces(k)
      BY <1>1, <1>7, <1>8, <2>2 DEF Pieces
    <3> QED BY <1>1, <1>7, <3>1 DEF Kept
  <2>3. CASE k = n /\ q > m
    <3>1. q \in 1..(m + len)
      BY <1>7, <2>3 DEF Pieces
    <3>2. q = m + 1 \/ (q = m + 2 /\ len = 2)
      BY <2>3, <3>1
    <3>3. files'[n][m + 1] = front /\ (len = 2 => files'[n][m + 2] = rest)
      <4>1. m + 1 \in m+1..m+len /\ (len = 2 => m + 2 \in m+1..m+len)
        OBVIOUS
      <4>2. (m + 1) - m = 1 /\ (m + 2) - m = 2
        OBVIOUS
      <4> QED BY <1>6, <1>7, <4>1, <4>2
    <3>4. front.line = written + 1 /\ rest.line = written + 1
      BY <1>3
    <3> QED BY <2>3, <3>2, <3>3, <3>4
  <2>4. q \in Nat
    BY <1>7, <1>1 DEF Pieces
  <2> QED BY <1>1, <2>1, <2>2, <2>3, <2>4
<1>10. TypeLog'
  BY <1>0, <1>1, <1>2, <1>7 DEF TypeLog
<1>11. /\ \A k \in 1..n : Len(files[k]) \in Nat /\ files[k] \in Seq(Piece)
       /\ \A k \in 1..n : \A q \in Pieces(k) : files[k][q] \in Piece /\ files[k][q].line \in 1..MaxLines
  <2>1. \A k \in 1..n : Len(files[k]) \in Nat /\ files[k] \in Seq(Piece)
    BY <1>1, <1>8
  <2>2. \A k \in 1..n : \A q \in Pieces(k) : files[k][q] \in Piece
    BY <2>1 DEF Pieces
  <2> QED BY <2>1, <2>2 DEF Piece
<1>12. front.part = "front" /\ rest.part = "rest" /\ rest.line = front.line /\ rest.ssh = front.ssh
       /\ front.line = written + 1
  BY <1>3
<1>13. RoomToReopen'
  BY <1>0, <1>1, <1>2, <1>7 DEF LogInv, RoomToReopen
<1>14. Begun'
  <2> SUFFICES ASSUME NEW k \in 1..n, NEW q \in Pieces(k)'
               PROVE  files'[k][q].line <= written'
    BY <1>7 DEF Begun, Pieces
  <2>1. q \in Pieces(k) => files[k][q].line \in Nat /\ files[k][q].line <= written
    BY <1>0, <1>1, <1>11 DEF LogInv, Begun
  <2> QED BY <1>2, <1>9, <2>1, SMTT(30)
<1>15. Paired'
  <2> SUFFICES ASSUME NEW k \in 1..n, NEW q \in Pieces(k)', q + 1 \in Pieces(k)',
                      files'[k][q].part = "front"
               PROVE  /\ files'[k][q + 1].part = "rest"
                      /\ files'[k][q + 1].line = files'[k][q].line
                      /\ files'[k][q + 1].ssh = files'[k][q].ssh
    BY <1>7 DEF Paired, Pieces
  <2>0. q \in Nat
    BY <1>1, <1>7 DEF Pieces
  <2>1. CASE q + 1 \in Pieces(k)
    <3>1. q \in Pieces(k)
      BY <1>11, <2>0, <2>1 DEF Pieces
    <3>2. files'[k][q] = files[k][q] /\ files'[k][q + 1] = files[k][q + 1]
      BY <1>1, <1>7, <2>1, <3>1 DEF Kept
    <3> QED BY <1>0, <1>1, <2>1, <3>1, <3>2 DEF LogInv, Paired
  <2>2. CASE q + 1 \notin Pieces(k)
    <3>1. k = n /\ q + 1 > m /\ (q + 1 = m + 1 \/ (q + 1 = m + 2 /\ files'[k][q + 1] = rest))
      BY <1>9, <2>2
    <3>2. CASE q = m
      <4>1. m # 0 /\ q \in Pieces(k)
        BY <1>7, <1>8, <3>1, <3>2, SMTT(30) DEF Pieces
      <4>2. files'[k][q] = files[k][q]
        BY <1>1, <1>7, <4>1 DEF Kept
      <4>3. Newest # <<>> /\ Newest[Len(Newest)].part = "front"
        BY <1>1, <3>1, <3>2, <4>1, <4>2 DEF Newest
      <4> QED BY <1>2, <4>3 DEF HalfWritten
    <3>3. CASE q = m + 1 /\ files'[k][q + 1] = rest
      <4>1. files'[k][q] = front
        BY <1>8, <1>9, <3>1, <3>3 DEF Pieces
      <4> QED BY <1>12, <3>3, <4>1
    <3> QED BY <2>0, <3>1, <3>2, <3>3
  <2> QED BY <2>1, <2>2
<1>16. LinesAscend'
  <2> SUFFICES ASSUME NEW k \in 1..n, NEW p \in Pieces(k)', NEW q \in Pieces(k)', p < q,
                      files'[k][p].part = "rest"
               PROVE  files'[k][p].line < files'[k][q].line
    BY <1>7 DEF LinesAscend, Pieces
  <2>0. p \in Nat /\ q \in Nat /\ p > 0
    BY <1>1, <1>7 DEF Pieces
  <2>1. CASE q \in Pieces(k)
    <3>1. p \in Pieces(k)
      BY <1>11, <2>0, <2>1 DEF Pieces
    <3>2. files'[k][q] = files[k][q] /\ files'[k][p] = files[k][p]
      BY <1>1, <1>7, <2>1, <3>1 DEF Kept
    <3> QED BY <1>0, <1>1, <2>1, <3>1, <3>2 DEF LogInv, LinesAscend
  <2>2. CASE q \notin Pieces(k)
    <3>1. files'[k][q].line = written + 1 /\ k = n /\ (q = m + 1 \/ q = m + 2)
      BY <1>9, <2>2
    <3>2. p \in Pieces(k)
      BY <1>9, <1>12, <2>0, <3>1
    <3>3. files[k][p].line <= written /\ files[k][p].line \in Nat
      BY <1>0, <1>1, <1>11, <3>2 DEF LogInv, Begun
    <3>4. files'[k][p] = files[k][p]
      BY <1>1, <1>7, <3>2 DEF Kept
    <3> QED BY <1>2, <3>1, <3>3, <3>4
  <2> QED BY <2>1, <2>2
<1>17. FilesAscend'
  <2> SUFFICES ASSUME NEW k \in 1..n, NEW l \in 1..n, k < l,
                      NEW p \in Pieces(k)', NEW q \in Pieces(l)'
               PROVE  files'[k][p].line < files'[l][q].line
    BY <1>7 DEF FilesAscend, Pieces
  <2>1. k # n /\ p \in Pieces(k) /\ files'[k][p] = files[k][p]
    <3>1. k # n
      BY <1>1
    <3> QED BY <1>9, <3>1
  <2>2. files[k][p].line <= written /\ files[k][p].line \in Nat
    BY <1>0, <1>1, <1>11, <2>1, SMTT(30) DEF LogInv, Begun
  <2>3. CASE q \in Pieces(l) /\ files'[l][q] = files[l][q]
    BY <1>0, <1>1, <2>1, <2>3 DEF LogInv, FilesAscend
  <2>4. CASE files'[l][q].line = written + 1
    BY <1>2, <2>1, <2>2, <2>4, SMTT(30)
  <2> QED BY <1>9, <2>3, <2>4
<1>18. RowsPassed'
  <2> SUFFICES ASSUME up, NEW i \in base+1..Len(rows)
               PROVE  Passed(rows[i])'
    BY <1>2 DEF RowsPassed, parser
  <2>1. PICK x \in 1..MaxLines : x = rows[i]
    BY <1>0, RowsAreLines
  <2>2. Passed(x) /\ x <= written
    BY <1>0, <2>1 DEF RowsPassed, Passed
  <2>3. \A k \in 1..Len(files') : \A q \in Pieces(k)' :
          \/ k \in 1..Len(files) /\ q \in Pieces(k) /\ files'[k][q] = files[k][q]
          \/ x < files'[k][q].line
    <3>1. x < written + 1
      BY <1>2, <2>2
    <3> QED BY <1>1, <1>7, <1>9, <3>1, SMTT(30)
  <2>4. Passed(x)'
    BY <1>0, <1>1, <1>2, <1>7, <1>10, <2>2, <2>3, PassedStays
  <2> QED BY <1>2, <2>1, <2>4 DEF Passed, Pieces
<1>19. TypeParser' /\ TypeHistory' /\ Placed' /\ Accounted' /\ InOrderOnce'
  BY <1>0, <1>2, <1>7, <1>10, ParserUndisturbed
<1> QED
  BY <1>10, <1>13, <1>14, <1>15, <1>16, <1>17, <1>18, <1>19, TypePartsNext
     DEF ParserInv, LogInv

(* The pieces of the log are typed. *)
LEMMA PiecesTyped ==
  ASSUME TypeLog, NEW k \in 1..Len(files)
  PROVE  /\ files[k] \in Seq(Piece) /\ Len(files[k]) \in Nat
         /\ \A q \in Pieces(k) : /\ files[k][q] \in Piece /\ files[k][q].line \in 1..MaxLines
                                 /\ files[k][q].part \in {"front", "rest"}
                                 /\ files[k][q].ssh \in BOOLEAN
<1>1. files[k] \in Seq(Piece) /\ Len(files[k]) \in Nat
  BY DEF TypeLog
<1>2. \A q \in Pieces(k) : files[k][q] \in Piece
  BY <1>1 DEF Pieces
<1> QED BY <1>1, <1>2 DEF Piece

(* The rest of a line comes behind its front: the same line, not a new one. *)
LEMMA WriteRestInv == ParserInv /\ WriteRest => ParserInv'
<1> SUFFICES ASSUME ParserInv, WriteRest
             PROVE  ParserInv'
  OBVIOUS
<1> USE BoundsAssumption
<1>0. TypeLog /\ TypeParser /\ TypeHistory /\ LogInv /\ Placed /\ RowsPassed /\ InOrderOnce
      /\ Accounted /\ TypeOK
  BY TypeParts DEF ParserInv
<1>1. PICK n \in 1..MaxFiles, m \in Nat : n = Len(files) /\ m = Len(Newest)
  BY <1>0 DEF TypeLog, Newest
<1>2. /\ HalfWritten /\ UNCHANGED <<linked, written, parser, rows, base, lost, crashes, faults>>
  BY DEF WriteRest
<1>3. files \in Seq(Seq(Piece)) /\ files[n] \in Seq(Piece) /\ Len(files[n]) = m /\ n \in 1..n
  BY <1>0, <1>1 DEF TypeLog, Newest
<1>4. m > 0 /\ m \in Pieces(n) /\ files[n][m].part = "front"
  BY <1>1, <1>2, <1>3 DEF HalfWritten, Newest, Pieces
<1>5. PICK rest \in Piece : /\ rest.part = "rest" /\ rest.line = files[n][m].line
                            /\ rest.ssh = files[n][m].ssh /\ Grow(<<rest>>)
  <2>1. files[n][m] \in Piece
    BY <1>3, <1>4 DEF Pieces
  <2> DEFINE rest == [files[n][m] EXCEPT !.part = "rest"]
  <2>2. rest \in Piece /\ rest.part = "rest" /\ rest.line = files[n][m].line
        /\ rest.ssh = files[n][m].ssh
    BY <2>1 DEF Piece
  <2>3. Grow(<<rest>>)
    BY <1>1 DEF WriteRest, Newest
  <2> HIDE DEF rest
  <2> QED BY <2>2, <2>3
<1>6. /\ files' \in Seq(Seq(Piece)) /\ Len(files') = n /\ Kept
      /\ \A k \in 1..n : k # n => files'[k] = files[k]
      /\ Len(files'[n]) = m + 1 /\ files'[n][m + 1] = rest
  <2>1. PICK pieces \in Seq(Piece) : pieces = <<rest>> /\ Grow(pieces)
    <3>1. <<rest>> \in Seq(Piece)
      OBVIOUS
    <3> QED BY <1>5, <3>1
  <2>2. Len(pieces) = 1 /\ pieces[1] = rest
    BY <2>1
  <2>3. /\ files' \in Seq(Seq(Piece)) /\ Len(files') = n /\ Kept
        /\ \A k \in 1..n : k # n => files'[k] = files[k]
        /\ Len(files'[n]) = m + 1
        /\ \A q \in m+1..m+1 : files'[n][q] = pieces[q - m]
    BY <1>0, <1>1, <2>1, <2>2, Grown
  <2>4. m + 1 \in m+1..m+1 /\ (m + 1) - m = 1
    OBVIOUS
  <2> QED BY <2>2, <2>3, <2>4
<1>7. ASSUME NEW k \in 1..n, NEW q \in Pieces(k)'
      PROVE  \/ q \in Pieces(k) /\ files'[k][q] = files[k][q]
             \/ k = n /\ q = m + 1 /\ files'[k][q] = rest /\ q \notin Pieces(k)
  <2>1. CASE k # n
    BY <1>6, <2>1 DEF Pieces
  <2>2. CASE k = n /\ q # m + 1
    <3>1. q \in Pieces(k)
      BY <1>3, <1>6, <2>2 DEF Pieces
    <3> QED BY <1>1, <1>6, <3>1 DEF Kept
  <2>3. CASE k = n /\ q = m + 1
    BY <1>3, <1>6, <2>3 DEF Pieces
  <2> QED BY <2>1, <2>2, <2>3
<1>8. TypeLog'
  BY <1>0, <1>1, <1>2, <1>6 DEF TypeLog
<1>9. \A k \in 1..n : \A q \in Pieces(k) : files[k][q].line \in Nat
  BY <1>0, <1>1, PiecesTyped
<1>10. RoomToReopen'
  BY <1>0, <1>1, <1>2, <1>6 DEF LogInv, RoomToReopen
<1>11. Begun'
  <2> SUFFICES ASSUME NEW k \in 1..n, NEW q \in Pieces(k)'
               PROVE  files'[k][q].line <= written
    BY <1>2, <1>6 DEF Begun, Pieces
  <2> QED BY <1>0, <1>1, <1>3, <1>4, <1>5, <1>7 DEF LogInv, Begun
<1>12. Paired'
  <2> SUFFICES ASSUME NEW k \in 1..n, NEW q \in Pieces(k)', q + 1 \in Pieces(k)',
                      files'[k][q].part = "front"
               PROVE  /\ files'[k][q + 1].part = "rest"
                      /\ files'[k][q + 1].line = files'[k][q].line
                      /\ files'[k][q + 1].ssh = files'[k][q].ssh
    BY <1>6 DEF Paired, Pieces
  <2>0. q \in Nat /\ q > 0
    BY <1>1, <1>6 DEF Pieces
  <2>1. CASE q + 1 \in Pieces(k)
    <3>1. q \in Pieces(k)
      BY <1>0, <1>1, <2>0, <2>1, PiecesTyped DEF Pieces
    <3>2. files'[k][q] = files[k][q] /\ files'[k][q + 1] = files[k][q + 1]
      BY <1>1, <1>6, <2>1, <3>1 DEF Kept
    <3> QED BY <1>0, <1>1, <2>1, <3>1, <3>2 DEF LogInv, Paired
  <2>2. CASE q + 1 \notin Pieces(k)
    <3>1. k = n /\ q = m /\ files'[k][q + 1] = rest
      BY <1>7, <2>0, <2>2
    <3>2. files'[k][q] = files[k][q]
      BY <1>1, <1>4, <1>6, <3>1 DEF Kept
    <3> QED BY <1>5, <3>1, <3>2
  <2> QED BY <2>1, <2>2
<1>13. LinesAscend'
  <2> SUFFICES ASSUME NEW k \in 1..n, NEW p \in Pieces(k)', NEW q \in Pieces(k)', p < q,
                      files'[k][p].part = "rest"
               PROVE  files'[k][p].line < files'[k][q].line
    BY <1>6 DEF LinesAscend, Pieces
  <2>0. p \in Nat /\ q \in Nat /\ p > 0
    BY <1>1, <1>6 DEF Pieces
  <2>1. CASE q \in Pieces(k)
    <3>1. p \in Pieces(k)
      BY <1>0, <1>1, <2>0, <2>1, PiecesTyped DEF Pieces
    <3>2. files'[k][q] = files[k][q] /\ files'[k][p] = files[k][p]
      BY <1>1, <1>6, <2>1, <3>1 DEF Kept
    <3> QED BY <1>0, <1>1, <2>1, <3>1, <3>2 DEF LogInv, LinesAscend
  <2>2. CASE q \notin Pieces(k)
    <3>1. files'[k][q] = rest /\ k = n /\ q = m + 1
      BY <1>7, <2>2
    <3>2. p \in Pieces(k) /\ files'[k][p] = files[k][p]
      BY <1>7, <2>0, <3>1
    <3>3. p < m
      BY <1>4, <2>0, <3>1, <3>2
    <3> QED BY <1>0, <1>1, <1>4, <1>5, <3>1, <3>2, <3>3 DEF LogInv, LinesAscend
  <2> QED BY <2>1, <2>2
<1>14. FilesAscend'
  <2> SUFFICES ASSUME NEW k \in 1..n, NEW l \in 1..n, k < l,
                      NEW p \in Pieces(k)', NEW q \in Pieces(l)'
               PROVE  files'[k][p].line < files'[l][q].line
    BY <1>6 DEF FilesAscend, Pieces
  <2>1. k # n
    BY <1>1
  <2>2. p \in Pieces(k) /\ files'[k][p] = files[k][p]
    BY <1>7, <2>1
  <2>3. CASE q \in Pieces(l) /\ files'[l][q] = files[l][q]
    BY <1>0, <1>1, <2>2, <2>3 DEF LogInv, FilesAscend
  <2>4. CASE l = n /\ files'[l][q] = rest
    BY <1>0, <1>1, <1>4, <1>5, <2>2, <2>4 DEF LogInv, FilesAscend
  <2> QED BY <1>7, <2>3, <2>4
(* The front is still to come, or held, and later than the rows; or it has *)
(* been handed out, and then the rest is what the reader meets next.       *)
<1>15. RowsPassed'
  <2> SUFFICES ASSUME up, NEW i \in base+1..Len(rows)
               PROVE  Passed(rows[i])'
    BY <1>2 DEF RowsPassed, parser
  <2>1. PICK x \in 1..MaxLines : x = rows[i]
    BY <1>0, RowsAreLines
  <2>2. Passed(x)
    BY <1>0, <2>1 DEF RowsPassed
  <2>3. x < rest.line \/ (fd = n /\ m + 1 = pos + 1 /\ ~carry)
    <3>1. fd \in 1..n /\ pos \in 0..Len(files[fd])
      BY <1>0, <1>1, <2>2 DEF Passed, TypeParser
    <3>2. CASE fd = n
      <4>1. pos \in 0..m
        BY <1>3, <3>1, <3>2
      <4>2. CASE m > pos \/ (m = pos /\ carry)
        BY <1>4, <1>5, <2>2, <3>2, <4>2 DEF Passed
      <4>3. CASE m = pos /\ ~carry
        BY <3>2, <4>3
      <4> QED BY <4>1, <4>2, <4>3
    <3>3. CASE fd # n
      <4>1. n \in fd+1..Len(files)
        BY <1>1, <3>1, <3>3
      <4> QED BY <1>4, <1>5, <2>2, <4>1 DEF Passed
    <3> QED BY <3>2, <3>3
  <2>4. \A k \in 1..Len(files') : \A q \in Pieces(k)' :
          \/ k \in 1..Len(files) /\ q \in Pieces(k) /\ files'[k][q] = files[k][q]
          \/ x < files'[k][q].line
          \/ k = fd /\ q = pos + 1 /\ ~carry /\ files'[k][q].part = "rest"
    BY <1>1, <1>5, <1>6, <1>7, <2>3
  <2>5. written <= written' /\ UNCHANGED parser
    BY <1>0, <1>2 DEF TypeLog
  <2>6. Passed(x)'
    <3>1. Len(files) <= Len(files') /\ Len(files) \in Nat
      BY <1>1, <1>6
    <3>2. TypeOK /\ TypeLog'
      BY <1>0, <1>8
    <3> QED BY <2>2, <2>4, <2>5, <3>1, <3>2, PassedStays, Zenon
  <2> QED BY <1>2, <2>1, <2>6 DEF Passed, Pieces
<1>16. TypeParser' /\ TypeHistory' /\ Placed' /\ Accounted' /\ InOrderOnce'
  BY <1>0, <1>2, <1>6, <1>8, ParserUndisturbed
<1> QED
  BY <1>8, <1>10, <1>11, <1>12, <1>13, <1>14, <1>15, <1>16, TypePartsNext DEF ParserInv, LogInv

(* Logrotate renames the file; syslog opens a new one behind it. *)
LEMMA RotateInv == ParserInv /\ (Rename \/ Reopen) => ParserInv'
<1> SUFFICES ASSUME ParserInv, Rename \/ Reopen
             PROVE  ParserInv'
  OBVIOUS
<1> USE BoundsAssumption
<1>0. TypeLog /\ TypeParser /\ TypeHistory /\ LogInv /\ Placed /\ RowsPassed /\ InOrderOnce
      /\ Accounted /\ TypeOK
  BY TypeParts DEF ParserInv
<1>1. /\ UNCHANGED <<written, parser, rows, base, lost, crashes, faults>>
      /\ files' = files \/ files' = Append(files, <<>>)
  BY DEF Rename, Reopen
<1>2. PICK n \in 1..MaxFiles : n = Len(files)
  BY <1>0 DEF TypeLog
<1>3. /\ files' \in Seq(Seq(Piece)) /\ Len(files') \in {n, n + 1}
      /\ \A k \in 1..n : files'[k] = files[k]
      /\ Len(files') = n + 1 => files'[n + 1] = <<>>
  <2>1. files \in Seq(Seq(Piece)) /\ <<>> \in Seq(Piece)
    BY <1>0 DEF TypeLog
  <2>2. CASE files' = files
    BY <1>2, <2>1, <2>2
  <2>3. CASE files' = Append(files, <<>>)
    <3>1. ASSUME NEW S, NEW s \in Seq(S), NEW e \in S, n = Len(s)
          PROVE  /\ Append(s, e) \in Seq(S) /\ Len(Append(s, e)) = n + 1
                 /\ \A k \in 1..n : Append(s, e)[k] = s[k]
                 /\ Append(s, e)[n + 1] = e
      BY <3>1
    <3> QED BY <1>2, <2>1, <2>3, <3>1
  <2> QED BY <1>1, <2>2, <2>3
<1>4. ASSUME NEW k \in 1..Len(files'), NEW q \in Pieces(k)'
      PROVE  k \in 1..n /\ q \in Pieces(k) /\ files'[k][q] = files[k][q]
  <2>1. CASE k = n + 1
    <3>1. Len(files'[k]) = 0
      BY <1>3, <2>1
    <3> QED BY <3>1 DEF Pieces
  <2>2. CASE k # n + 1
    BY <1>3, <2>2, SMTT(30) DEF Pieces
  <2> QED BY <2>1, <2>2
<1>5. TypeLog' /\ RoomToReopen'
  <2>1. CASE Rename
    BY <1>0, <1>1, <2>1 DEF Rename, TypeLog, RoomToReopen
  <2>2. CASE Reopen
    <3>1. Len(files') = n + 1
      BY <1>0, <1>2, <2>2 DEF Reopen, TypeLog
    <3>2. n < MaxFiles
      BY <1>0, <1>2, <2>2 DEF Reopen, LogInv, RoomToReopen
    <3> QED BY <1>0, <1>1, <1>3, <2>2, <3>1, <3>2 DEF Reopen, TypeLog, RoomToReopen
  <2> QED BY <2>1, <2>2
<1>6. Kept
  <2>1. \A k \in 1..n : Len(files[k]) \in Nat
    BY <1>0, <1>2, PiecesTyped
  <2> QED BY <1>2, <1>3, <2>1, SMTT(30) DEF Kept
<1>7. Begun'
  BY <1>0, <1>1, <1>2, <1>4 DEF LogInv, Begun
<1>8. Paired'
  BY <1>0, <1>2, <1>4 DEF LogInv, Paired
<1>9. LinesAscend'
  BY <1>0, <1>2, <1>4 DEF LogInv, LinesAscend
<1>10. FilesAscend'
  BY <1>0, <1>2, <1>4 DEF LogInv, FilesAscend
<1>11. RowsPassed'
  <2> SUFFICES ASSUME up, NEW i \in base+1..Len(rows)
               PROVE  Passed(rows[i])'
    BY <1>1 DEF RowsPassed, parser
  <2>1. PICK x \in 1..MaxLines : x = rows[i]
    BY <1>0, RowsAreLines
  <2>2. Passed(x)
    BY <1>0, <2>1 DEF RowsPassed
  <2>3. written <= written' /\ Len(files) <= Len(files')
    BY <1>0, <1>1, <1>2, <1>3 DEF TypeLog
  <2>4. Passed(x)'
    BY <1>0, <1>1, <1>2, <1>4, <1>5, <2>2, <2>3, PassedStays
  <2> QED BY <1>1, <2>1, <2>4 DEF Passed, Pieces
<1>12. TypeParser' /\ TypeHistory' /\ Placed' /\ Accounted' /\ InOrderOnce'
  BY <1>0, <1>1, <1>5, <1>6, ParserUndisturbed
<1> QED
  BY <1>5, <1>7, <1>8, <1>9, <1>10, <1>11, <1>12, TypePartsNext DEF ParserInv, LogInv

-----------------------------------------------------------------------------
(* The parser.  Its steps leave the log alone. *)

LEMMA LogAlone == TypeLog /\ LogInv /\ UNCHANGED log => TypeLog' /\ LogInv'
<1> SUFFICES ASSUME TypeLog, LogInv, UNCHANGED log PROVE TypeLog' /\ LogInv'
  OBVIOUS
<1>1. UNCHANGED <<files, linked, written>>
  BY DEF log
<1> QED
  BY <1>1 DEF TypeLog, LogInv, RoomToReopen, Begun, Paired, LinesAscend, FilesAscend, Pieces

(* Boot finds no row of its own; a crash takes the parser with it. *)
LEMMA ProcessInv == ParserInv /\ (Boot \/ Crash) => ParserInv'
<1> SUFFICES ASSUME ParserInv, Boot \/ Crash
             PROVE  ParserInv'
  OBVIOUS
<1> USE BoundsAssumption
<1>0. TypeLog /\ TypeParser /\ TypeHistory /\ LogInv /\ Placed /\ InOrderOnce /\ Accounted
  BY TypeParts DEF ParserInv
<1>1. TypeLog' /\ LogInv'
  BY <1>0, LogAlone DEF Boot, Crash
<1>2. rows' = rows /\ rows \in Seq(1..MaxLines) /\ Len(rows) \in Nat /\ files' = files
  BY <1>0 DEF Boot, Crash, TypeHistory, log
<1>3. fd' = 0 /\ pos' = 0 /\ scan' = "closed"
  BY <1>0 DEF Boot, Crash, Placed
<1>4. TypeParser'
  <2>1. fd' \in 0..Len(files') /\ pos' \in 0..(IF fd' = 0 THEN 0 ELSE Len(files'[fd']))
    BY <1>0, <1>2, <1>3 DEF TypeLog
  <2>2. up' \in BOOLEAN /\ logPath' \in BOOLEAN /\ carry' \in BOOLEAN
    <3>1. CASE Boot
      BY <1>0, <3>1, Zenon DEF Boot, TypeParser, TypeLog
    <3>2. CASE Crash
      BY <3>2, Zenon DEF Crash
    <3> QED BY <3>1, <3>2
  <2>3. lastOffset' \in Nat
    BY <1>0 DEF Boot, Crash, TypeParser
  <2> QED BY <1>3, <2>1, <2>2, <2>3 DEF TypeParser
<1>5. TypeHistory'
  <2>1. crashes' \in 0..MaxCrashes /\ faults' \in 0..MaxFaults /\ base' \in 0..Len(rows)
    BY <1>0, <1>2, SMTT(30) DEF Boot, Crash, TypeHistory
  <2>2. lost' \subseteq 1..MaxLines
    BY <1>0 DEF Boot, Crash, TypeHistory
  <2> QED BY <1>2, <2>1, <2>2 DEF TypeHistory
<1>6. Placed'
  <2>1. carry' = FALSE
    BY <1>0, <1>3 DEF Boot, Crash, Placed, TypeParser
  <2>2. lastOffset' = pos'
    BY <1>0, <1>3 DEF Boot, Crash, Placed
  <2> QED BY <1>3, <2>1, <2>2 DEF Placed
<1>7. RowsPassed' /\ InOrderOnce'
  <2>1. CASE Boot
    <3>1. base' = Len(rows)
      BY <2>1 DEF Boot
    <3>2. base'+1..Len(rows') = {}
      BY <1>2, <3>1
    <3> QED BY <3>2 DEF RowsPassed, InOrderOnce
  <2>2. CASE Crash
    BY <1>0, <2>2 DEF Crash, RowsPassed, InOrderOnce
  <2> QED BY <2>1, <2>2
<1>8. Accounted'
  BY <1>3 DEF Accounted
<1> QED BY <1>1, <1>4, <1>5, <1>6, <1>7, <1>8, TypePartsNext DEF ParserInv

(* Where an open file is read. *)
LEMMA Reading ==
  ASSUME TypeLog, TypeParser, fd # 0
  PROVE  /\ fd \in 1..Len(files) /\ pos \in 0..Len(files[fd]) /\ pos \in Nat
         /\ files[fd] \in Seq(Piece) /\ Len(files[fd]) \in Nat
<1>1. fd \in 1..Len(files) /\ pos \in 0..Len(files[fd])
  BY DEF TypeLog, TypeParser
<1> QED BY <1>1, PiecesTyped

(* A file that was read before goes on where it was left; the lines of a    *)
(* new one are all later than what was recorded, wherever it is entered.    *)
LEMMA ParseOpenInv == ParserInv /\ ParseOpen => ParserInv'
<1> SUFFICES ASSUME ParserInv, ParseOpen
             PROVE  ParserInv'
  OBVIOUS
<1> USE BoundsAssumption
<1>0. TypeLog /\ TypeParser /\ TypeHistory /\ LogInv /\ Placed /\ RowsPassed /\ InOrderOnce
      /\ Accounted
  BY TypeParts DEF ParserInv
<1>1. /\ UNCHANGED <<log, up, logPath, carry, rows, base, crashes, faults>> /\ up
      /\ scan = "closed" /\ scan' = "reading" /\ fd' = Len(files)
      /\ files' = files /\ written' = written
  BY DEF ParseOpen, log
<1>2. PICK n \in 1..MaxFiles : n = Len(files)
  BY <1>0 DEF TypeLog
<1>3. Newest = files[n] /\ files[n] \in Seq(Piece) /\ Len(files[n]) \in Nat
  BY <1>0, <1>2, PiecesTyped DEF Newest
<1>4. lastOffset = pos /\ pos \in Nat /\ ~carry /\ carry \in BOOLEAN
  BY <1>0, <1>1 DEF Placed, TypeParser
<1>5. PICK off \in 0..Len(files[n]) : /\ off = StartAt(Len(Newest))
                                      /\ lastOffset' = off /\ pos' = off
                                      /\ fd = n => off = pos
  <2>1. StartAt(Len(Newest)) \in 0..Len(files[n])
    BY <1>3, <1>4 DEF StartAt
  <2>2. lastOffset' = StartAt(Len(Newest)) /\ pos' = StartAt(Len(Newest))
    BY DEF ParseOpen
  <2>3. fd = n => pos \in 0..Len(files[n])
    BY <1>0, Reading
  <2>4. fd = n => StartAt(Len(Newest)) = pos
    BY <1>3, <1>4, <2>3 DEF StartAt
  <2> QED BY <2>1, <2>2, <2>4
<1>6. lost' = IF fd = n THEN lost ELSE lost \cup (SSHLines(files[n], off) \ Recorded)
  BY <1>2, <1>3, <1>5 DEF ParseOpen
<1>7. \A q \in 1..off : q \in Pieces(n) /\ q \in DOMAIN files[n] /\ files[n][q].line \in 1..MaxLines
  <2>1. DOMAIN files[n] = Pieces(n) /\ \A q \in 1..off : q \in Pieces(n)
    BY <1>3 DEF Pieces
  <2> QED BY <1>0, <1>2, <2>1, PiecesTyped
<1>8. SSHLines(files[n], off) \subseteq 1..MaxLines
      /\ \A q \in 1..off : files[n][q].ssh => files[n][q].line \in SSHLines(files[n], off)
  <2>1. \A q \in DOMAIN files[n] : q <= off => q \in 1..off
    BY <1>3
  <2>2. SSHLines(files[n], off) \subseteq 1..MaxLines
    BY <1>7, <2>1 DEF SSHLines
  <2>3. \A q \in 1..off : q <= off
    OBVIOUS
  <2> QED BY <1>7, <2>2, <2>3 DEF SSHLines
<1>9. TypeLog' /\ LogInv'
  BY <1>0, <1>1, LogAlone
<1>10. TypeParser'
  <2>1. fd' = n /\ n # 0 /\ fd' \in 0..Len(files') /\ files'[fd'] = files[n]
    BY <1>1, <1>2
  <2>2. pos' \in 0..(IF fd' = 0 THEN 0 ELSE Len(files'[fd'])) /\ lastOffset' \in Nat
    BY <1>5, <2>1
  <2>3. up' \in BOOLEAN /\ logPath' \in BOOLEAN /\ carry' \in BOOLEAN
    BY <1>0, <1>1, Zenon DEF TypeParser
  <2> QED BY <1>1, <2>1, <2>2, <2>3 DEF TypeParser
<1>11. TypeHistory'
  BY <1>0, <1>1, <1>6, <1>8 DEF TypeHistory
<1>12. Placed'
  BY <1>1, <1>2, <1>4 DEF Placed
<1>13. RowsPassed'
  <2> SUFFICES ASSUME NEW i \in base+1..Len(rows)
               PROVE  Passed(rows[i])'
    BY <1>1 DEF RowsPassed
  <2>1. PICK x \in 1..MaxLines : x = rows[i]
    BY <1>0, RowsAreLines
  <2>2. Passed(x)
    BY <1>0, <1>1, <2>1 DEF RowsPassed
  <2>3. fd \in 1..n
    BY <1>0, <1>2, <2>2 DEF Passed, TypeParser
  <2>4. CASE fd = n
    <3>1. UNCHANGED <<fd, pos, carry, files, written>>
      BY <1>1, <1>2, <1>5, <2>4
    <3> QED BY <1>1, <2>1, <2>2, <3>1, SMTT(30) DEF Passed, Pieces
  <2>5. CASE fd # n
    <3>1. n \in fd+1..Len(files)
      BY <1>2, <2>3, <2>5
    <3>2. \A q \in Pieces(n) : x < files[n][q].line
      BY <2>2, <3>1 DEF Passed
    <3>3. fd' = n /\ n > 0 /\ n+1..Len(files) = {}
      BY <1>1, <1>2
    <3>4. x <= written
      BY <2>2 DEF Passed
    <3> QED BY <1>1, <2>1, <3>2, <3>3, <3>4 DEF Passed, Pieces
  <2> QED BY <2>4, <2>5
<1>14. InOrderOnce'
  BY <1>0, <1>1 DEF InOrderOnce
<1>15. Accounted'
  <2>1. Recorded' = Recorded
    BY <1>1 DEF Recorded
  <2>2. CASE fd = n
    BY <1>0, <1>1, <1>2, <1>4, <1>5, <1>6, <2>1, <2>2 DEF Accounted
  <2>3. CASE fd # n
    BY <1>1, <1>2, <1>5, <1>6, <1>8, <2>1, <2>3 DEF Accounted
  <2> QED BY <2>2, <2>3
<1> QED
  BY <1>9, <1>10, <1>11, <1>12, <1>13, <1>14, <1>15, TypePartsNext DEF ParserInv

(* What the body of the loop leaves behind of the piece it was given. *)
LEMMA Ingesting ==
  ASSUME TypeHistory, NEW token \in {"line", "front", "rest"}, NEW piece \in Piece,
         Ingest(token, piece), UNCHANGED <<base, crashes>>
  PROVE  /\ TypeHistory'
         /\ rows' = rows \/ (rows' = Append(rows, piece.line) /\ token # "rest")
         /\ Recorded \cup lost \subseteq Recorded' \cup lost'
         /\ piece.ssh => piece.line \in Recorded' \cup lost'
<1> USE BoundsAssumption
<1>1. PICK x \in 1..MaxLines : x = piece.line
  BY DEF Piece
<1>2. rows \in Seq(1..MaxLines) /\ Len(rows) \in Nat /\ base \in 0..Len(rows) /\ base' = base
      /\ lost \subseteq 1..MaxLines /\ crashes' \in 0..MaxCrashes /\ faults \in 0..MaxFaults
  BY DEF TypeHistory
<1>3. ASSUME rows' = rows, faults' \in 0..MaxFaults, lost' \subseteq 1..MaxLines,
             lost \subseteq lost', piece.ssh => x \in Recorded \cup lost'
      PROVE  /\ TypeHistory' /\ Recorded \cup lost \subseteq Recorded' \cup lost'
             /\ piece.ssh => piece.line \in Recorded' \cup lost'
  <2>1. Recorded' = Recorded
    BY <1>2, <1>3 DEF Recorded
  <2>2. TypeHistory'
    BY <1>2, <1>3 DEF TypeHistory
  <2> QED BY <1>1, <1>3, <2>1, <2>2
<1>4. CASE TRUE \in ParseAuthLogLine(token, piece.ssh) /\ InsertSSHEvent(piece.line)
  <2>1. token # "rest"
    BY <1>4 DEF ParseAuthLogLine
  <2>2. CASE rows' = Append(rows, piece.line) /\ UNCHANGED <<lost, faults>>
    <3>1. rows' \in Seq(1..MaxLines) /\ Len(rows') = Len(rows) + 1
          /\ rows'[Len(rows) + 1] = x /\ \A i \in 1..Len(rows) : rows'[i] = rows[i]
      <4>1. ASSUME NEW S, NEW s \in Seq(S), NEW e \in S
            PROVE  /\ Append(s, e) \in Seq(S) /\ Len(Append(s, e)) = Len(s) + 1
                   /\ \A k \in 1..Len(s) : Append(s, e)[k] = s[k]
                   /\ Append(s, e)[Len(s) + 1] = e
        BY <4>1
      <4> QED BY <1>1, <1>2, <2>2, <4>1
    <3>2. base \in 0..Len(rows') /\ Len(rows) + 1 \in base+1..Len(rows')
      BY <1>2, <3>1
    <3>3. \A i \in base+1..Len(rows) : i \in base+1..Len(rows') /\ rows'[i] = rows[i]
      BY <1>2, <3>1
    <3>4. Recorded \subseteq Recorded' /\ x \in Recorded'
      BY <1>2, <3>1, <3>2, <3>3 DEF Recorded
    <3>5. TypeHistory'
      BY <1>2, <2>2, <3>1, <3>2 DEF TypeHistory
    <3> QED BY <1>1, <2>1, <2>2, <3>4, <3>5
  <2>3. CASE faults < MaxFaults /\ faults' = faults + 1 /\ lost' = lost \cup {piece.line}
             /\ UNCHANGED rows
    <3>1. faults' \in 0..MaxFaults
      BY <1>2, <2>3
    <3> QED BY <1>1, <1>2, <1>3, <2>3, <3>1
  <2> QED BY <1>4, <2>2, <2>3 DEF InsertSSHEvent
<1>5. CASE lost' = (IF piece.ssh THEN lost \cup ({piece.line} \ Recorded) ELSE lost)
           /\ UNCHANGED <<rows, faults>>
  BY <1>1, <1>2, <1>3, <1>5
<1> QED BY <1>4, <1>5 DEF Ingest

(* A row is added behind rows of earlier lines, or none is added. *)
LEMMA RowsGrow ==
  ASSUME TypeHistory, InOrderOnce, UNCHANGED base, NEW y \in 1..MaxLines,
         \/ rows' = rows
         \/ rows' = Append(rows, y) /\ \A i \in base+1..Len(rows) : rows[i] < y
  PROVE  /\ InOrderOnce'
         /\ \A i \in base'+1..Len(rows') :
              \/ i \in base+1..Len(rows) /\ rows'[i] = rows[i]
              \/ rows' = Append(rows, y) /\ rows'[i] = y
<1> USE BoundsAssumption
<1>1. rows \in Seq(1..MaxLines) /\ Len(rows) \in Nat /\ base \in 0..Len(rows) /\ base' = base
  BY DEF TypeHistory
<1>2. CASE rows' = rows
  BY <1>1, <1>2 DEF InOrderOnce
<1>3. CASE rows' = Append(rows, y) /\ \A i \in base+1..Len(rows) : rows[i] < y
  <2>1. Len(rows') = Len(rows) + 1 /\ rows'[Len(rows) + 1] = y
        /\ \A i \in 1..Len(rows) : rows'[i] = rows[i]
    <3>1. ASSUME NEW S, NEW s \in Seq(S), NEW e \in S
          PROVE  /\ Len(Append(s, e)) = Len(s) + 1
                 /\ \A k \in 1..Len(s) : Append(s, e)[k] = s[k]
                 /\ Append(s, e)[Len(s) + 1] = e
      BY <3>1
    <3> QED BY <1>1, <1>3, <3>1
  <2>2. \A i \in base+1..Len(rows') : \/ i \in base+1..Len(rows) /\ rows'[i] = rows[i]
                                      \/ i = Len(rows) + 1 /\ rows'[i] = y
    BY <1>1, <2>1, SMTT(30)
  <2>3. ASSUME NEW i \in base+1..Len(rows'), NEW j \in base+1..Len(rows'), i < j
        PROVE  rows'[i] < rows'[j]
    <3>1. i \in base+1..Len(rows) /\ rows'[i] = rows[i]
      BY <1>1, <2>1, <2>2, <2>3
    <3>2. CASE j \in base+1..Len(rows) /\ rows'[j] = rows[j]
      BY <2>3, <3>1, <3>2 DEF InOrderOnce
    <3>3. CASE rows'[j] = y
      BY <1>3, <3>1, <3>3
    <3> QED BY <2>2, <3>2, <3>3
  <2> QED BY <1>1, <1>3, <2>2, <2>3 DEF InOrderOnce
<1> QED BY <1>2, <1>3

(* Reading on, over a front that is then held or to the end of a line,      *)
(* keeps what was recorded behind the reader.                               *)
LEMMA PassedOn ==
  ASSUME TypeLog, TypeParser, NEW x \in 1..MaxLines, Passed(x),
         UNCHANGED <<files, written, fd>>, pos' = pos + 1,
         carry' => files[fd][pos + 1].part = "front"
  PROVE  Passed(x)'
<1>1. fd \in 1..Len(files) /\ pos \in Nat
  BY Reading DEF Passed
<1>2. ASSUME NEW q \in Pieces(fd), q > pos' \/ (q = pos' /\ carry')
      PROVE  x < files[fd][q].line
  <2>1. q \in Nat /\ q > pos
    BY <1>1, <1>2, Reading DEF Pieces
  <2>2. q = pos + 1 => carry'
    BY <1>1, <1>2, <2>1
  <2> QED BY <1>1, <2>1, <2>2 DEF Passed
<1> QED BY <1>1, <1>2 DEF Passed, Pieces

LEMMA ScanFrontInv == ParserInv /\ ScanFront => ParserInv'
<1> SUFFICES ASSUME ParserInv, ScanFront
             PROVE  ParserInv'
  OBVIOUS
<1> USE BoundsAssumption
<1>0. TypeLog /\ TypeParser /\ TypeHistory /\ LogInv /\ Placed /\ RowsPassed /\ InOrderOnce
      /\ Accounted
  BY TypeParts DEF ParserInv
<1>1. /\ UNCHANGED <<log, up, logPath, lastOffset, scan, fd, rows, base, lost, crashes, faults>>
      /\ UNCHANGED <<files, written>> /\ scan = "reading" /\ carry' = TRUE /\ pos' = pos + 1
      /\ pos < Len(files[fd]) /\ files[fd][pos + 1].part = "front"
  BY DEF ScanFront, log
<1>2. fd # 0 /\ up
  BY <1>0, <1>1 DEF TypeParser, Placed
<1>3. fd \in 1..Len(files) /\ pos \in Nat /\ Len(files[fd]) \in Nat /\ pos + 1 \in Pieces(fd)
  BY <1>0, <1>1, <1>2, Reading DEF Pieces
(* Two fronts never follow one another. *)
<1>4. ~carry
  <2> SUFFICES ASSUME carry PROVE FALSE
    OBVIOUS
  <2>1. pos \in Pieces(fd) /\ files[fd][pos].part = "front"
    BY <1>0, <1>3 DEF Placed, Pieces
  <2> QED BY <1>0, <1>1, <1>3, <2>1 DEF LogInv, Paired
<1>5. TypeLog' /\ LogInv'
  BY <1>0, <1>1, LogAlone
<1>6. TypeParser'
  <2>1. pos' \in 0..(IF fd' = 0 THEN 0 ELSE Len(files'[fd'])) /\ fd' \in 0..Len(files')
    BY <1>0, <1>1, <1>2, <1>3 DEF TypeLog
  <2>2. up' \in BOOLEAN /\ logPath' \in BOOLEAN /\ carry' \in BOOLEAN
    BY <1>0, <1>1, Zenon DEF TypeParser
  <2> QED BY <1>0, <1>1, <1>2, <2>1, <2>2 DEF TypeParser
<1>7. TypeHistory'
  BY <1>0, <1>1 DEF TypeHistory
<1>8. Placed'
  BY <1>1, <1>2, <1>3 DEF Placed
<1>9. RowsPassed'
  <2> SUFFICES ASSUME NEW i \in base+1..Len(rows)
               PROVE  Passed(rows[i])'
    BY <1>1 DEF RowsPassed
  <2>1. PICK x \in 1..MaxLines : x = rows[i]
    BY <1>0, RowsAreLines
  <2>2. Passed(x)'
    BY <1>0, <1>1, <1>2, <2>1, PassedOn DEF RowsPassed
  <2> QED BY <1>1, <2>1, <2>2 DEF Passed, Pieces
<1>10. InOrderOnce'
  BY <1>0, <1>1 DEF InOrderOnce
<1>11. Accounted'
  <2>1. Recorded' = Recorded
    BY <1>1 DEF Recorded
  <2>2. \A q \in 1..pos' : q \in 1..pos \/ q = pos'
    BY <1>1, <1>3
  <2> QED BY <1>0, <1>1, <1>2, <1>4, <2>1, <2>2 DEF Accounted
<1> QED BY <1>5, <1>6, <1>7, <1>8, <1>9, <1>10, <1>11, TypePartsNext DEF ParserInv

LEMMA ScanLineInv == ParserInv /\ ScanLine => ParserInv'
<1> SUFFICES ASSUME ParserInv, ScanLine
             PROVE  ParserInv'
  OBVIOUS
<1> USE BoundsAssumption
<1>0. TypeLog /\ TypeParser /\ TypeHistory /\ LogInv /\ Placed /\ RowsPassed /\ InOrderOnce
      /\ Accounted
  BY TypeParts DEF ParserInv
<1>1. /\ UNCHANGED <<log, up, logPath, lastOffset, scan, fd, base, crashes>>
      /\ UNCHANGED <<files, written>> /\ scan = "reading" /\ carry' = FALSE /\ pos' = pos + 1
      /\ pos < Len(files[fd]) /\ files[fd][pos + 1].part = "rest"
  BY DEF ScanLine, log
<1>2. fd # 0 /\ up
  BY <1>0, <1>1 DEF TypeParser, Placed
<1>3. fd \in 1..Len(files) /\ pos \in Nat /\ Len(files[fd]) \in Nat /\ pos + 1 \in Pieces(fd)
  BY <1>0, <1>1, <1>2, Reading DEF Pieces
<1>4. PICK piece \in Piece : piece = files[fd][pos + 1]
  BY <1>0, <1>3, PiecesTyped
<1>5. PICK y \in 1..MaxLines : y = piece.line
  BY <1>4 DEF Piece
<1>6. /\ TypeHistory'
      /\ rows' = rows \/ (rows' = Append(rows, y) /\ carry)
      /\ Recorded \cup lost \subseteq Recorded' \cup lost'
      /\ piece.ssh => y \in Recorded' \cup lost'
  <2>1. PICK token \in {"line", "rest"} : token = IF carry THEN "line" ELSE "rest"
    OBVIOUS
  <2>2. Ingest(token, piece)
    BY <1>4, <2>1 DEF ScanLine
  <2> QED BY <1>0, <1>1, <1>5, <2>1, <2>2, Ingesting
<1>7. carry => /\ pos \in Pieces(fd) /\ files[fd][pos].ssh = piece.ssh
               /\ files[fd][pos].line = y
  <2>1. carry => pos \in Pieces(fd) /\ files[fd][pos].part = "front"
    BY <1>0, <1>1, <1>3 DEF Placed, Pieces
  <2> QED BY <1>0, <1>3, <1>4, <1>5, <2>1 DEF LogInv, Paired
<1>8. carry => \A i \in base+1..Len(rows) : rows[i] < y
  <2> SUFFICES ASSUME carry, NEW i \in base+1..Len(rows) PROVE rows[i] < y
    OBVIOUS
  <2>1. Passed(rows[i])
    BY <1>0, <1>2 DEF RowsPassed
  <2> QED BY <1>3, <1>4, <1>5, <2>1 DEF Passed
<1>9. /\ InOrderOnce'
      /\ \A i \in base'+1..Len(rows') : \/ i \in base+1..Len(rows) /\ rows'[i] = rows[i]
                                        \/ rows'[i] = y
  BY <1>0, <1>1, <1>6, <1>8, RowsGrow
<1>10. TypeLog' /\ LogInv'
  BY <1>0, <1>1, LogAlone
<1>11. TypeParser'
  <2>1. pos' \in 0..(IF fd' = 0 THEN 0 ELSE Len(files'[fd'])) /\ fd' \in 0..Len(files')
    BY <1>0, <1>1, <1>2, <1>3, SMTT(30) DEF TypeLog
  <2>2. up' \in BOOLEAN /\ logPath' \in BOOLEAN /\ carry' \in BOOLEAN
    BY <1>0, <1>1, Zenon DEF TypeParser
  <2> QED BY <1>0, <1>1, <1>2, <2>1, <2>2 DEF TypeParser
<1>12. Placed'
  BY <1>1, <1>2 DEF Placed
<1>13. Passed(y)'
  <2>1. y <= written
    BY <1>0, <1>3, <1>4, <1>5 DEF LogInv, Begun
  <2>2. \A q \in Pieces(fd) : q > pos + 1 => y < files[fd][q].line
    BY <1>0, <1>1, <1>3, <1>4, <1>5 DEF LogInv, LinesAscend
  <2>3. ASSUME NEW l \in fd+1..Len(files), NEW q \in Pieces(l)
        PROVE  y < files[l][q].line
    <3>1. l \in 1..Len(files) /\ fd < l
      BY <1>0, <1>3 DEF TypeLog
    <3> QED BY <1>0, <1>3, <1>4, <1>5, <3>1 DEF LogInv, FilesAscend
  <2> QED BY <1>1, <1>3, <2>1, <2>2, <2>3 DEF Passed, Pieces
<1>14. RowsPassed'
  <2> SUFFICES ASSUME NEW i \in base'+1..Len(rows')
               PROVE  Passed(rows[i])'
    BY DEF RowsPassed
  <2>1. CASE i \in base+1..Len(rows) /\ rows'[i] = rows[i]
    <3>1. PICK x \in 1..MaxLines : x = rows[i]
      BY <1>0, <2>1, RowsAreLines
    <3>2. Passed(x)'
      BY <1>0, <1>1, <1>2, <2>1, <3>1, PassedOn DEF RowsPassed
    <3> QED BY <2>1, <3>1, <3>2 DEF Passed, Pieces
  <2>2. CASE rows'[i] = y
    BY <1>13, <2>2 DEF Passed, Pieces
  <2> QED BY <1>9, <2>1, <2>2
<1>15. Accounted'
  <2>1. \A q \in 1..pos' : q \in 1..pos \/ q = pos + 1
    BY <1>1, <1>3
  <2>2. ASSUME NEW q \in 1..pos, files[fd][q].ssh
        PROVE  files[fd][q].line \in Recorded' \cup lost'
    <3>1. files[fd][q].line \in Recorded \cup lost \/ (carry /\ q = pos)
      BY <1>0, <1>2, <2>2 DEF Accounted
    <3> QED BY <1>6, <1>7, <2>2, <3>1
  <2> QED BY <1>1, <1>4, <1>5, <1>6, <2>1, <2>2 DEF Accounted
<1> QED BY <1>6, <1>9, <1>10, <1>11, <1>12, <1>14, <1>15, TypePartsNext DEF ParserInv

LEMMA ScanEndsInv == ParserInv /\ ScanEnds => ParserInv'
<1> SUFFICES ASSUME ParserInv, ScanEnds
             PROVE  ParserInv'
  OBVIOUS
<1> USE BoundsAssumption
<1>0. TypeLog /\ TypeParser /\ TypeHistory /\ LogInv /\ Placed /\ RowsPassed /\ InOrderOnce
      /\ Accounted
  BY TypeParts DEF ParserInv
<1>1. /\ UNCHANGED <<log, up, logPath, lastOffset, fd, pos, base, crashes>>
      /\ UNCHANGED <<files, written>> /\ scan = "reading" /\ scan' = "eof" /\ carry' = FALSE
      /\ pos >= Len(files[fd])
  BY DEF ScanEnds, log
<1>2. fd # 0 /\ up
  BY <1>0, <1>1 DEF TypeParser, Placed
<1>3. fd \in 1..Len(files) /\ pos \in Nat /\ pos = Len(files[fd])
  BY <1>0, <1>1, <1>2, Reading
<1>4. TypeLog' /\ LogInv'
  BY <1>0, <1>1, LogAlone
<1>5. TypeParser'
  <2>1. pos' \in 0..(IF fd' = 0 THEN 0 ELSE Len(files'[fd'])) /\ fd' \in 0..Len(files')
    BY <1>0, <1>1, <1>2, <1>3 DEF TypeLog
  <2>2. up' \in BOOLEAN /\ logPath' \in BOOLEAN /\ carry' \in BOOLEAN
    BY <1>0, <1>1, Zenon DEF TypeParser
  <2> QED BY <1>0, <1>1, <1>2, <2>1, <2>2 DEF TypeParser
<1>6. Placed'
  BY <1>1, <1>2 DEF Placed
(* Nothing is left in this file. *)
<1>7. ASSUME NEW x \in 1..MaxLines, x <= written,
             \A l \in fd+1..Len(files) : \A q \in Pieces(l) : x < files[l][q].line
      PROVE  Passed(x)'
  <2>1. \A q \in Pieces(fd) : ~(q > pos)
    BY <1>3 DEF Pieces
  <2> QED BY <1>1, <1>3, <1>7, <2>1 DEF Passed, Pieces
<1>8. ASSUME NEW i \in base+1..Len(rows), rows'[i] = rows[i]
      PROVE  Passed(rows[i])'
  <2>1. PICK x \in 1..MaxLines : x = rows[i]
    BY <1>0, RowsAreLines
  <2>2. Passed(x)
    BY <1>0, <1>2, <2>1 DEF RowsPassed
  <2>3. Passed(x)'
    BY <1>7, <2>2 DEF Passed
  <2> QED BY <1>8, <2>1, <2>3 DEF Passed, Pieces
<1>9. CASE ~carry
  <2>1. UNCHANGED <<rows, lost, faults>>
    BY <1>9 DEF ScanEnds
  <2>2. TypeHistory' /\ InOrderOnce'
    BY <1>0, <1>1, <2>1 DEF TypeHistory, InOrderOnce
  <2>3. RowsPassed'
    BY <1>1, <1>8, <2>1 DEF RowsPassed
  <2>4. Accounted'
    BY <1>0, <1>1, <1>9, <2>1 DEF Accounted, Recorded
  <2> QED BY <1>4, <1>5, <1>6, <2>2, <2>3, <2>4, TypePartsNext DEF ParserInv
<1>10. CASE carry
  <2>1. pos \in Pieces(fd)
    BY <1>0, <1>3, <1>10 DEF Placed, Pieces
  <2>2. PICK piece \in Piece : piece = files[fd][pos]
    BY <1>0, <1>3, <2>1, PiecesTyped
  <2>3. PICK y \in 1..MaxLines : y = piece.line
    BY <2>2 DEF Piece
  <2>4. /\ TypeHistory'
        /\ rows' = rows \/ rows' = Append(rows, y)
        /\ Recorded \cup lost \subseteq Recorded' \cup lost'
        /\ piece.ssh => y \in Recorded' \cup lost'
    <3>1. PICK token \in {"front"} : token = "front"
      OBVIOUS
    <3>2. Ingest(token, piece)
      BY <1>10, <2>2, <3>1 DEF ScanEnds
    <3> QED BY <1>0, <1>1, <2>3, <3>1, <3>2, Ingesting
  <2>5. \A i \in base+1..Len(rows) : rows[i] < y
    <3> SUFFICES ASSUME NEW i \in base+1..Len(rows) PROVE rows[i] < y
      OBVIOUS
    <3>1. Passed(rows[i])
      BY <1>0, <1>2 DEF RowsPassed
    <3> QED BY <1>3, <1>10, <2>1, <2>2, <2>3, <3>1 DEF Passed
  <2>6. /\ InOrderOnce'
        /\ \A i \in base'+1..Len(rows') : \/ i \in base+1..Len(rows) /\ rows'[i] = rows[i]
                                          \/ rows'[i] = y
    BY <1>0, <1>1, <2>4, <2>5, RowsGrow
  <2>7. Passed(y)'
    <3>1. y <= written
      BY <1>0, <1>3, <2>1, <2>2, <2>3 DEF LogInv, Begun
    <3>2. ASSUME NEW l \in fd+1..Len(files), NEW q \in Pieces(l)
          PROVE  y < files[l][q].line
      <4>1. l \in 1..Len(files) /\ fd < l
        BY <1>0, <1>3 DEF TypeLog
      <4> QED BY <1>0, <1>3, <2>1, <2>2, <2>3, <4>1 DEF LogInv, FilesAscend
    <3> QED BY <1>7, <3>1, <3>2
  <2>8. RowsPassed'
    <3> SUFFICES ASSUME NEW i \in base'+1..Len(rows')
                 PROVE  Passed(rows[i])'
      BY DEF RowsPassed
    <3>1. CASE rows'[i] = y
      BY <2>7, <3>1 DEF Passed, Pieces
    <3> QED BY <1>8, <2>6, <3>1
  <2>9. Accounted'
    <3>1. ASSUME NEW q \in 1..pos, files[fd][q].ssh
          PROVE  files[fd][q].line \in Recorded' \cup lost'
      <4>1. files[fd][q].line \in Recorded \cup lost \/ q = pos
        BY <1>0, <1>2, <3>1 DEF Accounted
      <4> QED BY <2>2, <2>3, <2>4, <3>1, <4>1
    <3> QED BY <1>1, <3>1 DEF Accounted
  <2> QED BY <1>4, <1>5, <1>6, <2>4, <2>6, <2>8, <2>9, TypePartsNext DEF ParserInv
<1> QED BY <1>9, <1>10

LEMMA ParseDoneInv == ParserInv /\ ParseDone => ParserInv'
<1> SUFFICES ASSUME ParserInv, ParseDone
             PROVE  ParserInv'
  OBVIOUS
<1> USE BoundsAssumption
<1>0. TypeLog /\ TypeParser /\ TypeHistory /\ LogInv /\ Placed /\ RowsPassed /\ InOrderOnce
      /\ Accounted
  BY TypeParts DEF ParserInv
<1>1. /\ UNCHANGED <<log, up, logPath, fd, pos, carry, rows, base, lost, crashes, faults>>
      /\ UNCHANGED <<files, written>> /\ scan = "eof" /\ scan' = "closed" /\ lastOffset' = pos
  BY DEF ParseDone, log
<1>2. fd # 0 /\ up /\ ~carry
  BY <1>0, <1>1 DEF TypeParser, Placed
<1>3. pos \in Nat
  BY <1>0, <1>2, Reading
<1>4. TypeLog' /\ LogInv'
  BY <1>0, <1>1, LogAlone
<1>5. TypeParser'
  BY <1>0, <1>1, <1>3 DEF TypeParser
<1>6. TypeHistory' /\ InOrderOnce'
  BY <1>0, <1>1 DEF TypeHistory, InOrderOnce
<1>7. Placed'
  BY <1>1, <1>2, <1>3 DEF Placed
<1>8. RowsPassed'
  BY <1>0, <1>1 DEF RowsPassed, Passed, Pieces
<1>9. Accounted'
  BY <1>0, <1>1 DEF Accounted, Recorded
<1> QED BY <1>4, <1>5, <1>6, <1>7, <1>8, <1>9, TypePartsNext DEF ParserInv

LEMMA StutterInv == ParserInv /\ UNCHANGED vars => ParserInv'
<1> SUFFICES ASSUME ParserInv, UNCHANGED vars
             PROVE  ParserInv'
  OBVIOUS
<1> USE BoundsAssumption DEF vars, log, parser
<1>1. TypeOK'
  BY DEF ParserInv, TypeOK
<1>2. LogInv'
  BY LogAlone, TypeParts DEF ParserInv
<1>3. Placed' /\ Accounted' /\ InOrderOnce'
  BY DEF ParserInv, Placed, Accounted, InOrderOnce, Recorded
<1>4. RowsPassed'
  BY DEF ParserInv, RowsPassed, Passed, Pieces
<1> QED BY <1>1, <1>2, <1>3, <1>4 DEF ParserInv

LEMMA InvHolds == Spec => []ParserInv
<1>1. ParserInv /\ [Next]_vars => ParserInv'
  <2> SUFFICES ASSUME ParserInv, [Next]_vars
               PROVE  ParserInv'
    OBVIOUS
  <2>1. CASE UNCHANGED vars \/ ParseReturns
    BY <2>1, StutterInv DEF ParseReturns
  <2>2. CASE Parse
    BY <2>1, <2>2, ParseOpenInv, ScanFrontInv, ScanLineInv, ScanEndsInv, ParseDoneInv DEF Parse
  <2>3. CASE (\E ssh \in BOOLEAN : WriteLine(ssh)) \/ WriteRest \/ Rename \/ Reopen
    BY <2>3, WriteLineInv, WriteRestInv, RotateInv
  <2>4. CASE Boot \/ Crash
    BY <2>4, ProcessInv
  <2> QED BY <2>1, <2>2, <2>3, <2>4 DEF Next
<1> QED BY <1>1, InitInv, PTL DEF Spec

-----------------------------------------------------------------------------
(* The parser is always within the file it has open, and holds the front of  *)
(* a line only where there is one, through rotations, crashes and growth of  *)
(* the log at every step.                                                    *)
THEOREM TypeCorrect == Spec => []TypeOK
<1>1. ParserInv => TypeOK
  BY DEF ParserInv
<1> QED BY <1>1, InvHolds, PTL

(* While the server runs no line of the log is recorded twice or behind a    *)
(* later one: for any number of lines, half-written ones that come as two    *)
(* tokens included, and of rotations between and during the calls of parse.  *)
THEOREM InOrderOnceHolds == Spec => []InOrderOnce
<1>1. ParserInv => InOrderOnce
  BY DEF ParserInv
<1> QED BY <1>1, InvHolds, PTL

(* Every SSH line the remembered offset has passed was recorded or is one    *)
(* the code gives up for a reason that is known: none is jumped because the  *)
(* log grew between the last read and the end of parse.                      *)
THEOREM NothingSkippedHolds == Spec => []NothingSkipped
<1>1. ParserInv => NothingSkipped
  <2> SUFFICES ASSUME ParserInv, fd # 0,
                      NEW x \in SSHLines(files[fd], IF scan = "closed" THEN lastOffset ELSE pos)
               PROVE  x \in Recorded \cup lost \cup (IF carry THEN {files[fd][pos].line} ELSE {})
    BY DEF NothingSkipped
  <2>0. TypeLog /\ TypeParser /\ Placed /\ Accounted
    BY TypeParts DEF ParserInv
  <2>1. (IF scan = "closed" THEN lastOffset ELSE pos) = pos
    BY <2>0 DEF Placed
  <2>2. PICK q \in DOMAIN files[fd] : q <= pos /\ files[fd][q].ssh /\ x = files[fd][q].line
    BY <2>1 DEF SSHLines
  <2>3. q \in 1..pos
    BY <2>0, <2>2, Reading
  <2>4. x \in Recorded \cup lost \/ (carry /\ q = pos)
    BY <2>0, <2>2, <2>3 DEF Accounted
  <2> QED BY <2>2, <2>4
<1> QED BY <1>1, InvHolds, PTL
=============================================================================
