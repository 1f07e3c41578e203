------------------------------- MODULE AuthLog ------------------------------
(***************************************************************************)
(* The auth log parser (internal/security/authlog.go) between the log that *)
(* sshd writes through syslog and the table ssh_events.  The collector's   *)
(* slow tick calls parse, which opens the log by its path, goes on at      *)
(* lastOffset, takes what is there line by line and remembers where it     *)
(* stopped.  Meanwhile the log grows, is rotated, and the server may crash *)
(* at any step.                                                            *)
(*                                                                         *)
(* A line of the log is two pieces, its front and its rest with the        *)
(* newline: it may be written in one go or be half written when the        *)
(* scanner meets the end of the file.  Offsets count pieces.  ssh says     *)
(* whether the line matches one of the three patterns; who logged in from  *)
(* where, and the time of the event, are left out.                         *)
(***************************************************************************)
EXTENDS Naturals, Sequences

CONSTANTS MaxLines,    \* bound on the lines written
          MaxFiles,    \* bound on the files the log is rotated through
          MaxCrashes,  \* bound on the ends of the process
          MaxFaults    \* bound on the inserts that fail

ASSUME BoundsAssumption ==
  {MaxLines, MaxFiles, MaxCrashes, MaxFaults} \subseteq Nat /\ MaxFiles > 0

VARIABLES files,       \* the files there have been, the one written to last
          linked,      \* whether the path of the log names that file
          written,     \* the number of lines begun
          up,          \* whether the server runs
          logPath,     \* whether newParser found the log
          lastOffset,  \* Parser.lastOffset
          scan,        \* parse: "closed", "reading", or "eof" behind the loop
          fd,          \* the file opened last, 0 if none since boot
          pos,         \* the offset of the open file
          carry,       \* whether the scanner holds the front of a line
          rows,        \* ssh_events: the line each row came from
          base,        \* history: the rows there were at boot
          lost,        \* history: SSH lines passed since boot without a row
          crashes, faults

log == <<files, linked, written>>
parser == <<up, logPath, lastOffset, scan, fd, pos, carry>>
vars == <<log, parser, rows, base, lost, crashes, faults>>

Piece == [line : 1..MaxLines, part : {"front", "rest"}, ssh : BOOLEAN]

Newest == files[Len(files)]

(* The SSH lines among the first n pieces of a file.                       *)
SSHLines(file, n) == {file[i].line : i \in {j \in DOMAIN file : j <= n /\ file[j].ssh}}

(* The lines recorded since boot.                                          *)
Recorded == {rows[i] : i \in base+1..Len(rows)}

Init ==
  /\ files = << <<>> >> /\ linked = TRUE /\ written = 0
  /\ up = FALSE /\ logPath = FALSE /\ lastOffset = 0
  /\ scan = "closed" /\ fd = 0 /\ pos = 0 /\ carry = FALSE
  /\ rows = <<>> /\ base = 0 /\ lost = {}
  /\ crashes = 0 /\ faults = 0

-----------------------------------------------------------------------------
(* sshd, syslog and logrotate.  Syslog keeps its file open when logrotate  *)
(* renames it and opens a new one when told to, between two lines.         *)

HalfWritten == Newest # <<>> /\ Newest[Len(Newest)].part = "front"

Grow(pieces) == files' = [files EXCEPT ![Len(files)] = @ \o pieces]

WriteLine(ssh) ==
  /\ ~HalfWritten /\ written < MaxLines
  /\ written' = written + 1
  /\ LET part(p) == [line |-> written + 1, part |-> p, ssh |-> ssh]
     IN Grow(<<part("front"), part("rest")>>) \/ Grow(<<part("front")>>)
  /\ UNCHANGED <<linked, parser, rows, base, lost, crashes, faults>>

WriteRest ==
  /\ HalfWritten
  /\ Grow(<<[Newest[Len(Newest)] EXCEPT !.part = "rest"]>>)
  /\ UNCHANGED <<linked, written, parser, rows, base, lost, crashes, faults>>

Rename ==
  /\ linked /\ Len(files) < MaxFiles
  /\ linked' = FALSE
  /\ UNCHANGED <<files, written, parser, rows, base, lost, crashes, faults>>

Reopen ==
  /\ ~linked /\ ~HalfWritten
  /\ files' = Append(files, <<>>) /\ linked' = TRUE
  /\ UNCHANGED <<written, parser, rows, base, lost, crashes, faults>>

-----------------------------------------------------------------------------
(* The process.                                                            *)

(* NewMonitor: the log is looked for once; lastOffset starts at 0.         *)
Boot ==
  /\ ~up
  /\ up' = TRUE /\ logPath' = linked
  /\ base' = Len(rows) /\ lost' = {}
  /\ UNCHANGED <<log, lastOffset, scan, fd, pos, carry, rows, crashes, faults>>

Crash ==
  /\ up /\ crashes < MaxCrashes
  /\ crashes' = crashes + 1
  /\ up' = FALSE /\ logPath' = FALSE /\ lastOffset' = 0
  /\ scan' = "closed" /\ fd' = 0 /\ pos' = 0 /\ carry' = FALSE
  /\ UNCHANGED <<log, rows, base, lost, faults>>

(* A tick that finds no log to read: newParser found none, or the path     *)
(* names nothing just now and Open fails.  Nothing but a message comes of  *)
(* it.                                                                     *)
ParseReturns ==
  /\ up /\ scan = "closed" /\ ~(logPath /\ linked)
  /\ UNCHANGED vars

(* Mutants: a file that has not grown is taken for a new one; a new one is *)
(* not noticed.                                                            *)
StartAtUnlessGrown(size) == IF lastOffset >= size THEN 0 ELSE lastOffset
StartAtOffset(size) == lastOffset

(* Where parse goes on in a file of the given size: a file shorter than    *)
(* the offset must be a new one.                                           *)
StartAt(size) == IF lastOffset > size THEN 0 ELSE lastOffset

(* Open, Stat and Seek.                                                    *)
ParseOpen ==
  /\ up /\ logPath /\ linked /\ scan = "closed"
  /\ LET off == StartAt(Len(Newest))
     IN /\ lastOffset' = off /\ pos' = off
        /\ lost' = IF fd = Len(files) THEN lost
                   ELSE lost \cup (SSHLines(Newest, off) \ Recorded)
  /\ fd' = Len(files) /\ scan' = "reading"
  /\ UNCHANGED <<log, up, logPath, carry, rows, base, crashes, faults>>

(* What ParseAuthLogLine may say of a token: a front can hold all that a   *)
(* pattern asks for, with the port cut short, or less; a rest lacks the    *)
(* time that every pattern begins with.                                    *)
ParseAuthLogLine(token, ssh) ==
  CASE token = "line"  -> {ssh}
    [] token = "front" -> {FALSE, ssh}
    [] token = "rest"  -> {FALSE}

InsertSSHEvent(n) ==
  \/ rows' = Append(rows, n) /\ UNCHANGED <<lost, faults>>
  \/ /\ faults < MaxFaults
     /\ faults' = faults + 1 /\ lost' = lost \cup {n}
     /\ UNCHANGED rows

(* The body of the loop: an insert that fails is ignored.                  *)
Ingest(token, piece) ==
  \/ TRUE \in ParseAuthLogLine(token, piece.ssh) /\ InsertSSHEvent(piece.line)
  \/ /\ FALSE \in ParseAuthLogLine(token, piece.ssh)
     /\ lost' = IF piece.ssh THEN lost \cup ({piece.line} \ Recorded) ELSE lost
     /\ UNCHANGED <<rows, faults>>

(* The scanner reads on: to the end of a line, which is a token, or only   *)
(* over the front of one, which it holds.                                  *)
ScanFront ==
  /\ scan = "reading" /\ pos < Len(files[fd])
  /\ files[fd][pos + 1].part = "front"
  /\ pos' = pos + 1 /\ carry' = TRUE
  /\ UNCHANGED <<log, up, logPath, lastOffset, scan, fd, rows, base, lost, crashes, faults>>

ScanLine ==
  /\ scan = "reading" /\ pos < Len(files[fd])
  /\ files[fd][pos + 1].part = "rest"
  /\ Ingest(IF carry THEN "line" ELSE "rest", files[fd][pos + 1])
  /\ pos' = pos + 1 /\ carry' = FALSE
  /\ UNCHANGED <<log, up, logPath, lastOffset, scan, fd, base, crashes>>

(* At the end of the file the scanner hands out the front it holds.        *)
ScanEnds ==
  /\ scan = "reading" /\ pos >= Len(files[fd])
  /\ IF carry THEN Ingest("front", files[fd][pos]) ELSE UNCHANGED <<rows, lost, faults>>
  /\ scan' = "eof" /\ carry' = FALSE
  /\ UNCHANGED <<log, up, logPath, lastOffset, fd, pos, base, crashes>>

(* Mutant: the offset is the size of the file when parse returns.         *)
ParseDoneAtSize ==
  /\ scan = "eof"
  /\ lastOffset' = Len(files[fd]) /\ scan' = "closed"
  /\ UNCHANGED <<log, up, logPath, fd, pos, carry, rows, base, lost, crashes, faults>>

(* Seek(0, SeekCurrent): the offset of what was read, whatever has been    *)
(* written behind it since.                                                *)
ParseDone ==
  /\ scan = "eof"
  /\ lastOffset' = pos /\ scan' = "closed"
  /\ UNCHANGED <<log, up, logPath, fd, pos, carry, rows, base, lost, crashes, faults>>

Parse == ParseReturns \/ ParseOpen \/ ScanFront \/ ScanLine \/ ScanEnds \/ ParseDone

Next ==
  \/ \E ssh \in BOOLEAN : WriteLine(ssh)
  \/ WriteRest \/ Rename \/ Reopen
  \/ Boot \/ Crash
  \/ Parse

Spec == Init /\ [][Next]_vars

(* The slow tick comes again every 30 s for as long as the process runs,   *)
(* and parse waits for nobody.                                             *)
FairSpec == Spec /\ WF_vars(Parse)

-----------------------------------------------------------------------------
TypeOK ==
  /\ files \in Seq(Seq(Piece)) /\ Len(files) \in 1..MaxFiles
  /\ linked \in BOOLEAN /\ written \in 0..MaxLines
  /\ up \in BOOLEAN /\ logPath \in BOOLEAN /\ carry \in BOOLEAN
  /\ scan \in {"closed", "reading", "eof"}
  /\ fd \in 0..Len(files)
  /\ lastOffset \in Nat /\ pos \in 0..(IF fd = 0 THEN 0 ELSE Len(files[fd]))
  /\ scan # "closed" => fd # 0
  /\ rows \in Seq(1..MaxLines) /\ base \in 0..Len(rows)
  /\ lost \subseteq 1..MaxLines
  /\ crashes \in 0..MaxCrashes /\ faults \in 0..MaxFaults

(* "Parse reads new lines from the auth log since the last call"           *)
(* (authlog.go:50): while the server runs, no line is recorded twice or    *)
(* behind a later one, in spite of rotation and of half-written lines      *)
(* that come as two tokens.                                                *)
InOrderOnce ==
  \A i, j \in base+1..Len(rows) : i < j => rows[i] < rows[j]

(* Everything the offset has passed in the file read last was recorded, or *)
(* is among the lines the code gives up: cut in two by the end of the      *)
(* file, refused by the database, or jumped over because a new file had    *)
(* outgrown the offset.  Above all no line appended while parse is about   *)
(* to remember its offset falls through.                                   *)
NothingSkipped ==
  fd # 0 =>
    SSHLines(files[fd], IF scan = "closed" THEN lastOffset ELSE pos)
      \subseteq Recorded \cup lost \cup (IF carry THEN {files[fd][pos].line} ELSE {})

(* An SSH line in a log the parser watches is recorded or given up sooner  *)
(* or later, unless the server ends or the log is rotated before: after a  *)
(* rotation the offset of the old file does not keep the new one unread.   *)
WrittenIsRead ==
  \A n \in 1..MaxLines :
    (up /\ logPath /\ linked /\ n \in SSHLines(Newest, Len(Newest)))
      ~> (n \in Recorded \cup lost \/ ~up \/ ~linked)
=============================================================================
