---------------------------- MODULE ProtocolLog ----------------------------
(***************************************************************************)
(* The log of the commands on the main screen: Logger.java.  A thread for  *)
(* each command appends the text it reads, in pieces that end anywhere in  *)
(* a line, under a lock; the list holds the newest lines, and the last of  *)
(* them is taken out again when the next piece goes on with it.  The       *)
(* button that clears the list and the screen that is shown again do not   *)
(* take the lock.  Timestamps, the log file and the screen are left out.   *)
(***************************************************************************)
EXTENDS Naturals, Sequences, SequencesExt

CONSTANTS
  NL,        \* the end of a line
  Char,      \* the other characters
  MaxLines,  \* PrefStore.getMaxLines()
  MaxPiece,  \* bound: the characters of a piece
  MaxText    \* bound: the characters written

\* At 1 the log loses the line that it joins; 0 keeps nothing.
ASSUME ProtocolLogAssumption ==
  /\ NL \notin Char
  /\ MaxLines \in Nat \ {0, 1}
  /\ MaxPiece \in Nat \ {0} /\ MaxText \in Nat

VARIABLES
  protocol,     \* the lines, the oldest first
  lastCharIsNL, \* lastChar = '\n'
  lastLine,
  step,         \* of the thread that has the lock; "free" when none has
  out,          \* the text it adds
  lines,        \* the lines it has still to add
  i,            \* how many it has added
  protocolSize, \* what it read at its start
  written,      \* history: the text since the list was last cleared
  disturbed,    \* history: that was in the middle of appendMessage()
  crashed,      \* an exception that nobody catches ended the process
  total         \* the characters written

locals == <<out, lines, i, protocolSize>>
tail == <<lastCharIsNL, lastLine>>
history == <<written, disturbed, total>>
logVars == <<protocol, tail, step, locals, history, crashed>>

Null == <<"null">>

LogTypeOK ==
  /\ protocol \in Seq(Seq(Char) \cup {Null}) /\ Len(protocol) <= MaxLines + 1
  /\ lastCharIsNL \in BOOLEAN
  /\ lastLine \in Seq(Char)
  /\ step \in {"free", "join", "add", "trim", "show"}
  /\ out \in Seq(Char \cup {NL})
  /\ lines \in Seq(Seq(Char))
  /\ i \in 0 .. MaxText
  /\ protocolSize \in 0 .. MaxLines
  /\ written \in Seq(Char \cup {NL})
  /\ disturbed \in BOOLEAN /\ crashed \in BOOLEAN
  /\ total \in 0 .. MaxText

LogInit ==
  /\ protocol = <<>>
  /\ lastCharIsNL = TRUE /\ lastLine = <<>>
  /\ step = "free"
  /\ out = <<>> /\ lines = <<>> /\ i = 0 /\ protocolSize = 0
  /\ written = <<>> /\ disturbed = FALSE /\ crashed = FALSE
  /\ total = 0

\* The lines ls with one more character: it ends the last line or goes on with it.
Put(ls, c) ==
  IF c = NL THEN Append(ls, <<>>) ELSE [ls EXCEPT ![Len(ls)] = Append(@, c)]

\* The pieces between the line ends.
Pieces(text) ==
  LET p[n \in 0 .. Len(text)] == IF n = 0 THEN << <<>> >> ELSE Put(p[n - 1], text[n])
  IN p[Len(text)]

\* out.split("\\n") leaves out the empty ones at the end.
Split(text) ==
  LET ls == Pieces(text)
      ends == {n \in DOMAIN ls : ls[n] # <<>>}
  IN SubSeq(ls, 1, IF ends = {} THEN 0 ELSE CHOOSE n \in ends : \A k \in ends : k <= n)

-----------------------------------------------------------------------------
(* appendMessage().                                                        *)

\* The lock is taken and the size read.
AppendMessage(msg) ==
  /\ ~crashed /\ step = "free"
  /\ total + Len(msg) <= MaxText
  /\ out' = msg
  /\ protocolSize' = Len(protocol)
  /\ step' = "join"
  /\ written' = written \o msg
  /\ total' = total + Len(msg)
  /\ UNCHANGED <<protocol, tail, lines, i, disturbed, crashed>>

\* Mutant: any last line is gone on with.
JoinAlways ==
  /\ ~crashed /\ step = "join"
  /\ LET text == (IF protocolSize > 0 THEN lastLine ELSE <<>>) \o out
     IN lines' = Split(text) /\ lastCharIsNL' = (Last(text) = NL)
  /\ protocol' = IF protocolSize > 0 /\ protocol # <<>> THEN Front(protocol) ELSE protocol
  /\ step' = "add" /\ i' = 0
  /\ UNCHANGED <<lastLine, out, protocolSize, history, crashed>>

\* The last line is taken out again when it had no end.
Join ==
  /\ ~crashed /\ step = "join"
  /\ LET goesOn == protocolSize > 0 /\ ~lastCharIsNL
         text == (IF goesOn THEN lastLine ELSE <<>>) \o out
         lost == goesOn /\ protocolSize > Len(protocol)
     IN /\ crashed' = lost
        /\ protocol' = IF goesOn /\ ~lost THEN RemoveAt(protocol, protocolSize) ELSE protocol
        /\ lines' = Split(text)
        /\ lastCharIsNL' = (Last(text) = NL)
  /\ step' = "add" /\ i' = 0
  /\ UNCHANGED <<lastLine, out, protocolSize, history>>

\* Mutant: nothing is removed.
AddUntrimmed ==
  /\ ~crashed /\ step = "add" /\ lines # <<>>
  /\ lastLine' = Head(lines)
  /\ protocol' = Append(protocol, Head(lines))
  /\ lines' = Tail(lines) /\ i' = i + 1
  /\ UNCHANGED <<lastCharIsNL, step, out, protocolSize, history, crashed>>

\* A line is added.
Add ==
  /\ ~crashed /\ step = "add" /\ lines # <<>>
  /\ lastLine' = Head(lines)
  /\ protocol' = Append(protocol, Head(lines))
  /\ lines' = Tail(lines) /\ i' = i + 1
  /\ step' = IF protocolSize + i >= MaxLines THEN "trim" ELSE "add"
  /\ UNCHANGED <<lastCharIsNL, out, protocolSize, history, crashed>>

\* protocol.remove(0), which another thread may have made empty.
Trim ==
  /\ ~crashed /\ step = "trim"
  /\ crashed' = (protocol = <<>>)
  /\ protocol' = IF protocol = <<>> THEN protocol ELSE Tail(protocol)
  /\ step' = "add"
  /\ UNCHANGED <<tail, locals, history>>

Show ==
  /\ ~crashed /\ step = "add" /\ lines = <<>>
  /\ step' = "show"
  /\ UNCHANGED <<protocol, tail, locals, history, crashed>>

\* The lock is given back; the locals go.
Shown ==
  /\ ~crashed /\ step = "show"
  /\ step' = "free"
  /\ out' = <<>> /\ i' = 0 /\ protocolSize' = 0
  /\ UNCHANGED <<protocol, tail, lines, history, crashed>>

-----------------------------------------------------------------------------
(* The main thread.                                                        *)

\* Beside an add() the new size may be lost, and then the list holds nulls;
\* beside the loop of show() it throws.
Clear ==
  /\ ~crashed
  /\ \/ protocol' = <<>>
     \/ step # "free" /\ protocol' = [n \in DOMAIN protocol |-> Null]
  /\ crashed' \in (IF step = "show" THEN BOOLEAN ELSE {FALSE})
  /\ written' = <<>>
  /\ disturbed' = (step # "free")
  /\ UNCHANGED <<tail, step, locals, total>>

\* The loop of show() throws when a line is added or removed meanwhile.
Resume ==
  /\ ~crashed
  /\ crashed' \in (IF step \in {"join", "add", "trim"} THEN BOOLEAN ELSE {FALSE})
  /\ UNCHANGED <<protocol, tail, step, locals, history>>

LogNext ==
  \/ \E msg \in BoundedSeq(Char \cup {NL}, MaxPiece) \ {<<>>} : AppendMessage(msg)
  \/ Join \/ Add \/ Trim \/ Show \/ Shown
  \/ Clear \/ Resume

LogSpec == LogInit /\ [][LogNext]_logVars

-----------------------------------------------------------------------------
NonBlank(ls) ==
  LET p[n \in 0 .. Len(ls)] ==
        IF n = 0 THEN <<>> ELSE IF ls[n] = <<>> THEN p[n - 1] ELSE Append(p[n - 1], ls[n])
  IN p[Len(ls)]

\* However the text is cut into pieces, the log holds the newest of its lines,
\* each as it was written and once, and none is dropped while there is room.
\* Blank lines are not counted: whether one is kept depends on the cut.  A
\* clear() in the middle of an append disturbs it until the next clear().
KeepsNewest ==
  step = "free" /\ ~disturbed =>
    LET kept == NonBlank(protocol)
        all == NonBlank(Pieces(written))
    IN /\ IsSuffix(kept, all)
       /\ Len(protocol) <= MaxLines
       /\ kept # all => Len(protocol) >= MaxLines - 1
=============================================================================
