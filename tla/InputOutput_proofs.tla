------------------------- MODULE InputOutput_proofs -------------------------
(***************************************************************************)
(* Theorems about the two ends of the program: the journal its frames are  *)
(* written to, for any number of records and reopenings, and the REST      *)
(* client its documents come from, for any number of callers and any       *)
(* bucket.  The two modules share no state.                                *)
(*                                                                         *)
(* RawJournal rests on two invariants.  A promised record stands in the    *)
(* file as one run of pieces, which no later append can separate.  And     *)
(* what the handle holds back is whole lines counted from its end, so that *)
(* a flush behind a whole line adds whole lines.                           *)
(*                                                                         *)
(* RestClient rests on one: while every request was paid for, the client's *)
(* bucket, refilled to now, holds no more than the venue's.                *)
(***************************************************************************)
EXTENDS RawJournal, RestClient, SequenceTheorems, TLAPS

-----------------------------------------------------------------------------
(* The raw frame journal.                                                  *)

\* Every promised record stands somewhere in the file, in one run of pieces; a
\* durable one stands in the part no failure can take.
PromisedStandsInFile ==
  /\ \A r \in promised : \E p \in 1..(Len(file) - 2) : HoldsLine(p, r)
  /\ \A r \in durable : \E p \in 1..(stable - 2) : HoldsLine(p, r)

JournalInv == JournalTypeOK /\ PromisedStandsInFile

-----------------------------------------------------------------------------
LEMMA LineTyping ==
  ASSUME NEW r \in RecordId
  PROVE  Line(r) \in Seq(Piece) /\ Len(Line(r)) = 3
BY DEF Line, Piece

\* The file grew, or stayed: what was in it is still where it was.
FileGrows ==
  /\ file' \in Seq(Piece)
  /\ Len(file) <= Len(file')
  /\ \A q \in 1..Len(file) : file'[q] = file[q]

LEMMA Appending ==
  ASSUME JournalTypeOK, NEW more \in Seq(Piece), file' = file \o more
  PROVE  FileGrows
<1>1. file \in Seq(Piece)
  BY DEF JournalTypeOK
<1> QED
  BY <1>1 DEF FileGrows

LEMMA PiecesOfPending ==
  ASSUME JournalTypeOK, NEW n \in 0..Len(Pending)
  PROVE  /\ Pending \in Seq(Piece)
         /\ SubSeq(Pending, 1, n) \in Seq(Piece)
         /\ SubSeq(Pending, n + 1, Len(Pending)) \in Seq(Piece)
<1>1. written + 1 \in RecordId
  BY DEF JournalTypeOK, RecordId
<1>2. Pending \in Seq(Piece)
  BY <1>1, LineTyping DEF JournalTypeOK, Pending
<1> QED
  BY <1>2

\* A line inside an unchanged prefix stays where it is.
LEMMA HeldStays ==
  ASSUME NEW n \in Nat, \A q \in 1..n : file'[q] = file[q],
         NEW r, NEW p \in 1..(n - 2), HoldsLine(p, r)
  PROVE  HoldsLine(p, r)'
<1>1. p \in 1..n /\ p + 1 \in 1..n /\ p + 2 \in 1..n
  OBVIOUS
<1>2. file'[p] = file[p] /\ file'[p + 1] = file[p + 1] /\ file'[p + 2] = file[p + 2]
  BY <1>1
<1> QED
  BY <1>2 DEF HoldsLine, Line

LEMMA GrowingKeepsLines ==
  ASSUME JournalTypeOK, FileGrows, NEW r, NEW p \in 1..(Len(file) - 2), HoldsLine(p, r)
  PROVE  p \in 1..(Len(file') - 2) /\ HoldsLine(p, r)'
<1>1. /\ Len(file) \in Nat /\ Len(file') \in Nat /\ Len(file) <= Len(file')
      /\ \A q \in 1..Len(file) : file'[q] = file[q]
  BY DEF FileGrows, JournalTypeOK
<1>2. HoldsLine(p, r)'
  BY <1>1, HeldStays
<1>3. p \in 1..(Len(file') - 2)
  BY <1>1
<1> QED
  BY <1>2, <1>3


\* write returned: the new line is at the end, the others stay.
LEMMA WriteKeeps == JournalInv /\ Write => JournalInv'
<1> SUFFICES ASSUME JournalInv, Write PROVE JournalInv'
  OBVIOUS
<1>0. PICK r0 \in Nat, p0 \in Nat :
        r0 = written + 1 /\ p0 = Len(file) + Len(buffer) + 1
  BY DEF JournalInv, JournalTypeOK
<1>1. /\ file' = file \o Pending /\ buffer' = <<>>
      /\ written' = r0 /\ promised' = promised \cup {r0}
      /\ isOpen' = isOpen /\ fsync' = fsync /\ opens' = opens
      /\ \/ stable' = Len(file') /\ durable' = promised'
         \/ stable' = stable /\ durable' = durable
  BY <1>0 DEF Write
<1>2. /\ JournalTypeOK /\ file \in Seq(Piece) /\ buffer \in Seq(Piece)
      /\ stable \in 0..Len(file) /\ written \in Nat
      /\ promised \subseteq 1..written /\ durable \subseteq promised
  BY DEF JournalInv, JournalTypeOK
<1>3. Line(r0) \in Seq(Piece) /\ Len(Line(r0)) = 3
  BY <1>0, <1>2, LineTyping DEF RecordId
<1>4. Pending \in Seq(Piece) /\ Pending = buffer \o Line(r0)
  BY <1>0, <1>2, <1>3 DEF Pending
<1>5. FileGrows
  BY <1>1, <1>2, <1>4, Appending
<1>6. /\ Len(file) \in Nat /\ Len(buffer) \in Nat
      /\ Len(file') = Len(file) + (Len(buffer) + 3)
      /\ file'[p0] = Line(r0)[1]
      /\ file'[p0 + 1] = Line(r0)[2]
      /\ file'[p0 + 2] = Line(r0)[3]
  <2>1. /\ Len(Pending) = Len(buffer) + 3
        /\ \A q \in 1..3 : Pending[Len(buffer) + q] = Line(r0)[q]
    <3>1. Len(buffer) \in Nat
      BY <1>2
    <3>2. /\ Len(Pending) = Len(buffer) + Len(Line(r0))
          /\ \A i \in 1..Len(buffer) + Len(Line(r0)) :
               Pending[i] = IF i <= Len(buffer) THEN buffer[i]
                            ELSE Line(r0)[i - Len(buffer)]
      BY <1>2, <1>3, <1>4, ConcatProperties
    <3>3. ASSUME NEW q \in 1..3 PROVE Pending[Len(buffer) + q] = Line(r0)[q]
      <4>1. /\ Len(buffer) + q \in 1..Len(buffer) + Len(Line(r0))
            /\ ~(Len(buffer) + q <= Len(buffer)) /\ Len(buffer) + q - Len(buffer) = q
        BY <1>3, <3>1
      <4> QED
        BY <3>2, <4>1
    <3> QED
      BY <1>3, <3>2, <3>3
  <2>2. /\ Len(file') = Len(file) + Len(Pending)
        /\ \A q \in 1..Len(Pending) : file'[Len(file) + q] = Pending[q]
    BY <1>1, <1>2, <1>4
  <2>3. \A q \in 1..3 : file'[Len(file) + (Len(buffer) + q)] = Line(r0)[q]
    <3> SUFFICES ASSUME NEW q \in 1..3
                 PROVE  file'[Len(file) + (Len(buffer) + q)] = Line(r0)[q]
      OBVIOUS
    <3>1. Len(buffer) + q \in 1..Len(Pending)
      BY <1>2, <2>1
    <3> QED
      BY <2>1, <2>2, <3>1
  <2>4. /\ Len(file) + (Len(buffer) + 1) = p0
        /\ Len(file) + (Len(buffer) + 2) = p0 + 1
        /\ Len(file) + (Len(buffer) + 3) = p0 + 2
    BY <1>0, <1>2
  <2> QED
    BY <1>2, <2>1, <2>2, <2>3, <2>4
<1>7. p0 \in 1..(Len(file') - 2) /\ HoldsLine(p0, r0)'
  BY <1>0, <1>6 DEF HoldsLine, Line
<1>8. ASSUME NEW r \in promised'
      PROVE  \E p \in 1..(Len(file') - 2) : HoldsLine(p, r)'
  <2>1. CASE r = r0
    BY <1>7, <2>1
  <2>2. CASE r # r0
    <3>1. PICK p \in 1..(Len(file) - 2) : HoldsLine(p, r)
      BY <1>1, <2>2 DEF JournalInv, PromisedStandsInFile
    <3> QED
      BY <1>2, <1>5, <3>1, GrowingKeepsLines
  <2> QED
    BY <2>1, <2>2
<1>9. ASSUME NEW r \in durable'
      PROVE  \E p \in 1..(stable' - 2) : HoldsLine(p, r)'
  <2>1. CASE stable' = Len(file') /\ durable' = promised'
    BY <1>8, <2>1
  <2>2. CASE stable' = stable /\ durable' = durable
    <3>1. PICK p \in 1..(stable - 2) : HoldsLine(p, r)
      BY <2>2 DEF JournalInv, PromisedStandsInFile
    <3>2. p \in 1..(Len(file) - 2)
      BY <1>2, <1>6
    <3> QED
      BY <1>2, <1>5, <2>2, <3>1, <3>2, GrowingKeepsLines
  <2> QED
    BY <1>1, <2>1, <2>2
<1>10. JournalTypeOK'
  <2>1. stable' \in 0..Len(file')
    BY <1>1, <1>2, <1>6
  <2>2. promised' \in SUBSET (1..written') /\ durable' \in SUBSET promised'
    <3>1. promised \cup {r0} \subseteq 1..r0
      BY <1>0, <1>2
    <3> QED
      BY <1>1, <1>2, <3>1
  <2>3. file' \in Seq(Piece) /\ buffer' \in Seq(Piece) /\ written' \in Nat
    BY <1>1, <1>2, <1>5 DEF FileGrows
  <2> QED
    BY <1>1, <1>2, <2>1, <2>2, <2>3 DEF JournalTypeOK
<1> QED
  BY <1>8, <1>9, <1>10 DEF JournalInv, PromisedStandsInFile

LEMMA MachineFailureKeeps ==
  ASSUME JournalInv, NEW n \in stable..Len(file), MachineFailure(n)
  PROVE  JournalInv'
<1>1. /\ file' = SubSeq(file, 1, n) /\ stable' = n /\ isOpen' = FALSE
      /\ buffer' = <<>> /\ promised' = durable /\ durable' = durable
      /\ fsync' = fsync /\ opens' = opens /\ written' = written
  BY DEF MachineFailure
<1>2. /\ JournalTypeOK /\ file \in Seq(Piece) /\ stable \in Nat /\ Len(file) \in Nat
      /\ n \in Nat /\ stable <= n /\ n <= Len(file)
  BY DEF JournalInv, JournalTypeOK
<1>3. /\ file' \in Seq(Piece) /\ Len(file') = n
      /\ \A q \in 1..n : file'[q] = file[q]
  BY <1>1, <1>2
<1>4. ASSUME NEW r \in durable
      PROVE  \E p \in 1..(n - 2) : HoldsLine(p, r)'
  <2>1. PICK p \in 1..(stable - 2) : HoldsLine(p, r)
    BY DEF JournalInv, PromisedStandsInFile
  <2>2. p \in 1..(n - 2)
    BY <1>2
  <2> QED
    BY <1>2, <1>3, <2>1, <2>2, HeldStays
<1>5. JournalTypeOK'
  <2>1. stable' \in 0..Len(file') /\ <<>> \in Seq(Piece)
    BY <1>1, <1>2, <1>3
  <2> QED
    BY <1>1, <1>2, <1>3, <2>1 DEF JournalTypeOK
<1> QED
  BY <1>1, <1>3, <1>4, <1>5 DEF JournalInv, PromisedStandsInFile

\* Steps that append part of what was pending, or nothing at all, and accept
\* nothing.
LEMMA OtherStepsKeep ==
  ASSUME JournalInv, FileGrows, buffer' \in Seq(Piece),
         isOpen' \in BOOLEAN, fsync' \in BOOLEAN, opens' \in Nat,
         written' \in Nat, written <= written',
         stable' = stable, promised' = promised, durable' = durable
  PROVE  JournalInv'
<1>1. /\ JournalTypeOK /\ stable \in 0..Len(file) /\ Len(file) \in Nat
      /\ promised \subseteq 1..written /\ durable \subseteq promised /\ written \in Nat
  BY DEF JournalInv, JournalTypeOK
<1>2. /\ file' \in Seq(Piece) /\ Len(file') \in Nat /\ Len(file) <= Len(file')
  BY DEF FileGrows
<1>3. ASSUME NEW r \in promised
      PROVE  \E p \in 1..(Len(file') - 2) : HoldsLine(p, r)'
  <2>1. PICK p \in 1..(Len(file) - 2) : HoldsLine(p, r)
    BY DEF JournalInv, PromisedStandsInFile
  <2> QED
    BY <1>1, <2>1, GrowingKeepsLines
<1>4. ASSUME NEW r \in durable
      PROVE  \E p \in 1..(stable - 2) : HoldsLine(p, r)'
  <2>1. PICK p \in 1..(stable - 2) : HoldsLine(p, r)
    BY DEF JournalInv, PromisedStandsInFile
  <2>2. p \in 1..(Len(file) - 2)
    BY <1>1
  <2> QED
    BY <1>1, <2>1, <2>2, GrowingKeepsLines
<1>5. JournalTypeOK'
  <2>1. stable' \in 0..Len(file') /\ promised' \in SUBSET (1..written')
    BY <1>1, <1>2
  <2> QED
    BY <1>1, <1>2, <2>1 DEF JournalTypeOK
<1> QED
  BY <1>3, <1>4, <1>5 DEF JournalInv, PromisedStandsInFile

\* Every step keeps the invariant.
LEMMA JournalStep == JournalInv /\ [JournalNext]_journalVars => JournalInv'
<1> SUFFICES ASSUME JournalInv, [JournalNext]_journalVars PROVE JournalInv'
  OBVIOUS
<1>1. /\ JournalTypeOK /\ <<>> \in Seq(Piece) /\ file \in Seq(Piece)
      /\ buffer \in Seq(Piece) /\ isOpen \in BOOLEAN /\ fsync \in BOOLEAN
      /\ opens \in Nat /\ opens + 1 \in Nat
      /\ written \in Nat /\ written + 1 \in Nat
      /\ written <= written /\ written <= written + 1
  BY DEF JournalInv, JournalTypeOK
<1>2. file' = file => FileGrows
  BY <1>1 DEF FileGrows
<1>3. ASSUME NEW sync \in BOOLEAN, Open(sync) PROVE JournalInv'
  BY <1>1, <1>2, <1>3, OtherStepsKeep DEF Open
<1>4. CASE Write
  BY <1>4, WriteKeeps
<1>5. ASSUME NEW n \in 0..Len(Pending), WriteFails(n) \/ CrashInWrite(n)
      PROVE  JournalInv'
  <2>1. /\ SubSeq(Pending, 1, n) \in Seq(Piece)
        /\ SubSeq(Pending, n + 1, Len(Pending)) \in Seq(Piece)
    BY <1>1, PiecesOfPending
  <2>2. file' = file \o SubSeq(Pending, 1, n)
    BY <1>5 DEF WriteFails, CrashInWrite
  <2>3. FileGrows
    BY <1>1, <2>1, <2>2, Appending
  <2>4. buffer' \in Seq(Piece)
    BY <1>1, <1>5, <2>1 DEF WriteFails, CrashInWrite
  <2> QED
    BY <1>1, <1>5, <2>3, <2>4, OtherStepsKeep DEF WriteFails, CrashInWrite
<1>6. ASSUME NEW n \in 0..Len(buffer), Close(n) PROVE JournalInv'
  <2>1. SubSeq(buffer, 1, n) \in Seq(Piece)
    BY <1>1
  <2>2. FileGrows
    BY <1>1, <1>6, <2>1, Appending DEF Close
  <2> QED
    BY <1>1, <1>6, <2>2, OtherStepsKeep DEF Close
<1>7. CASE ProcessCrash
  BY <1>1, <1>2, <1>7, OtherStepsKeep DEF ProcessCrash
<1>8. ASSUME NEW n \in stable..Len(file), MachineFailure(n) PROVE JournalInv'
  BY <1>8, MachineFailureKeeps
<1>9. CASE UNCHANGED journalVars
  BY <1>1, <1>2, <1>9, OtherStepsKeep DEF journalVars
<1> QED
  BY <1>3, <1>4, <1>5, <1>6, <1>7, <1>8, <1>9 DEF JournalNext

-----------------------------------------------------------------------------
LEMMA JournalInvInit == JournalInit => JournalInv
<1> SUFFICES ASSUME JournalInit PROVE JournalInv
  OBVIOUS
<1>1. /\ file = <<>> /\ stable = 0 /\ buffer = <<>> /\ isOpen = FALSE /\ fsync = FALSE
      /\ opens = 0 /\ written = 0 /\ promised = {} /\ durable = {}
  BY DEF JournalInit
<1>2. <<>> \in Seq(Piece) /\ Len(file) = 0
  BY <1>1
<1>3. stable \in 0..Len(file) /\ opens \in Nat /\ written \in Nat
  BY <1>1, <1>2
<1>4. JournalTypeOK
  BY <1>1, <1>2, <1>3 DEF JournalTypeOK
<1> QED
  BY <1>1, <1>4 DEF JournalInv, PromisedStandsInFile

\* A reader gets every record the journal accepted, or an error: no sequence of
\* failed writes, crashes and reopenings shortens a history silently
\* (read_journal_tolerant against RawFrameJournal.write).
THEOREM AcceptedIsNeverSilentlyLost == JournalSpec => []NeverSilentlyLost
<1>1. JournalInv => NeverSilentlyLost
  <2> SUFFICES ASSUME JournalInv, NEW r \in promised, ~Raises
               PROVE  r \in Returned
    BY DEF NeverSilentlyLost
  <2>1. PICK p \in 1..(Len(file) - 2) : HoldsLine(p, r)
    BY DEF JournalInv, PromisedStandsInFile
  <2>2. /\ Len(file) \in Nat /\ DOMAIN file = 1..Len(file)
        /\ p \in DOMAIN file /\ p + 1 \in DOMAIN file /\ p + 2 \in DOMAIN file
        /\ p + 2 - 2 = p /\ p + 2 - 1 = p + 1 /\ p + 2 # 1
    BY DEF JournalInv, JournalTypeOK
  <2>3. ~EndsLine(p + 1) /\ EndsLine(p + 2)
    BY <2>1 DEF HoldsLine, Line, EndsLine
  <2>4. StartsLine(p)
    <3>1. Parses(p + 2)
      BY <2>2, <2>3 DEF Raises
    <3> QED
      BY <2>2, <2>3, <3>1 DEF Parses, StartsLine
  <2>5. r \in 1..written
    BY DEF JournalInv, JournalTypeOK
  <2> QED
    BY <2>1, <2>2, <2>4, <2>5 DEF Returned
<1> QED
  BY <1>1, JournalInvInit, JournalStep, PTL DEF JournalSpec

-----------------------------------------------------------------------------
(* What a tear does.                                                       *)

\* Counted from its end, every third piece of the sequence ends a whole line.
WholeLinesFromTheEnd(s) ==
  \A q \in DOMAIN s :
    LET behind == (Len(s) - q) % 3
    IN  /\ behind = 0 <=> s[q].part = "newline"
        /\ behind = 0 /\ q - 2 \in DOMAIN s =>
             /\ s[q - 2] = Line(s[q].record)[1]
             /\ s[q - 1] = Line(s[q].record)[2]
             /\ s[q] = Line(s[q].record)[3]

AtLineBoundary == file = <<>> \/ EndsLine(Len(file))

\* The handle holds whole lines, unless the file waits for the rest of one.
BufferInv ==
  /\ WholeLinesFromTheEnd(buffer)
  /\ AtLineBoundary => Len(buffer) % 3 = 0

\* What the definition says of one piece.
LEMMA WholeAt ==
  ASSUME NEW s \in Seq(Piece), WholeLinesFromTheEnd(s), NEW q \in 1..Len(s)
  PROVE  /\ (Len(s) - q) % 3 = 0 <=> s[q].part = "newline"
         /\ (Len(s) - q) % 3 = 0 /\ q - 2 \in 1..Len(s) =>
              /\ s[q - 2] = Line(s[q].record)[1]
              /\ s[q - 1] = Line(s[q].record)[2]
              /\ s[q] = Line(s[q].record)[3]
<1>1. DOMAIN s = 1..Len(s)
  OBVIOUS
<1> QED
  BY <1>1 DEF WholeLinesFromTheEnd

LEMMA PendingIsWhole ==
  ASSUME JournalTypeOK, WholeLinesFromTheEnd(buffer)
  PROVE  /\ WholeLinesFromTheEnd(Pending)
         /\ Len(Pending) \in Nat /\ Len(Pending) % 3 = Len(buffer) % 3
<1>0. PICK r \in RecordId, b \in Nat : r = written + 1 /\ b = Len(buffer)
  BY DEF JournalTypeOK, RecordId
<1>1. buffer \in Seq(Piece) /\ Line(r) \in Seq(Piece) /\ Len(Line(r)) = 3
  BY LineTyping DEF JournalTypeOK
<1>2. /\ Len(Pending) = b + 3 /\ Pending \in Seq(Piece)
      /\ \A q \in 1..b : Pending[q] = buffer[q]
      /\ \A q \in (b + 1)..(b + 3) : Pending[q] = Line(r)[q - b]
  <2>1. Pending = buffer \o Line(r) /\ Pending \in Seq(Piece)
    BY <1>0, <1>1 DEF Pending
  <2>2. /\ Len(buffer \o Line(r)) = b + 3
        /\ \A q \in 1..(b + 3) :
             (buffer \o Line(r))[q] = IF q <= b THEN buffer[q] ELSE Line(r)[q - b]
    <3>1. b + 3 = Len(buffer) + Len(Line(r))
      BY <1>0, <1>1
    <3> QED
      BY <1>0, <1>1, <3>1, ConcatProperties
  <2> QED
    BY <2>1, <2>2
<1>3. /\ Line(r)[1] = [record |-> r, part |-> "head"]
      /\ Line(r)[2] = [record |-> r, part |-> "tail"]
      /\ Line(r)[3] = [record |-> r, part |-> "newline"]
  BY DEF Line
<1>4. /\ Pending[b + 1] = Line(r)[1] /\ Pending[b + 2] = Line(r)[2]
      /\ Pending[b + 3] = Line(r)[3]
  BY <1>2
<1>5. ASSUME NEW q \in 1..(b + 3)
      PROVE  /\ (b + 3 - q) % 3 = 0 <=> Pending[q].part = "newline"
             /\ (b + 3 - q) % 3 = 0 /\ q - 2 \in 1..(b + 3) =>
                  /\ Pending[q - 2] = Line(Pending[q].record)[1]
                  /\ Pending[q - 1] = Line(Pending[q].record)[2]
                  /\ Pending[q] = Line(Pending[q].record)[3]
  <2>1. CASE q \in 1..b
    <3>1. (b + 3 - q) % 3 = (b - q) % 3
      BY <2>1
    <3>2. /\ (b - q) % 3 = 0 <=> buffer[q].part = "newline"
          /\ (b - q) % 3 = 0 /\ q - 2 \in 1..b =>
               /\ buffer[q - 2] = Line(buffer[q].record)[1]
               /\ buffer[q - 1] = Line(buffer[q].record)[2]
               /\ buffer[q] = Line(buffer[q].record)[3]
      BY <1>0, <1>1, <2>1, WholeAt
    <3>3. Pending[q] = buffer[q]
      BY <1>2, <2>1
    <3>4. q - 2 \in 1..(b + 3) => /\ q - 2 \in 1..b
                                  /\ Pending[q - 2] = buffer[q - 2]
                                  /\ Pending[q - 1] = buffer[q - 1]
      BY <1>2, <2>1
    <3> QED
      BY <3>1, <3>2, <3>3, <3>4
  <2>2. CASE q = b + 1
    <3>1. (b + 3 - q) % 3 = 2
      BY <2>2
    <3> QED
      BY <1>3, <1>4, <2>2, <3>1
  <2>3. CASE q = b + 2
    <3>1. (b + 3 - q) % 3 = 1
      BY <2>3
    <3> QED
      BY <1>3, <1>4, <2>3, <3>1
  <2>4. CASE q = b + 3
    <3>1. (b + 3 - q) % 3 = 0 /\ q - 2 = b + 1 /\ q - 1 = b + 2
      BY <2>4
    <3>2. Pending[q].record = r /\ Pending[q].part = "newline"
      BY <1>3, <1>4, <2>4
    <3> QED
      BY <1>4, <2>4, <3>1, <3>2
  <2> QED
    BY <2>1, <2>2, <2>3, <2>4
<1>6. DOMAIN Pending = 1..(b + 3)
  BY <1>2
<1> QED
  BY SMTT(30), <1>0, <1>2, <1>5, <1>6 DEF WholeLinesFromTheEnd

\* What is left behind a cut ends with the same lines.
LEMMA RestIsWhole ==
  ASSUME NEW s \in Seq(Piece), WholeLinesFromTheEnd(s), NEW n \in 0..Len(s)
  PROVE  /\ WholeLinesFromTheEnd(SubSeq(s, n + 1, Len(s)))
         /\ Len(SubSeq(s, n + 1, Len(s))) = Len(s) - n
<1> DEFINE rest == SubSeq(s, n + 1, Len(s))
<1>1. /\ rest \in Seq(Piece) /\ Len(rest) = Len(s) - n /\ DOMAIN rest = 1..(Len(s) - n)
      /\ \A q \in 1..(Len(s) - n) : rest[q] = s[n + q]
  BY SubSeqProperties
<1>2. ASSUME NEW q \in 1..(Len(s) - n)
      PROVE  /\ (Len(rest) - q) % 3 = 0 <=> rest[q].part = "newline"
             /\ (Len(rest) - q) % 3 = 0 /\ q - 2 \in 1..(Len(s) - n) =>
                  /\ rest[q - 2] = Line(rest[q].record)[1]
                  /\ rest[q - 1] = Line(rest[q].record)[2]
                  /\ rest[q] = Line(rest[q].record)[3]
  <2>1. Len(rest) - q = Len(s) - (n + q) /\ n + q \in 1..Len(s) /\ rest[q] = s[n + q]
    BY <1>1
  <2>2. q - 2 \in 1..(Len(s) - n) =>
          /\ n + q - 2 \in 1..Len(s)
          /\ rest[q - 2] = s[n + q - 2] /\ rest[q - 1] = s[n + q - 1]
    <3>1. q - 2 \in 1..(Len(s) - n) =>
            /\ q - 1 \in 1..(Len(s) - n)
            /\ n + (q - 2) = n + q - 2 /\ n + (q - 1) = n + q - 1
            /\ n + q - 2 \in 1..Len(s)
      OBVIOUS
    <3> QED
      BY <1>1, <3>1
  <2>3. /\ (Len(s) - (n + q)) % 3 = 0 <=> s[n + q].part = "newline"
        /\ (Len(s) - (n + q)) % 3 = 0 /\ n + q - 2 \in 1..Len(s) =>
             /\ s[n + q - 2] = Line(s[n + q].record)[1]
             /\ s[n + q - 1] = Line(s[n + q].record)[2]
             /\ s[n + q] = Line(s[n + q].record)[3]
    <3>1. PICK k \in 1..Len(s) : k = n + q
      BY <2>1
    <3>2. /\ (Len(s) - k) % 3 = 0 <=> s[k].part = "newline"
          /\ (Len(s) - k) % 3 = 0 /\ k - 2 \in 1..Len(s) =>
               /\ s[k - 2] = Line(s[k].record)[1]
               /\ s[k - 1] = Line(s[k].record)[2]
               /\ s[k] = Line(s[k].record)[3]
      BY WholeAt
    <3> QED
      BY <3>1, <3>2
  <2> QED
    BY <2>1, <2>2, <2>3
<1> QED
  BY <1>1, <1>2 DEF WholeLinesFromTheEnd

\* Some of what was waiting reached the file.
FlushedFrom(s, n) ==
  /\ s \in Seq(Piece) /\ WholeLinesFromTheEnd(s)
  /\ AtLineBoundary => Len(s) % 3 = 0
  /\ n \in 0..Len(s)
  /\ file' = file \o SubSeq(s, 1, n)

LEMMA FlushedPieces ==
  ASSUME JournalTypeOK, NEW s, NEW n, FlushedFrom(s, n)
  PROVE  /\ Len(file) \in Nat /\ Len(s) \in Nat /\ n \in Nat /\ n <= Len(s)
         /\ file' \in Seq(Piece) /\ Len(file') = Len(file) + n
         /\ DOMAIN file = 1..Len(file) /\ DOMAIN file' = 1..(Len(file) + n)
         /\ \A q \in 1..Len(file) : file'[q] = file[q]
         /\ \A q \in 1..n : file'[Len(file) + q] = s[q]
<1>1. /\ SubSeq(s, 1, n) \in Seq(Piece) /\ Len(SubSeq(s, 1, n)) = n
      /\ \A q \in 1..n : SubSeq(s, 1, n)[q] = s[q]
  BY DEF FlushedFrom
<1>2. file \in Seq(Piece) /\ n \in Nat /\ n <= Len(s) /\ Len(s) \in Nat
  BY DEF JournalTypeOK, FlushedFrom
<1>3. file' = file \o SubSeq(s, 1, n)
  BY DEF FlushedFrom
<1> QED
  BY <1>1, <1>2, <1>3

\* If the file ends with a line, what still waits is whole lines.
LEMMA FlushKeepsBoundary ==
  ASSUME JournalTypeOK, NEW s, NEW n, FlushedFrom(s, n), AtLineBoundary'
  PROVE  (Len(s) - n) % 3 = 0
<1>1. CASE n = 0
  BY <1>1, FlushedPieces DEF FlushedFrom, AtLineBoundary, EndsLine
<1>2. CASE n # 0
  <2>1. /\ n \in 1..n /\ n \in DOMAIN s /\ Len(file') # 0
        /\ file'[Len(file')] = s[n]
    BY <1>2, FlushedPieces DEF FlushedFrom
  <2>2. s[n].part = "newline"
    BY <2>1 DEF AtLineBoundary, EndsLine
  <2> QED
    BY <2>1, <2>2 DEF FlushedFrom, WholeLinesFromTheEnd
<1> QED
  BY <1>1, <1>2

\* Behind whole lines, whole lines do no harm.
LEMMA FlushBehindALine ==
  ASSUME JournalTypeOK, NEW s, NEW n, FlushedFrom(s, n), AtLineBoundary, ~Raises
  PROVE  ~Raises'
<1>0. PICK m \in Nat : m = Len(file)
  BY DEF JournalTypeOK
<1>1. /\ Len(s) \in Nat /\ n \in Nat /\ n <= Len(s) /\ DOMAIN s = 1..Len(s)
      /\ Len(s) % 3 = 0 /\ DOMAIN file = 1..m /\ DOMAIN file' = 1..(m + n)
      /\ \A q \in 1..m : file'[q] = file[q]
      /\ \A q \in 1..n : file'[m + q] = s[q]
  BY SMTT(30), <1>0, FlushedPieces DEF FlushedFrom
<1>2. SUFFICES ASSUME NEW q \in DOMAIN file', EndsLine(q)'
               PROVE  Parses(q)'
  BY DEF Raises
<1>3. CASE q \in DOMAIN file
  <2>1. file'[q] = file[q] /\ q \in 1..m /\ EndsLine(q)
    BY <1>0, <1>1, <1>2, <1>3 DEF EndsLine
  <2>2. Parses(q)
    BY <1>3, <2>1 DEF Raises
  <2>0. PICK r : r = file[q].record
    OBVIOUS
  <2>3. CASE StartsLine(q)
    <3>1. q = 1 \/ file'[q - 1] = file[q - 1]
      BY <1>1, <2>1
    <3> QED
      BY <2>3, <3>1 DEF Parses, StartsLine, EndsLine
  <2>4. CASE q - 2 \in DOMAIN file /\ StartsLine(q - 2) /\ HoldsLine(q - 2, file[q].record)
    <3>1. /\ file'[q - 2] = file[q - 2] /\ q - 2 \in DOMAIN file'
          /\ q - 2 = 1 \/ file'[q - 3] = file[q - 3]
          /\ file'[q - 1] = file[q - 1]
          /\ q - 2 + 1 = q - 1 /\ q - 2 + 2 = q /\ q - 2 - 1 = q - 3
      BY SMTT(30), <1>1, <2>1, <2>4
    <3>2. StartsLine(q - 2)'
      BY <2>4, <3>1 DEF StartsLine, EndsLine
    <3>3. HoldsLine(q - 2, r)'
      BY <2>0, <2>1, <2>4, <3>1 DEF HoldsLine
    <3>4. HoldsLine(q - 2, file[q].record)'
      BY <2>0, <2>1, <3>3 DEF HoldsLine
    <3> QED
      BY <3>1, <3>2, <3>4 DEF Parses
  <2> QED
    BY <2>2, <2>3, <2>4 DEF Parses
<1>4. CASE q \notin DOMAIN file
  <2>1. PICK k \in 1..n : q = m + k
    <3>1. q - m \in 1..n /\ q = m + (q - m)
      BY <1>1, <1>2, <1>4
    <3> QED
      BY <3>1
  <2>2. k \in DOMAIN s /\ file'[q] = s[k] /\ s[k].part = "newline"
    <3>1. file'[q] = s[k]
      BY <1>1, <2>1
    <3>2. file'[q].part = "newline"
      BY <1>2 DEF EndsLine
    <3>3. k \in 1..Len(s)
      BY <1>1, <2>1
    <3> QED
      BY <1>1, <3>1, <3>2, <3>3
  <2>3. (Len(s) - k) % 3 = 0
    BY <2>2 DEF FlushedFrom, WholeLinesFromTheEnd
  <2>4. k % 3 = 0 /\ k >= 3
    <3>1. PICK len \in Nat : len = Len(s) /\ len % 3 = 0
      BY <1>1
    <3>2. k \in 1..len /\ (len - k) % 3 = 0
      BY <1>1, <2>2, <2>3, <3>1
    <3> QED
      BY <3>1, <3>2
  <2>5. /\ k - 2 \in DOMAIN s /\ k - 2 \in 1..n /\ k - 1 \in 1..n
        /\ m + (k - 2) = q - 2 /\ m + (k - 1) = q - 1 /\ q - 2 \in DOMAIN file'
    <3>1. /\ k \in Nat /\ 3 <= k /\ k <= n /\ n <= Len(s) /\ n \in Nat /\ Len(s) \in Nat
      BY <1>1, <2>2, <2>4
    <3>2. /\ k - 2 \in 1..Len(s) /\ k - 2 \in 1..n /\ k - 1 \in 1..n
          /\ m + (k - 2) = q - 2 /\ m + (k - 1) = q - 1 /\ q - 2 \in 1..(m + n)
      BY <2>1, <3>1
    <3> QED
      BY <1>1, <3>2
  <2>6. file'[q - 2] = s[k - 2] /\ file'[q - 1] = s[k - 1]
    BY <1>1, <2>5
  <2>7. /\ s[k - 2] = Line(s[k].record)[1] /\ s[k - 1] = Line(s[k].record)[2]
        /\ s[k] = Line(s[k].record)[3]
    BY <2>2, <2>3, <2>5 DEF FlushedFrom, WholeLinesFromTheEnd
  <2>8. q - 2 + 1 = q - 1 /\ q - 2 + 2 = q /\ q - 2 - 1 = q - 3
    BY <1>2, <1>1
  <2>9. HoldsLine(q - 2, file[q].record)'
    BY <2>2, <2>6, <2>7, <2>8 DEF HoldsLine
  <2>10. StartsLine(q - 2)'
    <3>1. CASE k = 3
      <4>1. q - 2 = m + 1 /\ q - 3 = m
        BY <1>1, <2>1, <3>1
      <4>2. CASE m = 0
        BY <4>1, <4>2 DEF StartsLine
      <4>3. CASE m # 0
        <5>1. file'[m] = file[m] /\ file[m].part = "newline"
          BY <1>0, <1>1, <4>3 DEF AtLineBoundary, EndsLine
        <5> QED
          BY <2>8, <4>1, <5>1 DEF StartsLine, EndsLine
      <4> QED
        BY <4>2, <4>3
    <3>2. CASE k # 3
      <4>1. k - 3 \in DOMAIN s /\ k - 3 \in 1..n /\ (Len(s) - (k - 3)) % 3 = 0
            /\ m + (k - 3) = q - 3
        <5>1. /\ k \in Nat /\ 3 < k /\ k <= n /\ n <= Len(s) /\ n \in Nat /\ Len(s) \in Nat
          BY <1>1, <2>2, <2>4, <3>2
        <5>2. k - 3 \in 1..Len(s) /\ k - 3 \in 1..n /\ m + (k - 3) = q - 3
          BY <2>1, <5>1
        <5>3. (Len(s) - (k - 3)) % 3 = 0
          BY <2>3, <5>1
        <5> QED
          BY <1>1, <5>2, <5>3
      <4>2. s[k - 3].part = "newline"
        BY <4>1 DEF FlushedFrom, WholeLinesFromTheEnd
      <4>3. file'[q - 3] = s[k - 3]
        BY <1>1, <4>1
      <4> QED
        BY <2>8, <4>2, <4>3 DEF StartsLine, EndsLine
    <3> QED
      BY <3>1, <3>2
  <2> QED
    BY <2>5, <2>9, <2>10 DEF Parses
<1> QED
  BY <1>3, <1>4
-----------------------------------------------------------------------------
\* Every step that writes flushes from the front of what is pending.
LEMMA FlushKeepsBuffer ==
  ASSUME JournalTypeOK, NEW s, NEW n, FlushedFrom(s, n),
         buffer' = SubSeq(s, n + 1, Len(s)) \/ buffer' = <<>>
  PROVE  BufferInv'
<1>1. CASE buffer' = SubSeq(s, n + 1, Len(s))
  <2>1. WholeLinesFromTheEnd(buffer') /\ Len(buffer') = Len(s) - n
    BY <1>1, RestIsWhole DEF FlushedFrom
  <2> QED
    BY <2>1, FlushKeepsBoundary DEF BufferInv
<1>2. CASE buffer' = <<>>
  BY <1>2 DEF BufferInv, WholeLinesFromTheEnd
<1> QED
  BY <1>1, <1>2

\* What a step of the journal is, to its file.
LEMMA StepsFlush ==
  ASSUME JournalTypeOK, BufferInv, JournalNext
  PROVE  \/ /\ isOpen
            /\ \E s, n : /\ FlushedFrom(s, n)
                         /\ buffer' = SubSeq(s, n + 1, Len(s)) \/ buffer' = <<>>
         \/ file' = file /\ buffer' = <<>>
         \/ \E n \in 0..Len(file) : file' = SubSeq(file, 1, n) /\ buffer' = <<>>
<1>1. /\ Pending \in Seq(Piece) /\ WholeLinesFromTheEnd(Pending)
      /\ AtLineBoundary => Len(Pending) % 3 = 0
      /\ Len(Pending) \in 0..Len(Pending) /\ SubSeq(Pending, 1, Len(Pending)) = Pending
  <2>1. written + 1 \in RecordId
    BY DEF JournalTypeOK, RecordId
  <2>2. Pending \in Seq(Piece)
    BY <2>1, LineTyping DEF JournalTypeOK, Pending
  <2> QED
    BY <2>2, PendingIsWhole DEF BufferInv
<1>2. /\ buffer \in Seq(Piece) /\ WholeLinesFromTheEnd(buffer)
      /\ AtLineBoundary => Len(buffer) % 3 = 0
  BY DEF JournalTypeOK, BufferInv
<1>3. ASSUME NEW sync \in BOOLEAN, Open(sync) PROVE file' = file /\ buffer' = <<>>
  BY <1>3 DEF Open
<1>4. CASE Write
  <2>1. FlushedFrom(Pending, Len(Pending)) /\ isOpen /\ buffer' = <<>>
    BY <1>1, <1>4 DEF Write, FlushedFrom
  <2> QED
    BY <2>1
<1>5. ASSUME NEW n \in 0..Len(Pending), WriteFails(n) \/ CrashInWrite(n)
      PROVE  /\ isOpen /\ FlushedFrom(Pending, n)
             /\ buffer' = SubSeq(Pending, n + 1, Len(Pending)) \/ buffer' = <<>>
  BY <1>1, <1>5 DEF WriteFails, CrashInWrite, FlushedFrom
<1>6. ASSUME NEW n \in 0..Len(buffer), Close(n)
      PROVE  isOpen /\ FlushedFrom(buffer, n) /\ buffer' = <<>>
  BY <1>2, <1>6 DEF Close, FlushedFrom
<1>7. CASE ProcessCrash
  BY <1>7 DEF ProcessCrash
<1>8. ASSUME NEW n \in stable..Len(file), MachineFailure(n)
      PROVE  n \in 0..Len(file) /\ file' = SubSeq(file, 1, n) /\ buffer' = <<>>
  BY <1>8 DEF MachineFailure, JournalTypeOK
<1>9. CASE \E n \in 0..Len(Pending) : WriteFails(n) \/ CrashInWrite(n)
  BY <1>5, <1>9
<1>10. CASE \E n \in 0..Len(buffer) : Close(n)
  BY <1>6, <1>10
<1>11. CASE \E n \in stable..Len(file) : MachineFailure(n)
  BY <1>8, <1>11
<1>12. CASE \E sync \in BOOLEAN : Open(sync)
  BY <1>3, <1>12
<1> QED
  BY <1>4, <1>7, <1>9, <1>10, <1>11, <1>12 DEF JournalNext

LEMMA BufferStep == JournalTypeOK /\ BufferInv /\ [JournalNext]_journalVars => BufferInv'
<1> SUFFICES ASSUME JournalTypeOK, BufferInv, [JournalNext]_journalVars PROVE BufferInv'
  OBVIOUS
<1>1. CASE buffer' = <<>>
  BY <1>1 DEF BufferInv, WholeLinesFromTheEnd
<1>2. CASE \E s, n : /\ FlushedFrom(s, n)
                     /\ buffer' = SubSeq(s, n + 1, Len(s)) \/ buffer' = <<>>
  BY <1>2, FlushKeepsBuffer
<1>3. CASE UNCHANGED journalVars
  BY <1>3 DEF journalVars, BufferInv, WholeLinesFromTheEnd, AtLineBoundary, EndsLine
<1> QED
  BY <1>1, <1>2, <1>3, StepsFlush

\* A shorter file holds no line the longer one did not.
LEMMA CuttingRaisesNothing ==
  ASSUME JournalTypeOK, NEW n \in 0..Len(file), file' = SubSeq(file, 1, n), ~Raises
  PROVE  ~Raises'
<1>1. /\ file \in Seq(Piece) /\ Len(file) \in Nat /\ n \in Nat /\ n <= Len(file)
      /\ DOMAIN file = 1..Len(file) /\ DOMAIN file' = 1..n
      /\ \A q \in 1..n : file'[q] = file[q]
  BY DEF JournalTypeOK
<1> SUFFICES ASSUME NEW q \in DOMAIN file', EndsLine(q)' PROVE Parses(q)'
  BY DEF Raises
<1>2. PICK r : r = file[q].record
  OBVIOUS
<1>3. file'[q] = file[q] /\ q \in 1..n /\ q \in DOMAIN file /\ EndsLine(q)
  BY <1>1 DEF EndsLine
<1>4. Parses(q)
  BY <1>3 DEF Raises
<1>5. CASE StartsLine(q)
  <2>1. q = 1 \/ file'[q - 1] = file[q - 1]
    BY <1>1, <1>3
  <2> QED
    BY <1>5, <2>1 DEF Parses, StartsLine, EndsLine
<1>6. CASE q - 2 \in DOMAIN file /\ StartsLine(q - 2) /\ HoldsLine(q - 2, file[q].record)
  <2>1. /\ file'[q - 2] = file[q - 2] /\ q - 2 \in DOMAIN file'
        /\ q - 2 = 1 \/ file'[q - 3] = file[q - 3]
        /\ file'[q - 1] = file[q - 1]
        /\ q - 2 + 1 = q - 1 /\ q - 2 + 2 = q /\ q - 2 - 1 = q - 3
    BY <1>1, <1>3, <1>6
  <2>2. StartsLine(q - 2)'
    BY <1>6, <2>1 DEF StartsLine, EndsLine
  <2>3. HoldsLine(q - 2, r)'
    BY <1>2, <1>3, <1>6, <2>1 DEF HoldsLine
  <2>4. HoldsLine(q - 2, file[q].record)'
    BY <1>2, <1>3, <2>3 DEF HoldsLine
  <2> QED
    BY <2>1, <2>2, <2>4 DEF Parses
<1> QED
  BY <1>4, <1>5, <1>6 DEF Parses

\* Whatever is interrupted, a readable journal stays readable, until somebody
\* writes behind a torn line (RawFrameJournal.write after a reopening, against
\* read_journal_tolerant).
THEOREM InterruptionsNeverCorrupt == JournalSpec => OnlyWritingBehindATear
<1> DEFINE Inv == JournalInv /\ BufferInv
           Harmless == ~Raises /\ Raises' => isOpen /\ file # <<>> /\ ~EndsLine(Len(file))
<1>1. JournalInit => Inv
  BY JournalInvInit DEF JournalInit, BufferInv, WholeLinesFromTheEnd
<1>2. Inv /\ [JournalNext]_journalVars => Inv'
  BY JournalStep, BufferStep DEF JournalInv
<1>3. Inv /\ [JournalNext]_journalVars => [Harmless]_journalVars
  <2> SUFFICES ASSUME Inv, JournalNext, ~Raises, Raises'
               PROVE  isOpen /\ ~AtLineBoundary
    BY DEF AtLineBoundary
  <2>1. JournalTypeOK /\ BufferInv
    BY DEF JournalInv
  <2>2. ASSUME file' = file PROVE FALSE
    BY <2>2 DEF Raises, Parses, StartsLine, EndsLine, HoldsLine
  <2>3. ASSUME NEW n \in 0..Len(file), file' = SubSeq(file, 1, n) PROVE FALSE
    BY <2>1, <2>3, CuttingRaisesNothing
  <2>4. isOpen /\ \E s, n : FlushedFrom(s, n)
    BY <2>1, <2>2, <2>3, StepsFlush
  <2> QED
    BY <2>1, <2>4, FlushBehindALine
<1> QED
  BY <1>1, <1>2, <1>3, PTL DEF JournalSpec, OnlyWritingBehindATear

-----------------------------------------------------------------------------
(* The REST client's bucket.                                               *)

\* The client's bucket, refilled to now, never holds more than the venue's, as
\* long as every request was paid for.
BucketInv ==
    /\ tokens \in 0..Capacity /\ sinceRefill \in Nat
    /\ venueTokens \in Int
    /\ ~unspent => venueTokens \in 0..Capacity
    /\ ~unspent /\ policy = "bucket" => Refilled <= venueTokens

\* Refilling: at most the capacity, at least what is there, and at most one
\* rate more with every tick.
LEMMA RefillFacts ==
    ASSUME NEW have \in 0..Capacity, NEW since \in Nat
    PROVE  /\ since * Rate \in Nat
           /\ 0 * Rate = 0
           /\ Min2(Capacity, have + since * Rate) \in have..Capacity
           /\ Min2(Capacity, have + 0 * Rate) = have
           /\ Min2(Capacity, have + Min2(Capacity, since + 1) * Rate)
                <= Min2(Capacity, have + since * Rate) + Rate
<1>1. Rate \in Nat \ {0} /\ Capacity \in Nat
    BY ClientAssumption
<1>2. since * Rate \in Nat
    BY <1>1
<1>3. 0 * Rate = 0
    BY <1>1
<1>4. (since + 1) * Rate = since * Rate + Rate
    BY <1>1
<1>5. ASSUME since + 1 > Capacity
      PROVE  Capacity * Rate <= since * Rate + Rate
    <2>1. Capacity * Rate <= (since + 1) * Rate
        BY <1>1, <1>5
    <2> QED
        BY <1>1, <1>2, <1>4, <2>1
<1>6. Min2(Capacity, since + 1) * Rate \in Nat /\ Min2(Capacity, since + 1) * Rate <= since * Rate + Rate
    <2>1. CASE since + 1 <= Capacity
        BY <1>1, <1>2, <1>4, <2>1 DEF Min2
    <2>2. CASE since + 1 > Capacity
        <3>1. Min2(Capacity, since + 1) = Capacity
            BY <1>1, <2>2 DEF Min2
        <3>2. Capacity * Rate \in Nat
            BY <1>1
        <3> QED
            BY <1>5, <2>2, <3>1, <3>2
    <2> QED
        BY <1>1, <2>1, <2>2
<1>7. PICK a \in Nat, b \in Nat : a = since * Rate /\ b = Min2(Capacity, since + 1) * Rate
    BY <1>2, <1>6
<1>8. b <= a + Rate
    BY <1>6, <1>7
<1>9. Min2(Capacity, have + a) \in have..Capacity
    BY <1>1 DEF Min2
<1>10. Min2(Capacity, have + b) <= Min2(Capacity, have + a) + Rate
    BY <1>1, <1>8 DEF Min2
<1>11. Min2(Capacity, have + 0) = have
    BY <1>1 DEF Min2
<1> QED
    BY <1>2, <1>3, <1>7, <1>9, <1>10, <1>11

LEMMA BucketInit == Init => BucketInv
<1> SUFFICES ASSUME Init PROVE BucketInv
    OBVIOUS
<1>1. Capacity \in 0..Capacity
    BY ClientAssumption
<1>2. Refilled = Capacity
    BY <1>1, RefillFacts DEF Init, Refilled
<1> QED
    BY <1>1, <1>2 DEF Init, BucketInv

\* What a request takes from both buckets, and what a reading of the clock
\* leaves of the client's.
LEMMA SpendStep ==
    ASSUME BucketInv, policy = "bucket", policy' = policy, Refilled >= Cost, Spend(Refilled)
    PROVE  BucketInv'
<1>1. PICK r \in 0..Capacity : r = Refilled
    BY RefillFacts DEF BucketInv, Refilled
<1>2. Cost \in Nat /\ Capacity \in Nat /\ r - Cost \in 0..Capacity
    BY <1>1, ClientAssumption
<1>3. /\ tokens' = r - Cost /\ sinceRefill' = 0 /\ unspent' = unspent
      /\ venueTokens' = IF venueTokens >= Cost THEN venueTokens - Cost ELSE -1
    BY <1>1 DEF Spend, Withdrawn
<1>4. Refilled' = r - Cost
    BY <1>2, <1>3, RefillFacts DEF Refilled
<1>5. ~unspent => r <= venueTokens /\ venueTokens \in 0..Capacity
    BY <1>1 DEF BucketInv
<1> QED
    BY <1>1, <1>2, <1>3, <1>4, <1>5 DEF BucketInv

LEMMA ReadClockStep ==
    ASSUME BucketInv, policy' = policy, tokens' = Refilled, sinceRefill' = 0,
           \/ venueTokens' = venueTokens /\ unspent' = unspent
           \/ venueTokens' = Withdrawn /\ unspent' = TRUE
    PROVE  BucketInv'
<1>1. PICK r \in 0..Capacity : r = Refilled
    BY RefillFacts DEF BucketInv, Refilled
<1>2. Refilled' = r
    BY <1>1, RefillFacts DEF Refilled
<1>3. venueTokens' \in Int
    BY ClientAssumption DEF BucketInv, Withdrawn
<1> QED
    BY <1>1, <1>2, <1>3 DEF BucketInv

LEMMA TickStep ==
    ASSUME BucketInv, Tick
    PROVE  BucketInv'
<1>1. /\ policy' = policy /\ tokens' = tokens /\ unspent' = unspent
      /\ sinceRefill' = Min2(Capacity, sinceRefill + 1)
      /\ venueTokens' = Min2(Capacity, venueTokens + Rate)
    BY DEF Tick
<1>2. Rate \in Nat /\ Capacity \in Nat /\ sinceRefill' \in Nat
    BY <1>1, ClientAssumption DEF BucketInv, Min2
<1>3. PICK r \in 0..Capacity, s \in 0..Capacity :
          r = Refilled /\ s = Refilled' /\ s <= r + Rate
    <2>1. tokens \in 0..Capacity /\ sinceRefill \in Nat
        BY DEF BucketInv
    <2>2. Refilled \in 0..Capacity
        BY SMTT(30), <2>1, RefillFacts DEF Refilled
    <2>3. Refilled' \in 0..Capacity
        <3>1. PICK n \in Nat : n = sinceRefill'
            BY <1>2
        <3>2. Min2(Capacity, tokens + n * Rate) \in 0..Capacity
            BY SMTT(30), <2>1, RefillFacts
        <3> QED
            BY <1>1, <3>1, <3>2 DEF Refilled
    <2>4. Refilled' <= Refilled + Rate
        BY <1>1, <2>1, RefillFacts DEF Refilled
    <2> QED
        BY <2>2, <2>3, <2>4
<1>4. venueTokens' \in Int /\ (venueTokens \in 0..Capacity => venueTokens' \in 0..Capacity)
    BY <1>1, <1>2 DEF BucketInv, Min2
<1>5. ~unspent /\ policy = "bucket" => s <= venueTokens'
    <2>1. ~unspent /\ policy = "bucket" => r <= venueTokens /\ venueTokens \in 0..Capacity
        BY <1>3 DEF BucketInv
    <2> QED
        BY <1>1, <1>2, <1>3, <2>1 DEF Min2
<1> QED
    BY <1>1, <1>2, <1>3, <1>4, <1>5 DEF BucketInv

\* While every request was paid for, the venue's bucket is never overdrawn and the
\* client never believes it holds more than the venue does (TokenBucket.acquire).
THEOREM PaidBucketHolds == Spec => []SpentBucketIsNotOverdrawn
<1>1. BucketInv /\ [Next]_vars => BucketInv'
    <2> SUFFICES ASSUME BucketInv, [Next]_vars PROVE BucketInv'
        OBVIOUS
    <2>1. CASE Tick
        BY <2>1, TickStep
    <2>2. CASE UNCHANGED <<policy, bucketVars>>
        BY <2>2 DEF BucketInv, bucketVars, Refilled
    <2>3. ASSUME NEW c \in Callers, Run(c) PROVE BucketInv'
        <3>1. CASE Consume(c)
            BY <3>1, SpendStep DEF Consume
        <3>2. CASE FindTooFew(c) \/ SleepForDeficit(c) \/ ReturnUnspent(c)
            BY <3>2, ReadClockStep DEF FindTooFew, SleepForDeficit, ReturnUnspent
        <3>3. CASE WakePaced(c)
            BY <2>2, <3>3, SpendStep DEF WakePaced
        <3>4. CASE \/ StartWalk(c) \/ TakePermit(c) \/ PaceStart(c) \/ PaceSleep(c)
                   \/ Retry(c) \/ Respond(c)
            BY <2>2, <3>4 DEF StartWalk, TakePermit, PaceStart, PaceSleep, Retry, Respond,
                 ReceivePage, FailAttempt, policyVars
        <3> QED
            BY <2>3, <3>1, <3>2, <3>3, <3>4 DEF Run
    <2>4. ASSUME NEW c \in Callers, Cancel(c) PROVE BucketInv'
        BY <2>2, <2>4 DEF Cancel
    <2>5. CASE UNCHANGED vars
        BY <2>2, <2>5 DEF vars, policyVars
    <2> QED
        BY <2>1, <2>3, <2>4, <2>5 DEF Next
<1>2. BucketInv => SpentBucketIsNotOverdrawn
    BY DEF BucketInv, SpentBucketIsNotOverdrawn
<1> QED
    BY <1>1, <1>2, BucketInit, PTL DEF Spec

=============================================================================
