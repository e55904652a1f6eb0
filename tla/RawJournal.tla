----------------------------- MODULE RawJournal -----------------------------
(***************************************************************************)
(* The raw frame journal: one file of JSON lines, opened in append mode by *)
(* one connection after another (ingest/raw_journal.py).                   *)
(*                                                                         *)
(* A line reaches the file in pieces.  Three are enough: "head", which is  *)
(* no JSON by itself, "tail", which completes the object, and "newline".   *)
(* Between the program and the file lies the handle's buffer; between the  *)
(* file and the disk lies the operating system.                            *)
(***************************************************************************)
EXTENDS Integers, Sequences

CONSTANTS
  MaxRecords,  \* bound on the records written
  MaxOpens     \* bound on how often the file is opened

ASSUME JournalBounds == MaxRecords \in Nat /\ MaxOpens \in Nat

VARIABLES
  file,      \* the pieces the operating system holds
  stable,    \* how many of them are on the disk for certain
  buffer,    \* pieces written to the handle and not yet to the file
  isOpen,    \* the handle is open
  fsync,     \* the option the journal was opened with
  opens,     \* number of opens so far
  written,   \* records write() was called with: record n is the n-th
  promised,  \* records write() returned for, less what a machine failure may take
  durable    \* the promised records that were fsynced

journalVars ==
  <<file, stable, buffer, isOpen, fsync, opens, written, promised, durable>>

RecordId == Nat \ {0}
Piece == [record : RecordId, part : {"head", "tail", "newline"}]

Line(r) == <<[record |-> r, part |-> "head"], [record |-> r, part |-> "tail"],
             [record |-> r, part |-> "newline"]>>

-----------------------------------------------------------------------------
(* The readers.                                                            *)

EndsLine(p) == file[p].part = "newline"
StartsLine(p) == p = 1 \/ EndsLine(p - 1)

\* The pieces from p on are the line of record r, whatever stands before it.
HoldsLine(p, r) ==
  /\ file[p] = Line(r)[1] /\ file[p + 1] = Line(r)[2] /\ file[p + 2] = Line(r)[3]

\* from_json_line parses the line that ends at q: it is one record and no more.
\* An empty line is skipped.
Parses(q) ==
  \/ StartsLine(q)
  \/ /\ q - 2 \in DOMAIN file /\ StartsLine(q - 2)
     /\ HoldsLine(q - 2, file[q].record)

\* Mutant: a last line without its newline is corrupt like any other.
RaisesOnTail ==
  \/ \E q \in DOMAIN file : EndsLine(q) /\ ~Parses(q)
  \/ file # <<>> /\ ~EndsLine(Len(file))

\* read_journal_tolerant raises: some line that has its newline does not parse.
\* What stands after the last newline is only ever reported as a tail.
Raises == \E q \in DOMAIN file : EndsLine(q) /\ ~Parses(q)

\* The records read_journal_tolerant returns.
Returned ==
  {r \in 1..written : ~Raises /\
     \E p \in DOMAIN file : p + 2 \in DOMAIN file /\ StartsLine(p) /\ HoldsLine(p, r)}

-----------------------------------------------------------------------------
(* The writer.                                                             *)

\* __init__: open(path, "a").  The end of the file is not looked at.
Open(sync) ==
  /\ ~isOpen /\ opens < MaxOpens
  /\ isOpen' = TRUE
  /\ fsync' = sync
  /\ opens' = opens + 1
  /\ buffer' = <<>>
  /\ UNCHANGED <<file, stable, written, promised, durable>>

Pending == buffer \o Line(written + 1)

\* Mutant: the flush is left to the handle.
WriteUnflushed ==
  /\ isOpen /\ written < MaxRecords
  /\ buffer' = Pending
  /\ promised' = promised \cup {written + 1}
  /\ written' = written + 1
  /\ UNCHANGED <<file, stable, isOpen, fsync, opens, durable>>

\* write returns: everything pending was flushed, and fsynced if asked for.
Write ==
  /\ isOpen /\ written < MaxRecords
  /\ file' = file \o Pending
  /\ buffer' = <<>>
  /\ written' = written + 1
  /\ promised' = promised \cup {written + 1}
  /\ IF fsync THEN stable' = Len(file') /\ durable' = promised'
     ELSE UNCHANGED <<stable, durable>>
  /\ UNCHANGED <<isOpen, fsync, opens>>

\* write raises JournalError: the flush stopped after n pieces (or fsync failed
\* after all of them).  The handle keeps the rest for a later flush, or drops it
\* when the line is larger than its buffer.
WriteFails(n) ==
  /\ isOpen /\ written < MaxRecords
  /\ n < Len(Pending) \/ fsync
  /\ file' = file \o SubSeq(Pending, 1, n)
  /\ \/ buffer' = SubSeq(Pending, n + 1, Len(Pending))
     \/ buffer' = <<>>
  /\ written' = written + 1
  /\ UNCHANGED <<stable, isOpen, fsync, opens, promised, durable>>

\* close flushes what is left, as far as it gets; its failure is suppressed.
Close(n) ==
  /\ isOpen
  /\ isOpen' = FALSE
  /\ file' = file \o SubSeq(buffer, 1, n)
  /\ buffer' = <<>>
  /\ UNCHANGED <<stable, fsync, opens, written, promised, durable>>

-----------------------------------------------------------------------------
(* Failures.                                                               *)

\* The process dies: its buffer is gone, the file is not.
ProcessCrash ==
  /\ isOpen
  /\ isOpen' = FALSE
  /\ buffer' = <<>>
  /\ UNCHANGED <<file, stable, fsync, opens, written, promised, durable>>

\* The process dies inside write, after n pieces reached the file.
CrashInWrite(n) ==
  /\ isOpen /\ written < MaxRecords
  /\ file' = file \o SubSeq(Pending, 1, n)
  /\ isOpen' = FALSE
  /\ buffer' = <<>>
  /\ written' = written + 1
  /\ UNCHANGED <<stable, fsync, opens, promised, durable>>

\* The machine dies and keeps n pieces of the file, at least the stable ones.
MachineFailure(n) ==
  /\ file' = SubSeq(file, 1, n)
  /\ stable' = n
  /\ isOpen' = FALSE
  /\ buffer' = <<>>
  /\ promised' = durable
  /\ UNCHANGED <<fsync, opens, written, durable>>

JournalInit ==
  /\ file = <<>> /\ stable = 0 /\ buffer = <<>>
  /\ isOpen = FALSE /\ fsync = FALSE /\ opens = 0
  /\ written = 0 /\ promised = {} /\ durable = {}

JournalNext ==
  \/ \E sync \in BOOLEAN : Open(sync)
  \/ Write
  \/ \E n \in 0..Len(Pending) : WriteFails(n) \/ CrashInWrite(n)
  \/ \E n \in 0..Len(buffer) : Close(n)
  \/ ProcessCrash
  \/ \E n \in stable..Len(file) : MachineFailure(n)

JournalSpec == JournalInit /\ [][JournalNext]_journalVars

-----------------------------------------------------------------------------
(* Properties.                                                             *)

JournalTypeOK ==
  /\ file \in Seq(Piece) /\ buffer \in Seq(Piece)
  /\ stable \in 0..Len(file)
  /\ isOpen \in BOOLEAN /\ fsync \in BOOLEAN
  /\ opens \in Nat /\ written \in Nat
  /\ promised \in SUBSET (1..written) /\ durable \in SUBSET promised

\* "Historical tooling must not mistake a partial record for data", and must not
\* lose one either: whatever crashed, failed or was reopened in between, a reader
\* gets every record the journal accepted, or an error, never a shorter history.
NeverSilentlyLost == promised \subseteq Returned \/ Raises

\* "The process died mid-write.  Everything before this is intact": an interruption
\* by itself never makes a file unreadable; only a write behind it can.
OnlyWritingBehindATear ==
  [][~Raises /\ Raises' => isOpen /\ file # <<>> /\ ~EndsLine(Len(file))]_journalVars

=============================================================================
