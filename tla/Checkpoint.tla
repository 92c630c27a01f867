----------------------------- MODULE Checkpoint -----------------------------
(***************************************************************************)
(* The learned-state file of persist/checkpoint.py: a writer that collects *)
(* sections in memory and commits them through a temporary file, and a     *)
(* reader that loads a whole file and hands out its sections.  Any file    *)
(* operation may fail, a section body may raise, and the process may stop  *)
(* between any two steps and start again.                                  *)
(*                                                                         *)
(* A file is the sequence of the pieces written to it.  What a model       *)
(* learned is abstracted to the number of the save that serialized it.     *)
(* One process uses a path at a time; the file system keeps what was       *)
(* written when a process dies, and renames atomically.                    *)
(***************************************************************************)
EXTENDS Integers, Sequences, FiniteSets, TLC

CONSTANTS
  Models,      (* section names                                            *)
  Interrupts,  (* may a body raise what is not an Exception, such as
                  KeyboardInterrupt                                        *)
  MaxSaves     (* bound: writers opened                                    *)

ASSUME CheckpointAssumption == Interrupts \in BOOLEAN /\ MaxSaves \in Nat

Absent == 0                     (* no save restored; saves count from 1    *)
NoFile == <<<<"no file">>>>     (* the path does not exist                 *)
NoReader == [m \in {} |-> 0]

VARIABLES
  target,    (* the file at the path                                       *)
  temp,      (* the file at the path with .tmp appended                    *)
  pc,        (* "down", "up", "collecting" with a writer, in its "close"   *)
  sections,  (* _sections of the writer, in order of insertion             *)
  failed,    (* _failed                                                    *)
  written,   (* pieces close has written                                   *)
  saves,     (* the number of the writer at hand                           *)
  loaded,    (* _sections of the reader                                    *)
  restored,  (* history: the save each model was restored from             *)
  raised     (* history: did a section body of the writer at hand raise    *)

vars == <<target, temp, pc, sections, failed, written, saves, loaded, restored, raised>>

files == <<target, temp>>
writer == <<sections, failed, saves, raised>>
reader == <<loaded, restored>>

-----------------------------------------------------------------------------
(* The wire format.                                                        *)

(* A header of two pieces, then two for each section.                      *)
Encoded(secs, save) ==
  [i \in 1..(2 + 2 * Len(secs)) |->
     IF i = 1 THEN <<"magic">>
     ELSE IF i = 2 THEN <<"version">>
     ELSE IF i % 2 = 1 THEN <<"name", secs[i \div 2]>>
     ELSE <<"payload", secs[i \div 2 - 1], save>>]

(* What the reader accepts: a whole header and whole sections.  A file     *)
(* torn between two sections passes.                                       *)
Accepted(f) ==
  /\ Len(f) >= 2 /\ Len(f) % 2 = 0
  /\ f[1] = <<"magic">> /\ f[2] = <<"version">>
  /\ \A i \in 3..Len(f) : f[i][1] = IF i % 2 = 1 THEN "name" ELSE "payload"

Payload(f, i) == <<f[2 * i + 2][2], f[2 * i + 2][3]>>
Payloads(f) == [i \in 1..(Len(f) \div 2 - 1) |-> Payload(f, i)]

(* The reader's dict: a repeated name keeps the last payload.              *)
SavedIn(f) ==
  LET ps == Payloads(f) IN
  [m \in {ps[i][1] : i \in DOMAIN ps} |->
     ps[CHOOSE i \in DOMAIN ps : ps[i][1] = m /\ \A j \in (i + 1)..Len(ps) : ps[j][1] # m][2]]

-----------------------------------------------------------------------------
(* The writer.                                                             *)

Named(m) == \E i \in DOMAIN sections : sections[i] = m

OpenWriter ==
  /\ pc = "up" /\ saves < MaxSaves
  /\ pc' = "collecting" /\ sections' = <<>> /\ failed' = FALSE /\ raised' = FALSE
  /\ saves' = saves + 1
  /\ UNCHANGED <<files, written, reader>>

Section(m) ==
  /\ pc = "collecting"
  /\ IF Named(m) THEN failed' = TRUE /\ UNCHANGED sections
                 ELSE sections' = Append(sections, m) /\ UNCHANGED failed
  /\ UNCHANGED <<files, pc, written, saves, raised, reader>>

SectionRaises(m) ==
  /\ pc = "collecting" /\ ~Named(m)
  /\ failed' = TRUE /\ raised' = TRUE
  /\ UNCHANGED <<files, pc, sections, written, saves, reader>>

(* except Exception does not see it: the writer is not marked.             *)
SectionInterrupted(m) ==
  /\ Interrupts
  /\ pc = "collecting" /\ ~Named(m)
  /\ raised' = TRUE
  /\ UNCHANGED <<files, pc, sections, failed, written, saves, reader>>

(* close returns, or raises, to a caller that drops the writer or uses it  *)
(* again: __exit__ closes what the body of the with may have closed.       *)
Leave == pc' \in {"up", "collecting"}

CloseFailed ==
  /\ pc = "collecting" /\ failed
  /\ Leave
  /\ UNCHANGED <<files, writer, written, reader>>

OpenTempAppending ==
  /\ pc = "collecting" /\ ~failed
  /\ pc' = "close" /\ written' = 0
  /\ temp' = IF temp = NoFile THEN <<>> ELSE temp
  /\ UNCHANGED <<target, writer, reader>>

(* open(temp, "wb") truncates what a crash may have left.                  *)
OpenTemp ==
  /\ pc = "collecting" /\ ~failed
  /\ pc' = "close" /\ written' = 0 /\ temp' = <<>>
  /\ UNCHANGED <<target, writer, reader>>

(* The directory cannot be made, or the file cannot be opened.             *)
OpenTempFails ==
  /\ pc = "collecting" /\ ~failed
  /\ Leave
  /\ temp' \in {temp, NoFile}
  /\ UNCHANGED <<target, writer, written, reader>>

WritePiece ==
  /\ pc = "close" /\ written < Len(Encoded(sections, saves))
  /\ temp' = Append(temp, Encoded(sections, saves)[written + 1])
  /\ written' = written + 1
  /\ UNCHANGED <<target, pc, writer, reader>>

WriteFails ==
  /\ pc = "close"
  /\ temp' = NoFile
  /\ Leave
  /\ UNCHANGED <<target, writer, written, reader>>

Replace ==
  /\ pc = "close" /\ written = Len(Encoded(sections, saves))
  /\ target' = temp /\ temp' = NoFile
  /\ Leave
  /\ UNCHANGED <<writer, written, reader>>

(* os.replace fails, or an interrupt passes the except clause by.          *)
TempIsLeft ==
  /\ pc = "close" /\ (Interrupts \/ written = Len(Encoded(sections, saves)))
  /\ Leave
  /\ UNCHANGED <<files, writer, written, reader>>

-----------------------------------------------------------------------------
(* The reader.                                                             *)

MayRead == pc \in {"up", "collecting"}

OpenReader ==
  /\ MayRead /\ target # NoFile /\ Accepted(target)
  /\ loaded' = SavedIn(target)
  /\ restored' = [m \in Models |-> Absent]
  /\ UNCHANGED <<files, pc, writer, written>>

RestoreFromFile(m) ==
  /\ MayRead /\ m \in DOMAIN loaded \cap DOMAIN SavedIn(target)
  /\ restored' = [restored EXCEPT ![m] = SavedIn(target)[m]]
  /\ UNCHANGED <<files, pc, writer, written, loaded>>

(* section of an absent name returns False and touches nothing.            *)
Restore(m) ==
  /\ MayRead /\ m \in DOMAIN loaded
  /\ restored' = [restored EXCEPT ![m] = loaded[m]]
  /\ UNCHANGED <<files, pc, writer, written, loaded>>

-----------------------------------------------------------------------------
(* The process.  What was buffered when it stops may not have reached the  *)
(* temporary file.                                                         *)

Crash ==
  /\ pc # "down"
  /\ pc' = "down"
  /\ IF pc = "close" THEN \E n \in 0..Len(temp) : temp' = SubSeq(temp, 1, n)
                     ELSE UNCHANGED temp
  /\ loaded' = NoReader /\ restored' = [m \in Models |-> Absent]
  /\ UNCHANGED <<target, writer, written>>

Restart ==
  /\ pc = "down"
  /\ pc' = "up"
  /\ UNCHANGED <<files, writer, written, reader>>

Init ==
  /\ target = NoFile /\ temp = NoFile
  /\ pc = "up"
  /\ sections = <<>> /\ failed = TRUE /\ written = 0 /\ saves = 0 /\ raised = FALSE
  /\ loaded = NoReader /\ restored = [m \in Models |-> Absent]

Next ==
  \/ OpenWriter
  \/ \E m \in Models : Section(m) \/ SectionRaises(m) \/ SectionInterrupted(m)
  \/ CloseFailed
  \/ OpenTemp \/ OpenTempFails
  \/ WritePiece \/ WriteFails
  \/ Replace \/ TempIsLeft
  \/ OpenReader
  \/ \E m \in Models : Restore(m)
  \/ Crash \/ Restart

Spec == Init /\ [][Next]_vars

-----------------------------------------------------------------------------
(* Properties.                                                             *)

\* The type of the state: a writer holds every model at most once.
TypeOK ==
  /\ pc \in {"down", "up", "collecting", "close"}
  /\ sections \in Seq(Models)
  /\ \A i, j \in DOMAIN sections : sections[i] = sections[j] => i = j
  /\ failed \in BOOLEAN /\ raised \in BOOLEAN
  /\ written \in Nat /\ saves \in Nat
  /\ DOMAIN loaded \subseteq Models /\ \A m \in DOMAIN loaded : loaded[m] \in 1..saves
  /\ restored \in [Models -> 0..saves]

\* The file as an atomic register: what the reader would find in it, and what
\* the writer at hand would commit.
Torn == <<<<"torn">>>>
NoOffer == <<<<"nothing">>>>
Contents == IF target = NoFile THEN NoOffer
            ELSE IF Accepted(target) THEN Payloads(target) ELSE Torn
Offered == IF failed THEN NoOffer ELSE [i \in DOMAIN sections |-> <<sections[i], saves>>]

Store == INSTANCE CheckpointStore WITH
  Offers <- Seq(Models \X Nat), NoOffer <- NoOffer, stored <- Contents, offered <- Offered

\* Whatever fails or crashes and whatever an earlier crash left behind, the
\* file holds the whole of one writer's sections or yesterday's, never a part
\* or a mixture, and a failed writer commits nothing (lines 27-31).
StoreIsAtomic == Store!Spec

\* The models a reader restores come from one save, also when a later save
\* replaces the file in between (lines 31-32).
RestoredFromOneSave ==
  \A m, n \in Models :
    restored[m] # Absent /\ restored[n] # Absent => restored[m] = restored[n]

\* If any section writer raised, nothing is committed (lines 30-31).
RaisedCommitsNothing == [][target' # target => ~raised]_vars

\* For model checking: models differ only by name.
ModelSymmetry == Permutations(Models)
=============================================================================
