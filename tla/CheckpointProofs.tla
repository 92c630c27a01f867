-------------------------- MODULE CheckpointProofs --------------------------
(***************************************************************************)
(* Proofs about Checkpoint, for any models, saves and failures.            *)
(*                                                                         *)
(* That the file is an atomic register rests on one thing: when the rename *)
(* happens, the temporary file is exactly what one writer encodes.  The    *)
(* invariant says so of every prefix of the write, whatever an earlier     *)
(* crash had left in the temporary file, and of the file itself.           *)
(***************************************************************************)
EXTENDS Checkpoint, TLAPS

Whole(f) == \E secs \in Seq(Models), save \in 1..saves :
  f = Encoded(secs, save) /\ \A i, j \in DOMAIN secs : secs[i] = secs[j] => i = j

WriteInProgress ==
  pc = "close" =>
    /\ ~failed
    /\ written \in 0..Len(Encoded(sections, saves))
    /\ temp = [i \in 1..written |-> Encoded(sections, saves)[i]]

LoadedFromOne == \A m, n \in DOMAIN loaded : loaded[m] = loaded[n]

RestoredFromLoaded ==
  \A m \in Models : restored[m] # Absent => m \in DOMAIN loaded /\ restored[m] = loaded[m]

Inv ==
  /\ TypeOK
  /\ (pc \in {"collecting", "close"} \/ ~failed) => saves > 0
  /\ target = NoFile \/ Whole(target)
  /\ WriteInProgress
  /\ LoadedFromOne
  /\ RestoredFromLoaded

-----------------------------------------------------------------------------
(* The wire format.                                                        *)

Piece == {<<"magic">>, <<"version">>}
           \cup {<<"name", m>> : m \in Models}
           \cup {<<"payload", m, k>> : m \in Models, k \in Nat}

\* The pieces of an encoded list of sections, one by one.
LEMMA EncodedPieces ==
  ASSUME NEW secs \in Seq(Models), NEW save \in Nat
  PROVE  /\ Encoded(secs, save) \in Seq(Piece)
         /\ Len(Encoded(secs, save)) = 2 + 2 * Len(secs)
         /\ Encoded(secs, save)[1] = <<"magic">>
         /\ Encoded(secs, save)[2] = <<"version">>
         /\ \A k \in 1..Len(secs) :
              /\ Encoded(secs, save)[2 * k + 1] = <<"name", secs[k]>>
              /\ Encoded(secs, save)[2 * k + 2] = <<"payload", secs[k], save>>
<1>1. PICK n \in Nat : n = Len(secs)
  OBVIOUS
<1> DEFINE piece(i) == IF i = 1 THEN <<"magic">>
                       ELSE IF i = 2 THEN <<"version">>
                       ELSE IF i % 2 = 1 THEN <<"name", secs[i \div 2]>>
                       ELSE <<"payload", secs[i \div 2 - 1], save>>
<1>2. Encoded(secs, save) = [i \in 1..(2 + 2 * n) |-> piece(i)]
  BY <1>1 DEF Encoded
<1>3. ASSUME NEW i \in 1..(2 + 2 * n) PROVE piece(i) \in Piece
  <2>1. CASE i = 1 \/ i = 2
    BY <2>1 DEF Piece
  <2>2. CASE i > 2 /\ i % 2 = 1
    <3>1. i \div 2 \in 1..n
      BY <2>2
    <3>2. secs[i \div 2] \in Models
      BY <1>1, <3>1
    <3> QED BY <2>2, <3>2 DEF Piece
  <2>3. CASE i > 2 /\ i % 2 # 1
    <3>1. i \div 2 - 1 \in 1..n
      BY <2>3
    <3>2. secs[i \div 2 - 1] \in Models
      BY <1>1, <3>1
    <3> QED BY <2>3, <3>2 DEF Piece
  <2> QED BY <2>1, <2>2, <2>3
<1>4. ASSUME NEW k \in 1..n
      PROVE  piece(2 * k + 1) = <<"name", secs[k]>> /\ piece(2 * k + 2) = <<"payload", secs[k], save>>
  <2>1. /\ 2 * k + 1 # 1 /\ 2 * k + 1 # 2 /\ (2 * k + 1) % 2 = 1 /\ (2 * k + 1) \div 2 = k
        /\ 2 * k + 2 # 1 /\ 2 * k + 2 # 2 /\ (2 * k + 2) % 2 # 1 /\ (2 * k + 2) \div 2 - 1 = k
    OBVIOUS
  <2> QED BY <2>1
<1>5. \A k \in 1..n : 2 * k + 1 \in 1..(2 + 2 * n) /\ 2 * k + 2 \in 1..(2 + 2 * n)
  OBVIOUS
<1>6. Encoded(secs, save) \in Seq(Piece) /\ Len(Encoded(secs, save)) = 2 + 2 * n
  BY <1>2, <1>3
<1>7. piece(1) = <<"magic">> /\ piece(2) = <<"version">>
  OBVIOUS
<1> HIDE DEF piece
<1> QED
  BY <1>1, <1>2, <1>4, <1>5, <1>6, <1>7

\* A reader accepts it and finds in it what was put in.
LEMMA EncodedReadsBack ==
  ASSUME NEW secs \in Seq(Models), NEW save \in Nat
  PROVE  /\ Encoded(secs, save) # NoFile
         /\ Accepted(Encoded(secs, save))
         /\ Payloads(Encoded(secs, save)) = [i \in DOMAIN secs |-> <<secs[i], save>>]
<1>1. PICK n \in Nat : n = Len(secs)
  OBVIOUS
<1>2. PICK f : f = Encoded(secs, save)
  OBVIOUS
<1>3. /\ f \in Seq(Piece) /\ Len(f) = 2 + 2 * n
      /\ f[1] = <<"magic">> /\ f[2] = <<"version">>
      /\ \A k \in 1..n : f[2 * k + 1] = <<"name", secs[k]>>
                       /\ f[2 * k + 2] = <<"payload", secs[k], save>>
  BY <1>1, <1>2, EncodedPieces
<1>4. f # NoFile
  <2>1. Len(NoFile) = 1
    BY DEF NoFile
  <2>2. Len(f) # 1
    BY <1>1, <1>3
  <2> QED BY <2>1, <2>2
<1>5. Accepted(f)
  <2>1. Len(f) >= 2 /\ Len(f) % 2 = 0
    BY <1>3
  <2>2. ASSUME NEW i \in 3..Len(f)
        PROVE  f[i][1] = IF i % 2 = 1 THEN "name" ELSE "payload"
    <3>1. CASE i % 2 = 1
      <4>1. PICK k \in 1..n : i = 2 * k + 1
        <5>1. i \div 2 \in 1..n /\ i = 2 * (i \div 2) + 1
          BY <1>3, <3>1
        <5> QED BY <5>1
      <4>2. f[i] = <<"name", secs[k]>>
        BY <1>3, <4>1
      <4> QED BY <3>1, <4>2
    <3>2. CASE i % 2 # 1
      <4>1. PICK k \in 1..n : i = 2 * k + 2
        <5>1. i \div 2 - 1 \in 1..n /\ i = 2 * (i \div 2 - 1) + 2
          BY <1>3, <3>2
        <5> QED BY <5>1
      <4>2. f[i] = <<"payload", secs[k], save>>
        BY <1>3, <4>1
      <4> QED BY <3>2, <4>2
    <3> QED BY <3>1, <3>2
  <2> QED BY <1>3, <2>1, <2>2 DEF Accepted
<1>6. Payloads(f) = [i \in DOMAIN secs |-> <<secs[i], save>>]
  <2>1. Len(f) \div 2 - 1 = n /\ DOMAIN secs = 1..n
    BY <1>1, <1>3
  <2>2. \A i \in 1..n : Payload(f, i) = <<secs[i], save>>
    BY <1>3 DEF Payload
  <2> QED BY <2>1, <2>2 DEF Payloads
<1> QED
  BY <1>2, <1>4, <1>5, <1>6

\* The sections a reader holds are all of the save that wrote the file.
LEMMA WholeFileSaved ==
  ASSUME TypeOK, NEW f, Whole(f)
  PROVE  /\ DOMAIN SavedIn(f) \subseteq Models
         /\ \A m \in DOMAIN SavedIn(f) : SavedIn(f)[m] \in 1..saves
         /\ \A m, n \in DOMAIN SavedIn(f) : SavedIn(f)[m] = SavedIn(f)[n]
<1>1. PICK secs \in Seq(Models), save \in 1..saves :
        /\ f = Encoded(secs, save)
        /\ \A i, j \in DOMAIN secs : secs[i] = secs[j] => i = j
  BY DEF Whole
<1>2. save \in Nat
  BY DEF TypeOK
<1>3. PICK ps : ps = [i \in DOMAIN secs |-> <<secs[i], save>>]
  OBVIOUS
<1>4. Payloads(f) = ps /\ DOMAIN ps = 1..Len(secs) /\ Len(ps) = Len(secs)
      /\ \A i \in DOMAIN ps : ps[i][1] = secs[i] /\ ps[i][2] = save
  BY <1>1, <1>2, <1>3, EncodedReadsBack
<1>5. PICK names : names = {ps[i][1] : i \in DOMAIN ps}
  OBVIOUS
<1>6. names \subseteq Models
  BY <1>4, <1>5
<1>7. ASSUME NEW m \in names
      PROVE  \E i \in DOMAIN ps : ps[i][1] = m /\ \A j \in (i + 1)..Len(ps) : ps[j][1] # m
  <2>1. PICK i \in DOMAIN ps : ps[i][1] = m
    BY <1>5
  <2>2. ASSUME NEW j \in (i + 1)..Len(ps) PROVE ps[j][1] # m
    BY <1>1, <1>4, <2>1
  <2> QED BY <2>1, <2>2
<1>8. SavedIn(f) = [m \in names |->
        ps[CHOOSE i \in DOMAIN ps : ps[i][1] = m /\ \A j \in (i + 1)..Len(ps) : ps[j][1] # m][2]]
  BY <1>4, <1>5 DEF SavedIn
<1>9. \A m \in names : SavedIn(f)[m] = save
  BY <1>4, <1>7, <1>8
<1> QED
  BY <1>6, <1>8, <1>9

-----------------------------------------------------------------------------
(* The invariant.                                                          *)

LEMMA InitEstablishes == Init => Inv
<1> SUFFICES ASSUME Init PROVE Inv
  OBVIOUS
<1>1. TypeOK
  <2>1. failed \in BOOLEAN /\ raised \in BOOLEAN
    BY DEF Init
  <2> QED BY <2>1 DEF Init, TypeOK, NoReader, Absent
<1> QED
  BY <1>1 DEF Init, Inv, WriteInProgress, LoadedFromOne, RestoredFromLoaded, NoReader

\* What leaves the writer, the reader and the file alone keeps the invariant
\* but for the write in progress.
LEMMA FilesAloneKeep ==
  ASSUME Inv, UNCHANGED <<target, sections, failed, saves, loaded, restored, raised>>,
         pc' \in {"down", "up", "collecting", "close"}, written' \in Nat,
         pc' \in {"collecting", "close"} => pc \in {"collecting", "close"},
         WriteInProgress'
  PROVE  Inv'
<1>1. TypeOK'
  <2>1. failed' \in BOOLEAN /\ raised' \in BOOLEAN
    BY DEF Inv, TypeOK
  <2> QED BY <2>1 DEF Inv, TypeOK
<1>2. (target = NoFile \/ Whole(target))'
  BY DEF Inv, Whole
<1> QED
  BY <1>1, <1>2 DEF Inv, LoadedFromOne, RestoredFromLoaded

LEMMA SectionsKeep ==
  ASSUME Inv, NEW m \in Models, Section(m) \/ SectionRaises(m) \/ SectionInterrupted(m)
  PROVE  Inv'
<1>1. pc = "collecting" /\ UNCHANGED <<files, pc, written, saves, reader>>
  BY DEF Section, SectionRaises, SectionInterrupted
<1>2. sections \in Seq(Models) /\ failed \in BOOLEAN /\ raised \in BOOLEAN
  BY DEF Inv, TypeOK
<1>3. failed' \in BOOLEAN /\ raised' \in BOOLEAN
  BY <1>2 DEF Section, SectionRaises, SectionInterrupted
<1>4. sections' = sections \/ (~Named(m) /\ sections' = Append(sections, m))
  BY DEF Section, SectionRaises, SectionInterrupted
<1>5. /\ sections' \in Seq(Models)
      /\ \A i, j \in DOMAIN sections' : sections'[i] = sections'[j] => i = j
  <2>1. CASE sections' = sections
    BY <1>2, <2>1 DEF Inv, TypeOK
  <2>2. CASE ~Named(m) /\ sections' = Append(sections, m)
    BY <1>2, <2>2 DEF Inv, TypeOK, Named
  <2> QED BY <1>4, <2>1, <2>2
<1>6. TypeOK'
  BY <1>1, <1>3, <1>5 DEF Inv, TypeOK, reader
<1>7. (target = NoFile \/ Whole(target))'
  BY <1>1 DEF Inv, Whole, files
<1> QED
  BY <1>1, <1>6, <1>7 DEF Inv, WriteInProgress, LoadedFromOne, RestoredFromLoaded, reader

LEMMA OpenWriterKeeps ==
  ASSUME Inv, OpenWriter
  PROVE  Inv'
<1>1. saves \in Nat /\ saves' = saves + 1
  BY DEF Inv, TypeOK, OpenWriter
<1>2. TypeOK'
  <2>1. failed' \in BOOLEAN /\ raised' \in BOOLEAN
    BY DEF OpenWriter
  <2>2. 1..saves \subseteq 1..saves' /\ 0..saves \subseteq 0..saves'
    BY <1>1
  <2>3. sections' = <<>> /\ pc' = "collecting" /\ UNCHANGED <<written, loaded, restored>>
    BY DEF OpenWriter, reader
  <2>4. restored' \in [Models -> 0..saves']
    BY <2>2, <2>3 DEF Inv, TypeOK
  <2>5. \A m \in DOMAIN loaded' : loaded'[m] \in 1..saves'
    BY <2>2, <2>3 DEF Inv, TypeOK
  <2> QED BY <1>1, <2>1, <2>3, <2>4, <2>5 DEF Inv, TypeOK
<1>3. (target = NoFile \/ Whole(target))'
  <2>1. target' = target /\ 1..saves \subseteq 1..saves'
    BY <1>1 DEF OpenWriter, files
  <2> QED BY <2>1 DEF Inv, Whole
<1> QED
  BY <1>1, <1>2, <1>3
  DEF Inv, WriteInProgress, LoadedFromOne, RestoredFromLoaded, OpenWriter, reader

\* One piece more of the encoding reaches the temporary file.
LEMMA WritePieceKeeps ==
  ASSUME Inv, WritePiece
  PROVE  Inv'
<1>1. sections \in Seq(Models) /\ saves \in Nat
  BY DEF Inv, TypeOK
<1>2. PICK e : e = Encoded(sections, saves)
  OBVIOUS
<1>3. e \in Seq(Piece)
  BY <1>1, <1>2, EncodedPieces
<1>4. pc = "close" /\ ~failed /\ written \in 0..Len(e) /\ temp = [i \in 1..written |-> e[i]]
  BY <1>2 DEF Inv, WriteInProgress, WritePiece
<1>5. written < Len(e) /\ temp' = Append(temp, e[written + 1]) /\ written' = written + 1
      /\ UNCHANGED <<target, pc, sections, failed, saves, raised, loaded, restored>>
  BY <1>2 DEF WritePiece, writer, reader
<1>6. temp' = [i \in 1..(written + 1) |-> e[i]]
  <2>1. temp \in Seq(Piece) /\ Len(temp) = written
    BY <1>3, <1>4
  <2> QED BY <1>3, <1>4, <1>5, <2>1
<1>7. WriteInProgress'
  <2>1. Encoded(sections, saves)' = e
    BY <1>2, <1>5
  <2> QED BY <1>3, <1>4, <1>5, <1>6, <2>1 DEF WriteInProgress
<1> QED
  BY <1>4, <1>5, <1>7, FilesAloneKeep

\* When every piece is written the temporary file is the encoding.
LEMMA ReplacesWithWhole ==
  ASSUME Inv, Replace
  PROVE  target' = Encoded(sections, saves) /\ ~failed /\ saves > 0
<1>1. sections \in Seq(Models) /\ saves \in Nat
  BY DEF Inv, TypeOK
<1>2. PICK e : e = Encoded(sections, saves)
  OBVIOUS
<1>3. e \in Seq(Piece)
  BY <1>1, <1>2, EncodedPieces
<1>4. temp = [i \in 1..Len(e) |-> e[i]] /\ ~failed /\ pc = "close"
  BY <1>2 DEF Inv, WriteInProgress, Replace
<1>5. temp = e
  BY <1>3, <1>4
<1> QED
  BY <1>2, <1>4, <1>5 DEF Replace, Inv

LEMMA ReplaceKeeps ==
  ASSUME Inv, Replace
  PROVE  Inv'
<1>1. UNCHANGED <<sections, failed, saves, raised, written, loaded, restored>>
      /\ pc' \in {"up", "collecting"} /\ pc = "close"
  BY DEF Replace, Leave, writer, reader
<1>2. Whole(target)'
  <2>1. sections \in Seq(Models) /\ saves \in Nat /\ saves > 0
    BY ReplacesWithWhole DEF Inv, TypeOK
  <2>2. target' = Encoded(sections, saves) /\ saves \in 1..saves /\ saves' = saves
    BY <1>1, <2>1, ReplacesWithWhole
  <2> QED BY <2>1, <2>2 DEF Inv, TypeOK, Whole
<1>3. TypeOK'
  <2>1. failed' \in BOOLEAN /\ raised' \in BOOLEAN
    BY <1>1 DEF Inv, TypeOK
  <2> QED BY <1>1, <2>1 DEF Inv, TypeOK
<1> QED
  BY <1>1, <1>2, <1>3 DEF Inv, WriteInProgress, LoadedFromOne, RestoredFromLoaded

LEMMA OpenReaderKeeps ==
  ASSUME Inv, OpenReader
  PROVE  Inv'
<1>1. UNCHANGED <<target, temp, pc, sections, failed, saves, raised, written>>
      /\ loaded' = SavedIn(target) /\ restored' = [m \in Models |-> Absent]
      /\ Whole(target)
  BY DEF OpenReader, files, writer, Inv
<1>2. /\ DOMAIN loaded' \subseteq Models
      /\ \A m \in DOMAIN loaded' : loaded'[m] \in 1..saves
      /\ \A m, n \in DOMAIN loaded' : loaded'[m] = loaded'[n]
  BY <1>1, WholeFileSaved DEF Inv
<1>3. TypeOK'
  <2>1. failed' \in BOOLEAN /\ raised' \in BOOLEAN
    BY <1>1 DEF Inv, TypeOK
  <2> QED BY <1>1, <1>2, <2>1 DEF Inv, TypeOK, Absent
<1>4. (target = NoFile \/ Whole(target))'
  BY <1>1 DEF Inv, Whole
<1> QED
  BY <1>1, <1>2, <1>3, <1>4 DEF Inv, WriteInProgress, LoadedFromOne, RestoredFromLoaded

LEMMA RestoreKeeps ==
  ASSUME Inv, NEW m \in Models, Restore(m)
  PROVE  Inv'
<1>1. UNCHANGED <<target, temp, pc, sections, failed, saves, raised, written, loaded>>
      /\ m \in DOMAIN loaded /\ restored' = [restored EXCEPT ![m] = loaded[m]]
  BY DEF Restore, files, writer
<1>2. loaded[m] \in 1..saves /\ saves \in Nat
  BY <1>1 DEF Inv, TypeOK
<1>3. TypeOK'
  <2>1. failed' \in BOOLEAN /\ raised' \in BOOLEAN
    BY <1>1 DEF Inv, TypeOK
  <2>2. restored' \in [Models -> 0..saves]
    BY <1>1, <1>2 DEF Inv, TypeOK
  <2> QED BY <1>1, <2>1, <2>2 DEF Inv, TypeOK
<1>4. (target = NoFile \/ Whole(target))'
  BY <1>1 DEF Inv, Whole
<1>5. RestoredFromLoaded'
  BY <1>1 DEF Inv, TypeOK, RestoredFromLoaded
<1> QED
  BY <1>1, <1>3, <1>4, <1>5 DEF Inv, WriteInProgress, LoadedFromOne

LEMMA CrashKeeps ==
  ASSUME Inv, Crash
  PROVE  Inv'
<1>1. UNCHANGED <<target, sections, failed, saves, raised, written>> /\ pc' = "down"
      /\ loaded' = NoReader /\ restored' = [m \in Models |-> Absent]
  BY DEF Crash, writer
<1>2. TypeOK'
  <2>1. failed' \in BOOLEAN /\ raised' \in BOOLEAN
    BY <1>1 DEF Inv, TypeOK
  <2> QED BY <1>1, <2>1 DEF Inv, TypeOK, NoReader, Absent
<1>3. (target = NoFile \/ Whole(target))'
  BY <1>1 DEF Inv, Whole
<1> QED
  BY <1>1, <1>2, <1>3 DEF Inv, WriteInProgress, LoadedFromOne, RestoredFromLoaded, NoReader

\* Opening, failing, leaving and restarting touch no more than the temporary
\* file and the place of the process.
LEMMA OthersKeep ==
  ASSUME Inv, CloseFailed \/ OpenTemp \/ OpenTempFails \/ WriteFails \/ TempIsLeft \/ Restart
  PROVE  Inv'
<1>1. UNCHANGED <<target, sections, failed, saves, loaded, restored, raised>>
      /\ pc' \in {"up", "collecting", "close"} /\ written' \in Nat
      /\ (pc' \in {"collecting", "close"} => pc \in {"collecting", "close"})
  BY DEF CloseFailed, OpenTemp, OpenTempFails, WriteFails, TempIsLeft, Restart, Leave,
         files, writer, reader, Inv, TypeOK
<1>2. CASE OpenTemp
  <2>1. sections' \in Seq(Models) /\ saves' \in Nat
    BY <1>1 DEF Inv, TypeOK
  <2>2. Len(Encoded(sections', saves')) \in Nat
    BY <2>1, EncodedPieces
  <2>3. temp' = <<>> /\ written' = 0 /\ ~failed'
    BY <1>1, <1>2 DEF OpenTemp
  <2>4. WriteInProgress'
    BY <2>2, <2>3 DEF WriteInProgress
  <2> QED BY <1>1, <2>4, FilesAloneKeep
<1>3. CASE ~OpenTemp
  <2>1. pc' # "close"
    BY <1>3 DEF CloseFailed, OpenTempFails, WriteFails, TempIsLeft, Restart, Leave
  <2>2. WriteInProgress'
    BY <2>1 DEF WriteInProgress
  <2> QED BY <1>1, <2>2, FilesAloneKeep
<1> QED
  BY <1>2, <1>3

LEMMA StutterKeeps ==
  ASSUME Inv, UNCHANGED vars
  PROVE  Inv'
<1>1. UNCHANGED <<target, temp, pc, sections, failed, written, saves, loaded, restored, raised>>
  BY DEF vars
<1>2. WriteInProgress'
  BY <1>1 DEF Inv, WriteInProgress
<1>3. written \in Nat /\ pc \in {"down", "up", "collecting", "close"}
  BY DEF Inv, TypeOK
<1> QED
  BY <1>1, <1>2, <1>3, FilesAloneKeep

LEMMA NextKeeps == Inv /\ [Next]_vars => Inv'
<1> SUFFICES ASSUME Inv, [Next]_vars PROVE Inv'
  OBVIOUS
<1>1. ASSUME NEW m \in Models, Section(m) \/ SectionRaises(m) \/ SectionInterrupted(m)
      PROVE  Inv'
  BY <1>1, SectionsKeep
<1>2. ASSUME NEW m \in Models, Restore(m) PROVE Inv'
  BY <1>2, RestoreKeeps
<1> QED
  BY <1>1, <1>2, OpenWriterKeeps, OthersKeep, WritePieceKeeps, ReplaceKeeps, OpenReaderKeeps,
     CrashKeeps, StutterKeeps DEF Next

-----------------------------------------------------------------------------
(* Theorems.                                                               *)

\* The invariant holds of every run of every writer.
THEOREM InvHolds == Spec => []Inv
BY InitEstablishes, NextKeeps, PTL DEF Spec

\* Every file and every reader holds each model at most once (section).
THEOREM CheckpointTypeCorrect == Spec => []TypeOK
BY InvHolds, PTL DEF Inv

\* A session restores its models from one save (CheckpointReader.section).
THEOREM OneSaveCorrect == Spec => []RestoredFromOneSave
<1>1. Inv => RestoredFromOneSave
  BY DEF Inv, LoadedFromOne, RestoredFromLoaded, RestoredFromOneSave
<1> QED
  BY <1>1, InvHolds, PTL

\* Every step is a step of the atomic register or changes nothing in it.
LEMMA StepRefines == Inv /\ Inv' /\ [Next]_vars => [Store!Next]_<<Contents, Offered>>
<1> SUFFICES ASSUME Inv, Inv', [Next]_vars PROVE [Store!Next]_<<Contents, Offered>>
  OBVIOUS
<1>1. Offered' \in Seq(Models \X Nat) \cup {NoOffer}
  <2>1. sections' \in Seq(Models) /\ saves' \in Nat
    BY DEF Inv, TypeOK
  <2>2. PICK o : o = [i \in DOMAIN sections' |-> <<sections'[i], saves'>>]
    OBVIOUS
  <2>3. o \in Seq(Models \X Nat)
    BY <2>1, <2>2
  <2> QED BY <2>2, <2>3 DEF Offered
<1>2. CASE target' = target
  <2>1. Contents' = Contents
    BY <1>2 DEF Contents, Payloads, Payload, Accepted
  <2>2. Store!Offer
    BY <1>1, <2>1 DEF Store!Offer
  <2> QED BY <2>2 DEF Store!Next
<1>3. CASE target' # target
  <2>1. Replace
    BY <1>3 DEF Next, vars, files, OpenWriter, Section, SectionRaises, SectionInterrupted,
       CloseFailed, OpenTemp, OpenTempFails, WritePiece, WriteFails, TempIsLeft,
       OpenReader, Restore, Crash, Restart
  <2>2. sections \in Seq(Models) /\ saves \in Nat
    BY DEF Inv, TypeOK
  <2>3. target' = Encoded(sections, saves) /\ ~failed
        /\ UNCHANGED <<sections, failed, saves>>
    BY <2>1, ReplacesWithWhole DEF Replace, writer
  <2>4. Contents' = Payloads(target')
    BY <2>2, <2>3, EncodedReadsBack DEF Contents, Payloads, Payload, Accepted
  <2>5. Contents' = Offered /\ Offered' = Offered
    BY <2>2, <2>3, <2>4, EncodedReadsBack DEF Offered
  <2>6. Offered # NoOffer
    <3>1. PICK n \in Nat : n = Len(sections) /\ DOMAIN sections = 1..n
      BY <2>2
    <3>2. PICK o : o = [i \in 1..n |-> <<sections[i], saves>>]
      OBVIOUS
    <3>3. Offered = o
      BY <2>3, <3>1, <3>2 DEF Offered
    <3>4. SUFFICES ASSUME o = NoOffer PROVE FALSE
      BY <3>3
    <3>5. DOMAIN o = 1..1 /\ o[1] = <<"nothing">>
      BY <3>4 DEF NoOffer
    <3>6. 1 \in 1..n
      BY <3>2, <3>5
    <3>7. o[1] = <<sections[1], saves>>
      BY <3>2, <3>6
    <3>8. DOMAIN <<"nothing">> = 1..1 /\ DOMAIN <<sections[1], saves>> = 1..2
      OBVIOUS
    <3>9. 2 \in 1..2 /\ 2 \notin 1..1
      OBVIOUS
    <3> QED BY <3>5, <3>7, <3>8, <3>9
  <2>7. Store!Commit
    BY <2>5, <2>6 DEF Store!Commit
  <2> QED BY <2>7 DEF Store!Next
<1> QED
  BY <1>2, <1>3

\* The writer implements an atomic register of whole saves (close).
THEOREM StoreCorrect == Spec => StoreIsAtomic
<1>1. Init => Store!Init
  BY DEF Init, Store!Init, Contents, Offered
<1>2. Spec => []Inv
  BY InvHolds
<1> QED
  BY <1>1, <1>2, StepRefines, PTL DEF Spec, StoreIsAtomic, Store!Spec

\* Without interrupts, no file changes by a writer one of whose sections
\* raised (section, lines 30-31 of the documentation).
THEOREM NoInterruptNothingCommitted ==
  ASSUME Interrupts = FALSE
  PROVE  Spec => RaisedCommitsNothing
<1> DEFINE Marked == raised => failed
<1>1. Init => Marked
  BY DEF Init
<1>2. Inv /\ Marked /\ [Next]_vars => Marked'
  BY DEF Next, vars, writer, OpenWriter, Section, SectionRaises, SectionInterrupted,
     CloseFailed, OpenTemp, OpenTempFails, WritePiece, WriteFails, Replace, TempIsLeft,
     OpenReader, Restore, Crash, Restart
<1>3. Inv /\ Marked /\ [Next]_vars => [target' # target => ~raised]_vars
  <2> SUFFICES ASSUME Inv, Marked, [Next]_vars, target' # target PROVE ~raised
    OBVIOUS
  <2>1. Replace
    BY DEF Next, vars, files, OpenWriter, Section, SectionRaises, SectionInterrupted,
       CloseFailed, OpenTemp, OpenTempFails, WritePiece, WriteFails, TempIsLeft,
       OpenReader, Restore, Crash, Restart
  <2> QED BY <2>1, ReplacesWithWhole
<1>4. Spec => []Inv
  BY InvHolds
<1> QED
  BY <1>1, <1>2, <1>3, <1>4, PTL DEF Spec, RaisedCommitsNothing
=============================================================================
