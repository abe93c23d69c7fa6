--------------------------- MODULE LoadFile_proofs ---------------------------
(***************************************************************************)
(* Proofs about LoadFile, for any number of chunks, readers and clients:   *)
(* what is put in place is complete and stays, the chunks are there when   *)
(* they are concatenated, and a load is a FileLoad.                        *)
(*                                                                         *)
(* The argument: a file in place only changes from partial to whole        *)
(* (DestChange), so that a chunk that was there once is there when the     *)
(* last one has been loaded.  LoadInv keeps what each reader has seen.     *)
(***************************************************************************)
EXTENDS LoadFile, TLAPS

\* what a step may do to the files in place
DestChange ==
  /\ dest' \in [File -> Stored \cup {Absent}]
  /\ \A f \in File :
       \/ dest'[f] = dest[f]
       \/ /\ dest[f] = Absent
          /\ dest'[f].content = "partial" => dest'[f].by = "stream"
          /\ dest'[f].content = "wrong" => dest'[f].by = "storeFile"
       \/ /\ dest[f].content = "partial"
          /\ dest'[f].content = "whole" /\ dest'[f].by = dest[f].by

\* the call of a reader, at each point of his load
ReaderCall(l) ==
  /\ load[l].pc \in {"idle", "opening", "found", "fetching", "hung"} => call[l] = Idle
  /\ load[l].pc = "storing" =>
       \/ call[l] = Idle /\ There(Fetched(l))
       \/ At(l, "storeFile", "writing") /\ call[l].file = Fetched(l)
  /\ load[l].pc = "concatenating" =>
       \/ call[l] = Idle /\ There(Whole)
       \/ call[l].op = "concat"
  /\ call[l].op = "concat" => load[l].pc = "concatenating" /\ AllThere

\* the chunks that he has seen
ReaderChunks(l) ==
  /\ load[l].pc = "idle" => load[l].chunk = 0
  /\ load[l].pc = "found" => There(Fetched(l)) \/ There(Whole)
  /\ load[l].pc \in {"opening", "found", "fetching", "hung", "storing"} =>
       \A i \in Chunk : i < load[l].chunk => There(i) \/ There(Whole)

LoadInv ==
  /\ LoadTypeOK
  /\ PutWhole
  /\ \A l \in Load : ReaderCall(l) /\ ReaderChunks(l)

-----------------------------------------------------------------------------
(* Files in place.                                                         *)

LEMMA PutChanges ==
  ASSUME StorageTypeOK, NEW f \in File, NEW by, NEW content,
         [by |-> by, content |-> content] \in Stored,
         content = "partial" => by = "stream",
         content = "wrong" => by = "storeFile",
         Put(f, by, content)
  PROVE  DestChange
<1>1. CASE There(f)
  BY <1>1 DEF Put, DestChange, StorageTypeOK
<1>2. CASE ~There(f)
  <2>1. dest' = [dest EXCEPT ![f] = [by |-> by, content |-> content]]
    BY <1>2 DEF Put
  <2> QED
    BY <1>2, <2>1 DEF DestChange, StorageTypeOK, There
<1> QED
  BY <1>1, <1>2

LEMMA FlushChanges ==
  ASSUME StorageTypeOK, NEW c \in Caller, Flush(c)
  PROVE  DestChange
<1> DEFINE f == call[c].file
<1>1. f \in File
  BY DEF StorageTypeOK, Flush, Waiting, Idle
<1>2. dest[f] \in Stored
  BY <1>1 DEF StorageTypeOK, Flush, Absent
<1>3. dest' = [dest EXCEPT ![f].content = "whole"]
  BY DEF Flush
<1>4. dest'[f] \in Stored /\ dest'[f].content = "whole" /\ dest'[f].by = dest[f].by
  BY <1>1, <1>2, <1>3 DEF Stored, StorageTypeOK
<1>5. dest[f].content = "partial"
  BY DEF Flush
<1> HIDE DEF f
<1> QED
  BY <1>1, <1>3, <1>4, <1>5 DEF DestChange, StorageTypeOK

LEMMA StreamChanges ==
  ASSUME StorageTypeOK, NEW c \in Caller, StreamEnds(c)
  PROVE  DestChange
<1>1. CASE call[c].op = "link" \/ There(call[c].file)
  BY <1>1 DEF StreamEnds, DestChange, StorageTypeOK
<1>2. CASE ~(call[c].op = "link" \/ There(call[c].file))
  <2>1. call[c].file \in File
    BY DEF StorageTypeOK, StreamEnds, Waiting, Idle
  <2>2. PICK content \in {"partial", "whole"} : Put(call[c].file, "stream", content)
    BY <1>2 DEF StreamEnds
  <2>3. [by |-> "stream", content |-> content] \in Stored
    BY <2>2 DEF Stored
  <2> QED
    BY <2>1, <2>2, <2>3, PutChanges
<1> QED
  BY <1>1, <1>2

LEMMA WriteChanges ==
  ASSUME StorageTypeOK, NEW c \in Caller, FileWritten(c) \/ ChunksWritten(c)
  PROVE  DestChange
<1>1. CASE FileWritten(c)
  <2>1. call[c].file \in File /\ call[c].content \in {"whole", "wrong"}
    BY <1>1 DEF StorageTypeOK, FileWritten, At, Waiting, Idle
  <2>2. [by |-> "storeFile", content |-> call[c].content] \in Stored
    BY <2>1 DEF Stored
  <2>3. Put(call[c].file, "storeFile", call[c].content)
    BY <1>1 DEF FileWritten
  <2> QED
    BY <2>1, <2>2, <2>3, PutChanges
<1>2. CASE ChunksWritten(c)
  <2>1. [by |-> "concat", content |-> "whole"] \in Stored
    BY DEF Stored
  <2>2. Put(Whole, "concat", "whole") /\ Whole \in File
    BY <1>2 DEF ChunksWritten, File
  <2> QED
    BY <2>1, <2>2, PutChanges
<1> QED
  BY <1>1, <1>2

\* every step changes the files in place in this way only
LEMMA StepChanges ==
  ASSUME StorageTypeOK, [Next]_vars
  PROVE  DestChange
<1>1. CASE dest' = dest
  BY <1>1 DEF DestChange, StorageTypeOK
<1>2. ASSUME NEW c \in Caller,
             Flush(c) \/ StreamEnds(c) \/ FileWritten(c) \/ ChunksWritten(c)
      PROVE  DestChange
  BY <1>2, FlushChanges, StreamChanges, WriteChanges
<1>3. ASSUME NEW l \in Load, Begin(l) \/ FindChunk(l) \/ Finish(l) \/ Cancel(l)
      PROVE  dest' = dest
  BY <1>3 DEF Begin, FindChunk, Finish, Cancel, storageVars
<1>4. ASSUME NEW l \in Load, Receive(l) \/ ChunkComplete(l) \/ Verify(l) \/ Read(l)
      PROVE  dest' = dest
  BY <1>4 DEF Receive, ChunkComplete, Verify, Read, StoreFile, Concatenate,
              VerifyChunks, ReadChunks, storageVars
<1>5. ASSUME NEW l \in Load, FetchFails(l) \/ FetchHangs(l) \/ ChunkWriteFails(l)
      PROVE  dest' = dest
  BY <1>5 DEF FetchFails, FetchHangs, ChunkWriteFails, WriteFails
<1>6. ASSUME NEW l \in Load, ChunkWritten(l) \/ WriteChunks(l)
      PROVE  DestChange
  BY <1>2, <1>6, LoadAssumption DEF ChunkWritten, WriteChunks
<1>7. ASSUME NEW c \in Local, LocalStep(c)
      PROVE  DestChange
  <2>1. CASE SizeMatches(c)
    BY <1>1, <2>1 DEF SizeMatches
  <2> QED
    BY <1>2, <1>7, <2>1, LoadAssumption DEF LocalStep
<1>8. ASSUME NEW c \in Local,
             StoreLocal(c) \/ StreamFails(c) \/ CheckThrows(c) \/ WriteFails(c)
      PROVE  dest' = dest
  BY <1>8 DEF StoreLocal, StoreStream, StreamFails, CheckThrows, WriteFails
<1>9. ASSUME RestartNode PROVE dest' = dest
  BY <1>9 DEF RestartNode, Restart
<1>10. ASSUME UNCHANGED vars PROVE dest' = dest
  BY <1>10 DEF vars
<1> QED
  BY <1>1, <1>3, <1>4, <1>5, <1>6, <1>7, <1>8, <1>9, <1>10 DEF Next, LoadStep

\* a file that is there stays there
LEMMA ThereStays ==
  ASSUME StorageTypeOK, DestChange, NEW f \in File, There(f)
  PROVE  There(f)'
BY DEF StorageTypeOK, DestChange, There, Absent, Stored

LEMMA PutWholeStays ==
  ASSUME StorageTypeOK, DestChange, PutWhole
  PROVE  PutWhole'
BY DEF StorageTypeOK, DestChange, PutWhole, Absent, Stored

-----------------------------------------------------------------------------
(* Types.                                                                  *)

Calls == call' \in [Caller -> Waiting \cup {Idle}] /\ faults' \in 0..MaxFaults

LEMMA WritingTyped ==
  ASSUME NEW f \in File, NEW content \in {"whole", "wrong"}
  PROVE  Writing(f, content) \in Waiting \cup {Idle}
BY DEF Writing, Waiting

LEMMA FaultTyped == ASSUME faults \in 0..MaxFaults, Fault PROVE faults' \in 0..MaxFaults
BY StorageAssumption DEF Fault

LEMMA StoreTyped ==
  ASSUME StorageTypeOK, NEW c \in Caller, NEW f \in File,
         \/ \E content \in {"whole", "wrong"} : StoreFile(c, f, content)
         \/ \E op \in {"stream", "link"} : StoreStream(c, f, op)
         \/ FileWritten(c) \/ WriteFails(c) \/ StreamFails(c)
  PROVE  Calls
<1>1. ASSUME NEW content \in {"whole", "wrong"}, StoreFile(c, f, content) PROVE Calls
  <2>1. faults' \in 0..MaxFaults
    BY <1>1, FaultTyped DEF StoreFile, StorageTypeOK
  <2> QED
    BY <1>1, <2>1, WritingTyped DEF StoreFile, StorageTypeOK, Calls
<1>2. ASSUME NEW op \in {"stream", "link"}, StoreStream(c, f, op) PROVE Calls
  <2>1. [op |-> op, file |-> f, pc |-> "receiving", content |-> "none"] \in Waiting
    BY DEF Waiting
  <2> QED
    BY <1>2, <2>1 DEF StoreStream, StorageTypeOK, Calls
<1>3. CASE FileWritten(c)
  BY <1>3 DEF FileWritten, Returns, StorageTypeOK, Calls
<1>4. CASE WriteFails(c) \/ StreamFails(c)
  BY <1>4, FaultTyped DEF WriteFails, StreamFails, Returns, StorageTypeOK, Calls
<1> QED
  BY <1>1, <1>2, <1>3, <1>4

LEMMA NextStepTyped ==
  ASSUME StorageTypeOK, NEW c \in Caller, NextStep(c)
  PROVE  call' \in [Caller -> Waiting \cup {Idle}]
<1>1. Writing(Manifest, "whole") \in Waiting \cup {Idle}
  BY WritingTyped DEF File
<1> QED
  BY <1>1 DEF NextStep, StorageTypeOK

LEMMA StreamTyped ==
  ASSUME StorageTypeOK, NEW c \in Caller,
         StreamEnds(c) \/ Flush(c) \/ SizeMatches(c) \/ CheckThrows(c)
  PROVE  Calls
<1>1. CASE StreamEnds(c)
  <2>1. CASE call[c].op = "link" \/ There(call[c].file)
    BY <1>1, <2>1, NextStepTyped DEF StreamEnds, StorageTypeOK, Calls
  <2>2. CASE ~(call[c].op = "link" \/ There(call[c].file))
    <3>1. call[c] \in [op : {"stream"}, file : File, pc : {"receiving", "checking", "hung"},
                       content : {"none"}]
      BY <1>1, <2>2 DEF StreamEnds, StorageTypeOK, Waiting, Idle
    <3>2. [call[c] EXCEPT !.pc = "checking"] \in Waiting
      BY <3>1 DEF Waiting
    <3>3. call' = [call EXCEPT ![c].pc = "checking"] /\ UNCHANGED faults
      BY <1>1, <2>2 DEF StreamEnds
    <3> QED
      BY <3>2, <3>3 DEF StorageTypeOK, Calls
  <2> QED
    BY <2>1, <2>2
<1>2. CASE Flush(c)
  BY <1>2 DEF Flush, StorageTypeOK, Calls
<1>3. CASE SizeMatches(c)
  BY <1>3, NextStepTyped DEF SizeMatches, StorageTypeOK, Calls
<1>4. CASE CheckThrows(c)
  <2>1. call[c] \in [op : {"stream"}, file : File, pc : {"receiving", "checking", "hung"},
                     content : {"none"}]
    BY <1>4 DEF CheckThrows, StorageTypeOK, Waiting, Idle
  <2>2. [call[c] EXCEPT !.pc = "hung"] \in Waiting
    BY <2>1 DEF Waiting
  <2>3. call' = [call EXCEPT ![c].pc = "hung"] /\ Fault
    BY <1>4 DEF CheckThrows
  <2> QED
    BY <2>2, <2>3, FaultTyped DEF StorageTypeOK, Calls
<1> QED
  BY <1>1, <1>2, <1>3, <1>4

LEMMA ConcatTyped ==
  ASSUME StorageTypeOK, NEW c \in Caller,
         Concatenate(c) \/ VerifyChunks(c) \/ ReadChunks(c) \/ ChunksWritten(c)
  PROVE  Calls
<1> DEFINE C(pc) == [op |-> "concat", file |-> Whole, pc |-> pc, content |-> "none"]
<1>1. \A pc \in {"verifying", "reading", "writing"} : C(pc) \in Waiting
  BY DEF Waiting
<1>2. ASSUME call[c].op = "concat"
      PROVE  /\ [call[c] EXCEPT !.pc = "reading"] \in Waiting
             /\ [call[c] EXCEPT !.pc = "writing"] \in Waiting
  <2>1. call[c] \in [op : {"concat"}, file : {Whole},
                     pc : {"verifying", "reading", "writing"}, content : {"none"}]
    BY <1>2 DEF StorageTypeOK, Waiting, Idle
  <2> QED
    BY <2>1 DEF Waiting
<1>3. CASE Concatenate(c)
  BY <1>1, <1>3 DEF Concatenate, StorageTypeOK, Calls
<1>4. CASE VerifyChunks(c)
  BY <1>2, <1>4 DEF VerifyChunks, At, Returns, StorageTypeOK, Calls
<1>5. CASE ReadChunks(c)
  BY <1>2, <1>5 DEF ReadChunks, At, Returns, StorageTypeOK, Calls
<1>6. CASE ChunksWritten(c)
  BY <1>6 DEF ChunksWritten, Returns, StorageTypeOK, Calls
<1> QED
  BY <1>3, <1>4, <1>5, <1>6

-----------------------------------------------------------------------------
(* Readers.                                                                *)

Progress == [pc : {"idle", "opening", "found", "fetching", "hung",
                   "storing", "concatenating", "over"},
             chunk : 0..NumChunks,
             told : {"nothing", "finished", "error", "cancelled"},
             failed : BOOLEAN]

LEMMA ProgressTyped ==
  ASSUME NEW r \in Progress, NEW outcome \in {"finished", "error", "cancelled"}
  PROVE  /\ Tell(r, outcome) \in Progress /\ Tell(r, outcome).pc = r.pc
         /\ Tell(r, outcome).chunk = r.chunk
         /\ Over(r) \in Progress /\ Over(r).pc = "over" /\ Over(r).chunk = 0
         /\ NextChunk(r) \in Progress
<1> USE DEF Progress
<1>1. Tell(r, outcome) \in Progress /\ Tell(r, outcome).pc = r.pc
        /\ Tell(r, outcome).chunk = r.chunk
  BY DEF Tell
<1>2. Over(r) \in Progress /\ Over(r).pc = "over" /\ Over(r).chunk = 0
  <2>1. 0 \in 0..NumChunks
    BY StorageAssumption
  <2>2. [r EXCEPT !.pc = "over", !.chunk = 0] \in Progress
    BY <2>1
  <2> QED
    BY <2>2 DEF Over
<1>3. NextChunk(r) \in Progress
  <2>1. CASE r.chunk < NumChunks
    <3>1. r.chunk + 1 \in 0..NumChunks
      BY <2>1, StorageAssumption
    <3>2. [r EXCEPT !.pc = "opening", !.chunk = r.chunk + 1] \in Progress
      BY <3>1
    <3> QED
      BY <2>1, <3>2 DEF NextChunk
  <2>2. CASE ~(r.chunk < NumChunks)
    <3>1. [r EXCEPT !.pc = "concatenating"] \in Progress
      OBVIOUS
    <3> QED
      BY <2>2, <3>1 DEF NextChunk
  <2> QED
    BY <2>1, <2>2
<1> QED
  BY <1>1, <1>2, <1>3

LEMMA FetchedFile == ASSUME LoadTypeOK, NEW l \in Load PROVE Fetched(l) \in File
BY StorageAssumption DEF LoadTypeOK, Fetched, File, Chunk

\* what a reader has seen is true as long as he does nothing
LEMMA ReaderRests ==
  ASSUME LoadTypeOK, DestChange, NEW l \in Load, ReaderCall(l), ReaderChunks(l),
         load'[l] = load[l], call'[l] = call[l]
  PROVE  (ReaderCall(l) /\ ReaderChunks(l))'
<1>1. Fetched(l)' = Fetched(l) /\ Fetched(l) \in File
  BY FetchedFile DEF Fetched
<1>2. \A f \in File : There(f) => There(f)'
  BY ThereStays DEF LoadTypeOK
<1>3. AllThere => AllThere'
  BY <1>2 DEF AllThere, File
<1>4. At(l, "storeFile", "writing")' = At(l, "storeFile", "writing")
  BY DEF At
<1>5. ReaderCall(l)'
  BY <1>1, <1>2, <1>3, <1>4 DEF ReaderCall, File
<1>6. ReaderChunks(l)'
  BY <1>1, <1>2 DEF ReaderChunks, File
<1> QED
  BY <1>5, <1>6

\* what a step of reader l leaves to be shown
ReaderDone(l) ==
  /\ load' \in [Load -> Progress]
  /\ Calls
  /\ \A k \in Load \ {l} : load'[k] = load[k] /\ call'[k] = call[k]
  /\ (ReaderCall(l) /\ ReaderChunks(l))'

LEMMA BeginDone ==
  ASSUME LoadInv, NEW l \in Load, Begin(l)
  PROVE  ReaderDone(l)
<1>1. l \in Caller /\ load[l] \in Progress /\ call[l] = Idle
  BY LoadAssumption DEF LoadInv, LoadTypeOK, Progress, ReaderCall, Begin
<1>2. Calls /\ call' = call /\ dest' = dest
  BY DEF LoadInv, LoadTypeOK, StorageTypeOK, Calls, Begin, storageVars
<1>3. CASE There(Whole)
  <2>1. load' = [load EXCEPT ![l] = Over(Tell(load[l], "finished"))]
    BY <1>3 DEF Begin
  <2>2. Over(Tell(load[l], "finished")) \in Progress /\ Over(Tell(load[l], "finished")).pc = "over"
    BY <1>1, ProgressTyped
  <2> QED
    BY <1>1, <1>2, <2>1, <2>2
    DEF LoadInv, LoadTypeOK, Progress, ReaderDone, ReaderCall, ReaderChunks, Idle
<1>4. CASE ~There(Whole)
  <2>1. load' = [load EXCEPT ![l].pc = "opening"]
    BY <1>4 DEF Begin
  <2>2. load[l].chunk = 0 /\ \A i \in Chunk : ~(i < 0)
    BY DEF LoadInv, ReaderChunks, Begin, Chunk
  <2>3. [load[l] EXCEPT !.pc = "opening"] \in Progress
    BY <1>1 DEF Progress
  <2> QED
    BY <1>1, <1>2, <2>1, <2>2, <2>3 DEF LoadInv, LoadTypeOK, Progress, ReaderDone, ReaderCall, ReaderChunks, Idle
<1> QED
  BY <1>3, <1>4

LEMMA FindChunkDone ==
  ASSUME LoadInv, NEW l \in Load, FindChunk(l)
  PROVE  ReaderDone(l)
<1>1. l \in Caller /\ load[l] \in Progress /\ call[l] = Idle
  BY LoadAssumption DEF LoadInv, LoadTypeOK, Progress, ReaderCall, FindChunk
<1>2. Calls /\ call' = call /\ dest' = dest
  BY DEF LoadInv, LoadTypeOK, StorageTypeOK, Calls, FindChunk, storageVars
<1>3. PICK pc \in {"found", "fetching"} :
        /\ load' = [load EXCEPT ![l].pc = pc]
        /\ pc = "found" => There(Fetched(l)) \/ There(Whole)
  BY DEF FindChunk
<1>4. load' \in [Load -> Progress] /\ load'[l].pc = pc /\ load'[l].chunk = load[l].chunk
  <2>1. [load[l] EXCEPT !.pc = pc] \in Progress
    BY <1>1 DEF Progress
  <2> QED
    BY <1>1, <1>3, <2>1 DEF LoadInv, LoadTypeOK, Progress
<1>5. Fetched(l)' = Fetched(l)
  BY <1>4 DEF Fetched
<1>6. ReaderCall(l)'
  BY <1>1, <1>2, <1>4 DEF ReaderCall, Idle
<1>7. ReaderChunks(l)'
  BY <1>2, <1>3, <1>4, <1>5 DEF ReaderChunks, LoadInv, FindChunk, There
<1> QED
  BY <1>2, <1>3, <1>4, <1>6, <1>7 DEF ReaderDone

LEMMA ReceiveDone ==
  ASSUME LoadInv, NEW l \in Load, Receive(l)
  PROVE  ReaderDone(l)
<1> DEFINE f == Fetched(l)
<1>1. l \in Caller /\ load[l] \in Progress /\ f \in File
  BY LoadAssumption, FetchedFile DEF LoadInv, LoadTypeOK, Progress
<1>2. PICK content \in {"whole", "wrong"} : StoreFile(l, f, content)
  BY DEF Receive
<1>3. Calls
  BY <1>1, <1>2, StoreTyped DEF LoadInv, LoadTypeOK
<1>4. /\ call' = [call EXCEPT ![l] = Writing(f, content)]
      /\ dest' = dest
  BY <1>2 DEF StoreFile
<1>5. [load[l] EXCEPT !.pc = "storing"] \in Progress
  BY <1>1 DEF Progress
<1>6. load' = [load EXCEPT ![l].pc = "storing"] /\ load[l].pc = "fetching"
  BY DEF Receive
<1>7. load' \in [Load -> Progress] /\ load'[l].pc = "storing" /\ load'[l].chunk = load[l].chunk
  BY <1>1, <1>5, <1>6 DEF LoadInv, LoadTypeOK, Progress
<1>8. f' = f
  BY <1>7 DEF Fetched
<1>9. call'[l] = Writing(f, content) /\ \A k \in Load \ {l} : call'[k] = call[k]
  BY <1>1, <1>4 DEF LoadInv, LoadTypeOK, StorageTypeOK
<1>10. ReaderCall(l)'
  <2>1. CASE There(f)
    BY <1>4, <1>7, <1>8, <1>9, <2>1 DEF ReaderCall, Writing, Idle, There
  <2>2. CASE ~There(f)
    BY <1>7, <1>8, <1>9, <2>2 DEF ReaderCall, Writing, At
  <2> QED
    BY <2>1, <2>2
<1>11. ReaderChunks(l)'
  BY <1>4, <1>6, <1>7 DEF ReaderChunks, LoadInv, There
<1> QED
  BY <1>3, <1>6, <1>7, <1>9, <1>10, <1>11 DEF ReaderDone

\* the call of a reader who stores a file
LEMMA StoringCall ==
  ASSUME LoadInv, NEW l \in Load, At(l, "storeFile", "writing")
  PROVE  \/ load[l].pc = "over"
         \/ load[l].pc = "storing" /\ call[l].file = Fetched(l)
<1>1. l \in Caller /\ load[l] \in Progress /\ ReaderCall(l)
  BY LoadAssumption DEF LoadInv, LoadTypeOK, Progress
<1> QED
  BY <1>1 DEF At, ReaderCall, Progress, Idle

LEMMA ChunkWrittenDone ==
  ASSUME LoadInv, DestChange, NEW l \in Load, ChunkWritten(l)
  PROVE  ReaderDone(l)
<1>1. l \in Caller /\ load[l] \in Progress /\ Fetched(l) \in File
  BY LoadAssumption, FetchedFile DEF LoadInv, LoadTypeOK, Progress
<1>2. Calls
  BY <1>1, StoreTyped DEF LoadInv, LoadTypeOK, ChunkWritten
<1>3. /\ At(l, "storeFile", "writing") /\ load' = load
      /\ Put(call[l].file, "storeFile", call[l].content)
      /\ call' = [call EXCEPT ![l] = Idle]
  BY DEF ChunkWritten, FileWritten, Returns
<1>4. call'[l] = Idle /\ \A k \in Load \ {l} : call'[k] = call[k]
  BY <1>1, <1>3 DEF LoadInv, LoadTypeOK, StorageTypeOK
<1>5. CASE load[l].pc = "over"
  BY <1>2, <1>3, <1>4, <1>5
  DEF ReaderDone, ReaderCall, ReaderChunks, LoadInv, LoadTypeOK, Progress, Idle
<1>6. CASE load[l].pc = "storing" /\ call[l].file = Fetched(l)
  <2>1. There(Fetched(l))'
    <3>1. Fetched(l)' = Fetched(l)
      BY <1>3 DEF Fetched
    <3>2. CASE There(Fetched(l))
      BY <1>1, <3>1, <3>2, ThereStays DEF LoadInv, LoadTypeOK
    <3>3. CASE ~There(Fetched(l))
      BY <1>1, <1>3, <1>6, <3>1, <3>3
      DEF Put, There, Absent, LoadInv, LoadTypeOK, StorageTypeOK
    <3> QED
      BY <3>2, <3>3
  <2>2. ReaderCall(l)'
    BY <1>3, <1>4, <1>6, <2>1 DEF ReaderCall, Idle
  <2>3. \A i \in Chunk \cup {Whole} : There(i) => There(i)'
    BY ThereStays DEF LoadInv, LoadTypeOK, File
  <2>4. ReaderChunks(l)'
    BY <1>3, <1>6, <2>3 DEF LoadInv, ReaderChunks
  <2> QED
    BY <1>2, <1>3, <1>4, <2>2, <2>4 DEF ReaderDone, LoadInv, LoadTypeOK, Progress
<1> QED
  BY <1>3, <1>5, <1>6, StoringCall

\* a reader whose load is over, whatever his call still does
LEMMA OverDone ==
  ASSUME LoadInv, NEW l \in Load, Calls, NEW r \in Progress, r.pc = "over",
         load' = [load EXCEPT ![l] = r], call[l].op # "concat" \/ call' = [call EXCEPT ![l] = Idle],
         \/ call' = call
         \/ call' = [call EXCEPT ![l] = Idle]
  PROVE  ReaderDone(l)
<1>1. l \in Caller
  BY LoadAssumption
<1>2. /\ load' \in [Load -> Progress] /\ load'[l] = r
      /\ \A k \in Load \ {l} : load'[k] = load[k] /\ call'[k] = call[k]
  BY <1>1, LoadAssumption DEF LoadInv, LoadTypeOK, StorageTypeOK, Progress
<1>3. call'[l].op # "concat"
  BY <1>1 DEF Idle, LoadInv, LoadTypeOK, StorageTypeOK
<1>4. (ReaderCall(l) /\ ReaderChunks(l))'
  BY <1>2, <1>3 DEF ReaderCall, ReaderChunks
<1> QED
  BY <1>2, <1>4 DEF ReaderDone

LEMMA FetchFailsDone ==
  ASSUME LoadInv, NEW l \in Load, FetchFails(l)
  PROVE  ReaderDone(l)
<1>1. load[l] \in Progress /\ call[l] = Idle
  BY DEF LoadInv, LoadTypeOK, Progress, ReaderCall, FetchFails
<1>2. Calls
  BY FaultTyped DEF Calls, FetchFails, LoadInv, LoadTypeOK, StorageTypeOK
<1>3. Tell(load[l], "error") \in Progress
  BY <1>1, ProgressTyped
<1>4. Over(Tell(load[l], "error")) \in Progress /\ Over(Tell(load[l], "error")).pc = "over"
  BY <1>3, ProgressTyped
<1>5. load' = [load EXCEPT ![l] = Over(Tell(load[l], "error"))] /\ call' = call
  BY DEF FetchFails
<1>6. call[l].op # "concat"
  BY <1>1 DEF Idle
<1> QED
  BY <1>2, <1>4, <1>5, <1>6, OverDone

LEMMA FetchHangsDone ==
  ASSUME LoadInv, NEW l \in Load, FetchHangs(l)
  PROVE  ReaderDone(l)
<1>1. load[l] \in Progress /\ call[l] = Idle /\ ReaderChunks(l)
  BY DEF LoadInv, LoadTypeOK, Progress, ReaderCall, FetchHangs
<1>2. Calls
  BY FaultTyped DEF Calls, FetchHangs, LoadInv, LoadTypeOK, StorageTypeOK
<1>3. /\ load[l].pc = "fetching" /\ load' = [load EXCEPT ![l].pc = "hung"]
      /\ call' = call /\ dest' = dest
  BY DEF FetchHangs
<1>4. /\ load' \in [Load -> Progress]
      /\ load'[l].pc = "hung" /\ load'[l].chunk = load[l].chunk
      /\ \A k \in Load \ {l} : load'[k] = load[k]
  BY <1>1, <1>3 DEF LoadInv, LoadTypeOK, Progress
<1>5. ReaderCall(l)'
  BY <1>1, <1>3, <1>4 DEF ReaderCall, Idle
<1>6. ReaderChunks(l)'
  BY <1>1, <1>3, <1>4 DEF ReaderChunks, There
<1> QED
  BY <1>2, <1>3, <1>4, <1>5, <1>6 DEF ReaderDone

LEMMA ChunkWriteFailsDone ==
  ASSUME LoadInv, NEW l \in Load, ChunkWriteFails(l)
  PROVE  ReaderDone(l)
<1>1. l \in Caller /\ load[l] \in Progress /\ Fetched(l) \in File
  BY LoadAssumption, FetchedFile DEF LoadInv, LoadTypeOK, Progress
<1>2. Calls
  BY <1>1, StoreTyped DEF LoadInv, LoadTypeOK, ChunkWriteFails
<1>3. At(l, "storeFile", "writing") /\ call' = [call EXCEPT ![l] = Idle]
  BY DEF ChunkWriteFails, WriteFails, Returns
<1>4. Tell(load[l], "error") \in Progress
  BY <1>1, ProgressTyped
<1>5. Over(Tell(load[l], "error")) \in Progress /\ Over(Tell(load[l], "error")).pc = "over"
  BY <1>4, ProgressTyped
<1>6. PICK r \in Progress : r.pc = "over" /\ load' = [load EXCEPT ![l] = r]
  BY <1>1, <1>3, <1>5, StoringCall DEF ChunkWriteFails
<1> QED
  BY <1>2, <1>3, <1>6, OverDone

LEMMA FinishDone ==
  ASSUME LoadInv, NEW l \in Load, Finish(l)
  PROVE  ReaderDone(l)
<1>1. load[l] \in Progress /\ call[l].op # "concat"
  BY DEF LoadInv, LoadTypeOK, Progress, Finish, Idle
<1>2. Calls
  BY DEF Calls, Finish, LoadInv, LoadTypeOK, StorageTypeOK, storageVars
<1>3. Tell(load[l], "finished") \in Progress
  BY <1>1, ProgressTyped
<1>4. Over(Tell(load[l], "finished")) \in Progress
        /\ Over(Tell(load[l], "finished")).pc = "over"
  BY <1>3, ProgressTyped
<1>5. load' = [load EXCEPT ![l] = Over(Tell(load[l], "finished"))] /\ call' = call
  BY DEF Finish, storageVars
<1> QED
  BY <1>1, <1>2, <1>4, <1>5, OverDone

LEMMA CancelDone ==
  ASSUME LoadInv, NEW l \in Load, Cancel(l)
  PROVE  ReaderDone(l)
<1> DEFINE r == Tell(load[l], "cancelled")
<1>1. l \in Caller /\ load[l] \in Progress /\ ReaderCall(l) /\ ReaderChunks(l)
  BY LoadAssumption DEF LoadInv, LoadTypeOK, Progress
<1>2. Calls /\ call' = call /\ dest' = dest
  BY DEF Calls, Cancel, LoadInv, LoadTypeOK, StorageTypeOK, storageVars
<1>3. r \in Progress /\ r.pc = load[l].pc /\ r.chunk = load[l].chunk
  BY <1>1, ProgressTyped
<1>4. Over(r) \in Progress /\ Over(r).pc = "over"
  BY <1>3, ProgressTyped
<1>5. CASE load[l].pc \in {"fetching", "hung", "storing"}
  <2>1. load' = [load EXCEPT ![l] = Over(r)]
    BY <1>5 DEF Cancel
  <2>2. call[l].op # "concat"
    BY <1>1, <1>5 DEF ReaderCall
  <2> QED
    BY <1>2, <1>4, <2>1, <2>2, OverDone
<1>6. CASE load[l].pc \notin {"fetching", "hung", "storing"}
  <2>1. load' = [load EXCEPT ![l] = r]
    BY <1>6 DEF Cancel
  <2> HIDE DEF r
  <2>2. /\ load' \in [Load -> Progress]
        /\ load'[l].pc = load[l].pc /\ load'[l].chunk = load[l].chunk
        /\ \A k \in Load \ {l} : load'[k] = load[k]
    BY <1>1, <1>3, <2>1 DEF LoadInv, LoadTypeOK, Progress
  <2>3. Fetched(l)' = Fetched(l)
    BY <2>2 DEF Fetched
  <2>4. ReaderCall(l)'
    BY <1>1, <1>2, <2>2, <2>3 DEF ReaderCall, There, At, AllThere
  <2>5. ReaderChunks(l)'
    BY <1>1, <1>2, <2>2, <2>3 DEF ReaderChunks, There
  <2> QED
    BY <1>2, <2>2, <2>4, <2>5 DEF ReaderDone
<1> QED
  BY <1>5, <1>6

\* a reader whose chunk is complete has seen it, and those before it
LEMMA ChunkSeen ==
  ASSUME LoadInv, NEW l \in Load,
         load[l].pc = "found" \/ (load[l].pc = "storing" /\ call[l] = Idle)
  PROVE  /\ call[l] = Idle
         /\ \A i \in Chunk : i <= load[l].chunk => There(i) \/ There(Whole)
<1>1. load[l] \in Progress /\ ReaderCall(l) /\ ReaderChunks(l)
  BY DEF LoadInv, LoadTypeOK, Progress
<1>2. call[l] = Idle
  BY <1>1 DEF ReaderCall
<1>3. There(Fetched(l)) \/ There(Whole)
  <2>1. ~At(l, "storeFile", "writing")
    BY <1>2 DEF At, Idle
  <2> QED
    BY <1>1, <2>1 DEF ReaderCall, ReaderChunks
<1>4. ASSUME NEW i \in Chunk, i <= load[l].chunk
      PROVE  There(i) \/ There(Whole)
  <2>1. CASE i < load[l].chunk
    BY <1>1, <2>1 DEF ReaderChunks
  <2>2. CASE i = load[l].chunk
    <3>1. load[l].chunk # 0
      BY <2>2, StorageAssumption DEF Chunk
    <3> QED
      BY <1>3, <2>2, <3>1 DEF Fetched
  <2>3. i \in Nat /\ load[l].chunk \in Nat
    BY <1>1, StorageAssumption DEF Chunk, Progress
  <2> QED
    BY <1>4, <2>1, <2>2, <2>3
<1> QED
  BY <1>2, <1>4

LEMMA ChunkCompleteDone ==
  ASSUME LoadInv, NEW l \in Load, ChunkComplete(l)
  PROVE  ReaderDone(l)
<1>1. /\ l \in Caller /\ load[l] \in Progress /\ call[l] = Idle
      /\ \A i \in Chunk : i <= load[l].chunk => There(i) \/ There(Whole)
  BY LoadAssumption, ChunkSeen DEF LoadInv, LoadTypeOK, Progress, ChunkComplete
<1>2. CASE load[l].chunk = 0 /\ dest[Manifest].content # "whole"
  <2>1. Tell(load[l], "error") \in Progress
    BY <1>1, ProgressTyped
  <2>2. Over(Tell(load[l], "error")) \in Progress
          /\ Over(Tell(load[l], "error")).pc = "over"
    BY <2>1, ProgressTyped
  <2>3. load' = [load EXCEPT ![l] = Over(Tell(load[l], "error"))]
          /\ call' = call /\ faults' = faults
    BY <1>2 DEF ChunkComplete, storageVars
  <2>4. Calls /\ call[l].op # "concat"
    BY <1>1, <2>3 DEF Calls, LoadInv, LoadTypeOK, StorageTypeOK, Idle
  <2> QED
    BY <2>2, <2>3, <2>4, OverDone
<1>3. CASE ~(load[l].chunk = 0 /\ dest[Manifest].content # "whole")
  <2> DEFINE r == NextChunk(load[l])
  <2>1. r \in Progress
    BY <1>1, ProgressTyped
  <2>2. load' = [load EXCEPT ![l] = r]
    BY <1>3 DEF ChunkComplete
  <2>3. load' \in [Load -> Progress] /\ load'[l] = r
          /\ \A k \in Load \ {l} : load'[k] = load[k]
    BY <2>1, <2>2 DEF LoadInv, LoadTypeOK, Progress
  <2>4. load[l].chunk \in 0..NumChunks /\ NumChunks \in Nat
    BY <1>1, StorageAssumption DEF Progress
  <2>5. CASE load[l].chunk < NumChunks
    <3>1. r.pc = "opening" /\ r.chunk = load[l].chunk + 1
      BY <1>1, <2>5 DEF NextChunk, Progress
    <3>2. call' = call /\ dest' = dest /\ faults' = faults
      BY <1>3, <2>4, <2>5 DEF ChunkComplete, storageVars
    <3>3. ReaderCall(l)'
      BY <1>1, <2>3, <3>1, <3>2 DEF ReaderCall, Idle
    <3>4. \A i \in Chunk : i < r.chunk => i <= load[l].chunk
      BY <2>4, <3>1 DEF Chunk
    <3>5. ReaderChunks(l)'
      BY <1>1, <2>3, <3>1, <3>2, <3>4 DEF ReaderChunks, There
    <3> QED
      BY <2>3, <3>2, <3>3, <3>5 DEF ReaderDone, Calls, LoadInv, LoadTypeOK, StorageTypeOK
  <2>6. CASE ~(load[l].chunk < NumChunks)
    <3>1. r.pc = "concatenating"
      BY <1>1, <2>6 DEF NextChunk, Progress
    <3>2. Concatenate(l)
      BY <1>3, <2>4, <2>6 DEF ChunkComplete
    <3>3. Calls
      BY <1>1, <3>2, ConcatTyped DEF LoadInv, LoadTypeOK
    <3>4. AllThere \/ There(Whole)
      BY <1>1, <2>4, <2>6 DEF AllThere, Chunk
    <3>5. /\ call'[l] = IF There(Whole) THEN Idle
                        ELSE [op |-> "concat", file |-> Whole, pc |-> "verifying",
                              content |-> "none"]
          /\ \A k \in Load \ {l} : call'[k] = call[k]
          /\ dest' = dest
      BY <1>1, <3>2 DEF Concatenate, LoadInv, LoadTypeOK, StorageTypeOK
    <3>6. ReaderCall(l)'
      BY <2>3, <3>1, <3>4, <3>5 DEF ReaderCall, Idle, There, AllThere
    <3>7. ReaderChunks(l)'
      BY <2>3, <3>1 DEF ReaderChunks
    <3> QED
      BY <2>3, <3>3, <3>5, <3>6, <3>7 DEF ReaderDone
  <2> QED
    BY <2>5, <2>6
<1> QED
  BY <1>2, <1>3

\* a reader whose chunks are concatenated
LEMMA ConcatCall ==
  ASSUME LoadInv, NEW l \in Load, call[l].op = "concat"
  PROVE  /\ l \in Caller /\ load[l] \in Progress /\ load[l].pc = "concatenating" /\ AllThere
         /\ call[l] \in [op : {"concat"}, file : {Whole},
                         pc : {"verifying", "reading", "writing"}, content : {"none"}]
<1>1. l \in Caller /\ load[l] \in Progress /\ ReaderCall(l)
  BY LoadAssumption DEF LoadInv, LoadTypeOK, Progress
<1>2. call[l] \in Waiting
  BY <1>1 DEF LoadInv, LoadTypeOK, StorageTypeOK, Idle
<1> QED
  BY <1>1, <1>2 DEF ReaderCall, Waiting

\* the concatenation goes on
LEMMA ConcatGoesOn ==
  ASSUME LoadInv, NEW l \in Load, call[l].op = "concat", Calls, load' = load, dest' = dest,
         NEW pc \in {"reading", "writing"}, call' = [call EXCEPT ![l].pc = pc]
  PROVE  ReaderDone(l)
<1>1. l \in Caller /\ load[l].pc = "concatenating" /\ AllThere
        /\ load' \in [Load -> Progress]
  BY ConcatCall DEF LoadInv, LoadTypeOK, Progress
<1>2. call'[l].op = "concat" /\ \A k \in Load \ {l} : call'[k] = call[k]
  <2>1. [call[l] EXCEPT !.pc = pc].op = "concat"
    BY ConcatCall
  <2> QED
    BY <1>1, <2>1 DEF LoadInv, LoadTypeOK, StorageTypeOK
<1>3. ReaderCall(l)'
  BY <1>1, <1>2 DEF ReaderCall, AllThere, There
<1>4. ReaderChunks(l)'
  BY <1>1 DEF ReaderChunks
<1> QED
  BY <1>1, <1>2, <1>3, <1>4 DEF ReaderDone

LEMMA VerifyDone ==
  ASSUME LoadInv, NEW l \in Load, Verify(l)
  PROVE  ReaderDone(l)
<1>1. call[l].op = "concat"
  BY DEF Verify, VerifyChunks, At
<1>2. l \in Caller /\ AllThere
  BY <1>1, ConcatCall
<1>3. Calls
  BY <1>2, ConcatTyped DEF Verify, LoadInv, LoadTypeOK
<1>4. call' = [call EXCEPT ![l].pc = "reading"] /\ load' = load /\ dest' = dest
  BY <1>2 DEF Verify, VerifyChunks
<1> QED
  BY <1>1, <1>3, <1>4, ConcatGoesOn

LEMMA ReadDone ==
  ASSUME LoadInv, NEW l \in Load, Read(l)
  PROVE  ReaderDone(l)
<1>1. call[l].op = "concat"
  BY DEF Read, ReadChunks, At
<1>2. l \in Caller /\ load[l] \in Progress
  BY <1>1, ConcatCall
<1>3. Calls
  BY <1>2, ConcatTyped DEF Read, LoadInv, LoadTypeOK
<1>4. CASE AllWhole
  <2>1. call' = [call EXCEPT ![l].pc = "writing"] /\ load' = load /\ dest' = dest
    BY <1>4 DEF Read, ReadChunks
  <2> QED
    BY <1>1, <1>3, <2>1, ConcatGoesOn
<1>5. CASE ~AllWhole
  <2> DEFINE r == [load[l] EXCEPT !.failed = TRUE]
  <2>1. r \in Progress
    BY <1>2 DEF Progress
  <2>2. load' = [load EXCEPT ![l] = Over(r)] /\ call' = [call EXCEPT ![l] = Idle]
    BY <1>5 DEF Read, ReadChunks, Returns
  <2>3. Over(r) \in Progress /\ Over(r).pc = "over"
    BY <2>1, ProgressTyped
  <2> QED
    BY <1>3, <2>2, <2>3, OverDone
<1> QED
  BY <1>4, <1>5

LEMMA WriteChunksDone ==
  ASSUME LoadInv, NEW l \in Load, WriteChunks(l)
  PROVE  ReaderDone(l)
<1>1. call[l].op = "concat" /\ load' = load
  BY DEF WriteChunks, ChunksWritten, At
<1>2. l \in Caller /\ load' \in [Load -> Progress] /\ load[l].pc = "concatenating"
  BY <1>1, ConcatCall DEF LoadInv, LoadTypeOK, Progress
<1>3. Calls
  BY <1>2, ConcatTyped DEF WriteChunks, LoadInv, LoadTypeOK
<1>4. call'[l] = Idle /\ \A k \in Load \ {l} : call'[k] = call[k]
  BY <1>2 DEF WriteChunks, ChunksWritten, Returns, LoadInv, LoadTypeOK, StorageTypeOK
<1>5. There(Whole)'
  <2>1. Put(Whole, "concat", "whole") /\ Whole \in File
    BY DEF WriteChunks, ChunksWritten, File
  <2>2. CASE There(Whole)
    BY <2>1, <2>2 DEF Put, There
  <2>3. CASE ~There(Whole)
    BY <2>1, <2>3 DEF Put, There, Absent, LoadInv, LoadTypeOK, StorageTypeOK
  <2> QED
    BY <2>2, <2>3
<1>6. ReaderCall(l)'
  BY <1>1, <1>2, <1>4, <1>5 DEF ReaderCall, Idle
<1>7. ReaderChunks(l)'
  BY <1>1, <1>2 DEF ReaderChunks
<1> QED
  BY <1>1, <1>2, <1>3, <1>4, <1>6, <1>7 DEF ReaderDone

-----------------------------------------------------------------------------
(* The invariant.                                                          *)

\* a step of one reader
LEMMA ReaderKeeps ==
  ASSUME LoadInv, DestChange, NEW l \in Load, ReaderDone(l)
  PROVE  LoadInv'
<1>1. LoadTypeOK'
  BY DEF ReaderDone, Calls, DestChange, LoadTypeOK, StorageTypeOK, Progress
<1>2. PutWhole'
  BY PutWholeStays DEF LoadInv, LoadTypeOK
<1>3. ASSUME NEW k \in Load PROVE (ReaderCall(k) /\ ReaderChunks(k))'
  BY <1>3, ReaderRests DEF ReaderDone, LoadInv
<1> QED
  BY <1>1, <1>2, <1>3 DEF LoadInv

\* a step of a client
LEMMA LocalKeeps ==
  ASSUME LoadInv, DestChange, NEW c \in Local, load' = load,
         \/ StreamEnds(c) \/ Flush(c) \/ SizeMatches(c) \/ FileWritten(c)
         \/ StoreLocal(c) \/ StreamFails(c) \/ CheckThrows(c) \/ WriteFails(c)
  PROVE  LoadInv'
<1>1. c \in Caller /\ c \notin Load
  BY LoadAssumption
<1>2. Calls
  <2>1. CASE StoreLocal(c)
    BY <1>1, <2>1, StoreTyped DEF StoreLocal, LoadInv, LoadTypeOK, File
  <2>2. CASE StreamEnds(c) \/ Flush(c) \/ SizeMatches(c) \/ CheckThrows(c)
    BY <1>1, <2>2, StreamTyped DEF LoadInv, LoadTypeOK
  <2>3. CASE FileWritten(c) \/ WriteFails(c) \/ StreamFails(c)
    BY <1>1, <2>3, StoreTyped DEF LoadInv, LoadTypeOK, File
  <2> QED
    BY <2>1, <2>2, <2>3
<1>3. ASSUME NEW k \in Load PROVE call'[k] = call[k]
  <2>1. k # c /\ k \in Caller /\ call \in [Caller -> Waiting \cup {Idle}]
    BY <1>1, <1>3, LoadAssumption DEF LoadInv, LoadTypeOK, StorageTypeOK
  <2>2. CASE StoreLocal(c)
    BY <2>1, <2>2 DEF StoreLocal, StoreStream
  <2>3. CASE StreamEnds(c) \/ SizeMatches(c)
    BY <2>1, <2>3 DEF StreamEnds, SizeMatches, NextStep
  <2>4. CASE Flush(c) \/ CheckThrows(c)
    BY <2>1, <2>4 DEF Flush, CheckThrows
  <2>5. CASE FileWritten(c) \/ WriteFails(c) \/ StreamFails(c)
    BY <2>1, <2>5 DEF FileWritten, WriteFails, StreamFails, Returns
  <2> QED
    BY <2>2, <2>3, <2>4, <2>5
<1>4. LoadTypeOK'
  BY <1>2 DEF Calls, DestChange, LoadInv, LoadTypeOK, StorageTypeOK
<1>5. PutWhole'
  BY PutWholeStays DEF LoadInv, LoadTypeOK
<1>6. ASSUME NEW k \in Load PROVE (ReaderCall(k) /\ ReaderChunks(k))'
  BY <1>3, <1>6, ReaderRests DEF LoadInv
<1> QED
  BY <1>4, <1>5, <1>6 DEF LoadInv

LEMMA RestartKeeps ==
  ASSUME LoadInv, DestChange, RestartNode
  PROVE  LoadInv'
<1>1. /\ call' = [c \in Caller |-> Idle] /\ load' = [l \in Load |-> New]
      /\ faults' \in 0..MaxFaults
  BY FaultTyped DEF RestartNode, Restart, LoadInv, LoadTypeOK, StorageTypeOK
<1>2. New \in Progress
  BY StorageAssumption DEF New, Progress
<1>3. LoadTypeOK'
  BY <1>1, <1>2 DEF DestChange, LoadTypeOK, StorageTypeOK, Progress
<1>4. PutWhole'
  BY PutWholeStays DEF LoadInv, LoadTypeOK
<1>5. ASSUME NEW l \in Load PROVE (ReaderCall(l) /\ ReaderChunks(l))'
  BY <1>1, <1>5, LoadAssumption DEF ReaderCall, ReaderChunks, New, Idle
<1> QED
  BY <1>3, <1>4, <1>5 DEF LoadInv

LEMMA LoadInit == Init => LoadInv
<1> SUFFICES ASSUME Init PROVE LoadInv
  OBVIOUS
<1>1. StorageTypeOK
  BY StorageAssumption DEF Init, StorageInit, StorageTypeOK
<1>2. New \in Progress
  BY StorageAssumption DEF New, Progress
<1>3. PutWhole
  BY DEF Init, StorageInit, PutWhole, Absent
<1>4. ASSUME NEW l \in Load PROVE ReaderCall(l) /\ ReaderChunks(l)
  BY <1>4, LoadAssumption DEF Init, StorageInit, ReaderCall, ReaderChunks, New, Idle
<1> QED
  BY <1>1, <1>2, <1>3, <1>4 DEF Init, LoadInv, LoadTypeOK, Progress

LEMMA LoadInvStep == LoadInv /\ [Next]_vars => LoadInv'
<1> SUFFICES ASSUME LoadInv, [Next]_vars PROVE LoadInv'
  OBVIOUS
<1>1. DestChange
  BY StepChanges DEF LoadInv, LoadTypeOK
<1>2. ASSUME NEW l \in Load,
             \/ Begin(l) \/ LoadStep(l) \/ Cancel(l)
             \/ FetchFails(l) \/ FetchHangs(l) \/ ChunkWriteFails(l)
      PROVE  LoadInv'
  <2>1. ReaderDone(l)
    BY <1>1, <1>2, BeginDone, FindChunkDone, ReceiveDone, ChunkWrittenDone,
       ChunkCompleteDone, VerifyDone, ReadDone, WriteChunksDone, FinishDone,
       FetchFailsDone, FetchHangsDone, ChunkWriteFailsDone, CancelDone
    DEF LoadStep
  <2> QED
    BY <1>1, <2>1, ReaderKeeps
<1>3. ASSUME NEW c \in Local, LocalStep(c)
      PROVE  LoadInv'
  BY <1>1, <1>3, LocalKeeps DEF LocalStep
<1>4. ASSUME NEW c \in Local,
             StoreLocal(c) \/ StreamFails(c) \/ CheckThrows(c) \/ WriteFails(c),
             UNCHANGED load
      PROVE  LoadInv'
  BY <1>1, <1>4, LocalKeeps
<1>5. CASE RestartNode
  BY <1>1, <1>5, RestartKeeps
<1>6. CASE UNCHANGED vars
  BY <1>6 DEF vars, LoadInv, LoadTypeOK, StorageTypeOK, PutWhole, ReaderCall,
              ReaderChunks, There, AllThere, At, Fetched
<1> QED
  BY <1>2, <1>3, <1>4, <1>5, <1>6 DEF Next

\* The invariant of a load: besides the types, what each reader has seen of his
\* chunks is still there, and his call is the one of his place in the load.
THEOREM LoadInvariant == Spec => []LoadInv
<1>1. Init => LoadInv
  BY LoadInit
<1>2. LoadInv /\ [Next]_vars => LoadInv'
  BY LoadInvStep
<1> QED
  BY <1>1, <1>2, PTL DEF Spec

\* What storeFile and the concatenation put in place is complete from the first
\* moment: only the stream of a local file leaves a partial file behind, and
\* what has been put together from chunks has the content its name says.
THEOREM FilesPutWhole == Spec => []PutWhole
<1>1. LoadInv => PutWhole
  BY DEF LoadInv
<1> QED
  BY <1>1, LoadInvariant, PTL

\* Whenever a load concatenates, all the chunks are in the storage, also those
\* that were found as a part of the whole file.
THEOREM ChunksAreThere == Spec => []ChunksThereToConcatenate
<1>1. LoadInv => ChunksThereToConcatenate
  <2> SUFFICES ASSUME LoadInv, NEW l \in Load, call[l].pc \in {"verifying", "reading"}
               PROVE  AllThere
    BY DEF ChunksThereToConcatenate, LoadInv
  <2>1. call[l] \in Waiting
    BY LoadAssumption DEF LoadInv, LoadTypeOK, StorageTypeOK, Idle
  <2>2. call[l].op = "concat"
    BY <2>1 DEF Waiting
  <2> QED
    BY <2>2, ConcatCall
<1> QED
  BY <1>1, LoadInvariant, PTL

\* A file in place is never replaced by another one.
THEOREM InPlaceStays == Spec => NeverReplaced
<1>1. LoadInv /\ [Next]_vars
        => [\A f \in File : There(f) => dest'[f].by = dest[f].by]_storageVars
  <2> SUFFICES ASSUME LoadInv, [Next]_vars, NEW f \in File, There(f)
               PROVE  dest'[f].by = dest[f].by
    OBVIOUS
  <2>1. DestChange
    BY StepChanges DEF LoadInv, LoadTypeOK
  <2> QED
    BY <2>1 DEF DestChange, There
<1> QED
  BY <1>1, LoadInvariant, PTL DEF Spec, NeverReplaced

-----------------------------------------------------------------------------
(* A load is a FileLoad.                                                   *)

\* what a step of reader l may tell him
TellsOne(l) ==
  /\ dest' = dest
  /\ \E r \in Progress :
       /\ load' = [load EXCEPT ![l] = r]
       /\ \/ r.told = load[l].told
          \/ /\ load[l].told = "nothing" /\ r.told \in {"finished", "error", "cancelled"}
             /\ r.told = "finished" => There(Whole)

LEMMA TellTells ==
  ASSUME NEW r \in Progress, NEW outcome \in {"finished", "error", "cancelled"},
         outcome = "finished" => There(Whole)
  PROVE  \A s \in {Tell(r, outcome), Over(Tell(r, outcome))} :
           /\ s \in Progress
           /\ \/ s.told = r.told
              \/ /\ r.told = "nothing" /\ s.told \in {"finished", "error", "cancelled"}
                 /\ s.told = "finished" => There(Whole)
<1>1. /\ Tell(r, outcome) \in Progress /\ Over(Tell(r, outcome)) \in Progress
      /\ Over(Tell(r, outcome)).told = Tell(r, outcome).told
  <2>1. Tell(r, outcome) \in Progress
    BY ProgressTyped
  <2>2. Over(Tell(r, outcome)) \in Progress
    BY <2>1, ProgressTyped
  <2>3. \A s \in Progress : Over(s).told = s.told
    BY DEF Over, Progress
  <2> QED
    BY <2>1, <2>2, <2>3
<1>2. Tell(r, outcome).told = IF r.told = "nothing" THEN outcome ELSE r.told
  BY DEF Tell, Progress
<1> QED
  BY <1>1, <1>2

LEMMA ReaderTold ==
  ASSUME LoadInv, NEW l \in Load,
         \/ Begin(l) \/ Finish(l) \/ FetchFails(l) \/ ChunkWriteFails(l) \/ Cancel(l)
         \/ FetchHangs(l)
         \/ FindChunk(l) \/ Receive(l) \/ ChunkComplete(l) \/ Verify(l) \/ Read(l)
  PROVE  TellsOne(l)
<1> DEFINE r == load[l]
<1>1. r \in Progress /\ ReaderCall(l)
  BY DEF LoadInv, LoadTypeOK, Progress
<1>2. \A s \in Progress : s.told = r.told /\ load' = [load EXCEPT ![l] = s] /\ dest' = dest
                            => TellsOne(l)
  BY DEF TellsOne
<1>3. \A outcome \in {"finished", "error", "cancelled"} :
        \A s \in {Tell(r, outcome), Over(Tell(r, outcome))} :
          /\ outcome = "finished" => There(Whole)
          /\ load' = [load EXCEPT ![l] = s] /\ dest' = dest
          => TellsOne(l)
  <2> SUFFICES ASSUME NEW outcome \in {"finished", "error", "cancelled"},
                      NEW s \in {Tell(r, outcome), Over(Tell(r, outcome))},
                      outcome = "finished" => There(Whole),
                      load' = [load EXCEPT ![l] = s], dest' = dest
               PROVE  TellsOne(l)
    OBVIOUS
  <2>1. /\ s \in Progress
        /\ \/ s.told = r.told
           \/ /\ r.told = "nothing" /\ s.told \in {"finished", "error", "cancelled"}
              /\ s.told = "finished" => There(Whole)
    BY <1>1, TellTells
  <2> QED
    BY <2>1 DEF TellsOne
<1>4. load' = load /\ dest' = dest => TellsOne(l)
  <2>1. load' = load => load' = [load EXCEPT ![l] = r]
    BY DEF LoadInv, LoadTypeOK
  <2> QED
    BY <1>1, <1>2, <2>1
<1>5. \A pc \in {"opening", "found", "fetching", "hung", "storing"} :
        load' = [load EXCEPT ![l].pc = pc] /\ dest' = dest => TellsOne(l)
  <2> TAKE pc \in {"opening", "found", "fetching", "hung", "storing"}
  <2>1. [r EXCEPT !.pc = pc] \in Progress /\ [r EXCEPT !.pc = pc].told = r.told
    BY <1>1 DEF Progress
  <2> QED
    BY <1>2, <2>1
<1>6. CASE Begin(l)
  <2>1. CASE There(Whole)
    BY <1>3, <1>6, <2>1 DEF Begin, storageVars
  <2>2. CASE ~There(Whole)
    BY <1>5, <1>6, <2>2 DEF Begin, storageVars
  <2> QED
    BY <2>1, <2>2
<1>7. CASE Finish(l)
  <2>1. There(Whole)
    BY <1>1, <1>7 DEF Finish, ReaderCall, Idle
  <2> QED
    BY <1>3, <1>7, <2>1 DEF Finish, storageVars
<1>8. CASE FetchFails(l)
  BY <1>3, <1>8 DEF FetchFails
<1>9. CASE ChunkWriteFails(l)
  <2>1. dest' = dest /\ \/ load' = [load EXCEPT ![l] = Over(Tell(r, "error"))]
                        \/ load' = [load EXCEPT ![l] = r]
    BY <1>9 DEF ChunkWriteFails, WriteFails
  <2> QED
    BY <1>1, <1>2, <1>3, <2>1
<1>10. CASE Cancel(l)
  <2>1. dest' = dest /\ \/ load' = [load EXCEPT ![l] = Over(Tell(r, "cancelled"))]
                        \/ load' = [load EXCEPT ![l] = Tell(r, "cancelled")]
    BY <1>10 DEF Cancel, storageVars
  <2> QED
    BY <1>3, <2>1
<1>11. CASE FindChunk(l)
  BY <1>5, <1>11 DEF FindChunk, storageVars
<1>15. CASE FetchHangs(l)
  BY <1>5, <1>15 DEF FetchHangs
<1>12. CASE Receive(l)
  BY <1>5, <1>12 DEF Receive, StoreFile
<1>13. CASE ChunkComplete(l)
  <2>1. dest' = dest
    BY <1>13 DEF ChunkComplete, Concatenate, storageVars
  <2>2. NextChunk(r) \in Progress /\ NextChunk(r).told = r.told
    <3>1. NextChunk(r) \in Progress
      BY <1>1, ProgressTyped
    <3> QED
      BY <1>1, <3>1 DEF NextChunk, Progress
  <2>3. \/ load' = [load EXCEPT ![l] = Over(Tell(r, "error"))]
        \/ load' = [load EXCEPT ![l] = NextChunk(r)]
    BY <1>13 DEF ChunkComplete
  <2> QED
    BY <1>2, <1>3, <2>1, <2>2, <2>3
<1>14. CASE Verify(l) \/ Read(l)
  <2>1. dest' = dest /\ \/ load' = load
                        \/ load' = [load EXCEPT ![l] = Over([r EXCEPT !.failed = TRUE])]
    BY <1>14 DEF Verify, Read, VerifyChunks, ReadChunks
  <2>2. [r EXCEPT !.failed = TRUE] \in Progress /\ [r EXCEPT !.failed = TRUE].told = r.told
    BY <1>1 DEF Progress
  <2>3. \A s \in Progress : Over(s) \in Progress /\ Over(s).told = s.told
    <3>1. \A s \in Progress : Over(s).told = s.told
      BY DEF Over, Progress
    <3> QED
      BY <3>1, ProgressTyped
  <2>4. CASE load' = load
    BY <1>4, <2>1, <2>4
  <2>5. CASE load' = [load EXCEPT ![l] = Over([r EXCEPT !.failed = TRUE])]
    <3> DEFINE s == Over([r EXCEPT !.failed = TRUE])
    <3>1. s \in Progress /\ s.told = r.told
      BY <2>2, <2>3
    <3> HIDE DEF s, r
    <3> QED
      BY <1>2, <2>1, <2>5, <3>1 DEF s
  <2> QED
    BY <2>1, <2>4, <2>5
<1> QED
  BY <1>6, <1>7, <1>8, <1>9, <1>10, <1>11, <1>12, <1>13, <1>14, <1>15

LEMMA ToldStep ==
  ASSUME LoadInv, NEW l \in Load, TellsOne(l)
  PROVE  [ReaderView!Next]_(ReaderView!vars)
<1> DEFINE told == [k \in Load |-> load[k].told]
<1>1. PICK r \in Progress :
        /\ load' = [load EXCEPT ![l] = r]
        /\ \/ r.told = load[l].told
           \/ /\ load[l].told = "nothing" /\ r.told \in {"finished", "error", "cancelled"}
              /\ r.told = "finished" => There(Whole)
  BY DEF TellsOne
<1>2. There(Whole)' = There(Whole)
  BY DEF TellsOne, There
<1>3. told' = [told EXCEPT ![l] = r.told]
  BY <1>1 DEF LoadInv, LoadTypeOK
<1>4. CASE r.told = load[l].told
  <2>1. told' = told
    BY <1>3, <1>4
  <2> QED
    BY <1>2, <2>1 DEF ReaderView!vars
<1>5. CASE r.told # load[l].told
  <2>1. ReaderView!Tell(l, r.told) /\ r.told \in ReaderView!Outcome
    BY <1>1, <1>2, <1>3, <1>5 DEF ReaderView!Tell, ReaderView!Outcome
  <2> QED
    BY <2>1 DEF ReaderView!Next
<1> QED
  BY <1>4, <1>5

\* a step that tells nobody anything may put the file in place
LEMMA StoreStep ==
  ASSUME LoadInv, DestChange, load' = load
  PROVE  [ReaderView!Next]_(ReaderView!vars)
<1>1. Whole \in File
  BY DEF File
<1>2. There(Whole) => There(Whole)'
  BY <1>1, ThereStays DEF LoadInv, LoadTypeOK
<1>3. CASE There(Whole)' = There(Whole)
  BY <1>3 DEF ReaderView!vars
<1>4. CASE There(Whole)' # There(Whole)
  BY <1>2, <1>4 DEF ReaderView!Next, ReaderView!Store, There
<1> QED
  BY <1>3, <1>4

\* To its readers a load is a FileLoad: they hear one outcome, and that it has
\* finished only when the file is in the storage.
THEOREM LoadImplementsFileLoad == Spec => ImplementsFileLoad
<1>1. Init => ReaderView!Init
  <2> SUFFICES ASSUME Init PROVE ReaderView!Init
    OBVIOUS
  <2>1. ~There(Whole)
    BY DEF Init, StorageInit, There, File
  <2>2. [l \in Load |-> load[l].told] = [l \in Load |-> "nothing"]
    BY DEF Init, New
  <2> QED
    BY <2>1, <2>2 DEF ReaderView!Init, There
<1>2. LoadInv /\ [Next]_vars => [ReaderView!Next]_(ReaderView!vars)
  <2> SUFFICES ASSUME LoadInv, [Next]_vars
               PROVE  [ReaderView!Next]_(ReaderView!vars)
    OBVIOUS
  <2>1. DestChange
    BY StepChanges DEF LoadInv, LoadTypeOK
  <2>2. ASSUME NEW l \in Load, ChunkWritten(l) \/ WriteChunks(l)
        PROVE  [ReaderView!Next]_(ReaderView!vars)
    BY <2>1, <2>2, StoreStep DEF ChunkWritten, WriteChunks
  <2>3. ASSUME NEW l \in Load,
               \/ Begin(l) \/ Finish(l) \/ FetchFails(l) \/ ChunkWriteFails(l) \/ Cancel(l)
               \/ FetchHangs(l)
               \/ FindChunk(l) \/ Receive(l) \/ ChunkComplete(l) \/ Verify(l) \/ Read(l)
        PROVE  [ReaderView!Next]_(ReaderView!vars)
    BY <2>3, ReaderTold, ToldStep
  <2>4. ASSUME NEW c \in Local,
               \/ LocalStep(c)
               \/ /\ StoreLocal(c) \/ StreamFails(c) \/ CheckThrows(c) \/ WriteFails(c)
                  /\ UNCHANGED load
        PROVE  [ReaderView!Next]_(ReaderView!vars)
    BY <2>1, <2>4, StoreStep DEF LocalStep
  <2>5. CASE RestartNode
    <3>1. [l \in Load |-> load[l].told]' = [l \in Load |-> "nothing"]
      BY <2>5 DEF RestartNode, New
    <3>2. There(Whole)' = There(Whole)
      BY <2>5 DEF RestartNode, Restart, There
    <3> QED
      BY <3>1, <3>2 DEF ReaderView!Next, ReaderView!Restart
  <2>6. CASE UNCHANGED vars
    <3>1. There(Whole)' = There(Whole)
      BY <2>6 DEF vars, There
    <3> QED
      BY <2>6, <3>1 DEF vars, ReaderView!vars
  <2> QED
    BY <2>2, <2>3, <2>4, <2>5, <2>6 DEF Next, LoadStep
<1> QED
  BY <1>1, <1>2, LoadInvariant, PTL DEF Spec, ImplementsFileLoad, ReaderView!Spec

=============================================================================
