--------------------------- MODULE KacheryStorage ---------------------------
(***************************************************************************)
(* The directory in which a node keeps files under the SHA-1 of their      *)
(* content, and the calls that put files there: storeFile, the stream of a *)
(* local file, and the concatenation of chunks.  A call writes a temporary *)
(* file and renames it; a test for the file and the rename that follows    *)
(* are one step, as nothing is awaited in between.                         *)
(*                                                                         *)
(* Of the content of a file we keep whether it is what its name says,      *)
(* shorter because writes are still buffered, or something else.           *)
(***************************************************************************)
EXTENDS Naturals

CONSTANTS
  NumChunks,         \* the chunks of the file Whole: the files 1..NumChunks
  Whole, Manifest,   \* a file of several chunks, and its manifest
  Caller,            \* whoever stores a file, one call at a time
  None,              \* no file
  MaxFaults          \* how many operations may fail (bounds the model)

Chunk == 1..NumChunks
File  == Chunk \cup {Whole, Manifest}

ASSUME StorageAssumption ==
  /\ NumChunks \in Nat \ {0}
  /\ MaxFaults \in Nat
  /\ Whole \notin Chunk /\ Manifest \notin Chunk \cup {Whole} /\ None \notin File

VARIABLES
  dest,    \* what is at the path of each file
  call,    \* the call of each caller
  faults

storageVars == <<dest, call, faults>>

\* files in place, by the operation that put them there
Stored  == [by : {"storeFile", "stream", "concat"},
            content : {"whole", "partial", "wrong"}]
Absent  == [by |-> "nobody", content |-> "none"]
There(f) == dest[f] # Absent

\* calls that wait for the disk or for data; content: of the temporary file
Idle    == [op |-> "none", file |-> None, pc |-> "idle", content |-> "none"]
Waiting == [op : {"storeFile"}, file : File, pc : {"writing"},
            content : {"whole", "wrong"}]
             \cup [op : {"stream"}, file : File, pc : {"receiving", "checking", "hung"},
                   content : {"none"}]
             \cup [op : {"link"}, file : File, pc : {"receiving"}, content : {"none"}]
             \cup [op : {"concat"}, file : {Whole},
                   pc : {"verifying", "reading", "writing"}, content : {"none"}]

StorageTypeOK ==
  /\ dest \in [File -> Stored \cup {Absent}]
  /\ call \in [Caller -> Waiting \cup {Idle}]
  /\ faults \in 0..MaxFaults

StorageInit ==
  /\ dest = [f \in File |-> Absent]
  /\ call = [c \in Caller |-> Idle]
  /\ faults = MaxFaults

Fault == faults > 0 /\ faults' = faults - 1

At(c, op, pc) == call[c].op = op /\ call[c].pc = pc
Returns(c) == call' = [call EXCEPT ![c] = Idle]

\* mutant of Put: rename without the test
Overwrite(f, by, content) ==
  dest' = [dest EXCEPT ![f] = [by |-> by, content |-> content]]

\* renameAndCheck, unless another call has been faster: then the temporary
\* file is removed
Put(f, by, content) ==
  dest' = IF There(f) THEN dest
          ELSE [dest EXCEPT ![f] = [by |-> by, content |-> content]]

-----------------------------------------------------------------------------
(* storeFile.                                                              *)

\* the call returns at once when the file is there
Writing(f, content) ==
  IF There(f) THEN Idle
  ELSE [op |-> "storeFile", file |-> f, pc |-> "writing", content |-> content]

\* the data are not compared with the name
StoreFile(c, f, content) ==
  /\ call[c] = Idle
  /\ call' = [call EXCEPT ![c] = Writing(f, content)]
  /\ IF content = "whole" THEN UNCHANGED faults ELSE Fault
  /\ UNCHANGED dest

FileWritten(c) ==
  /\ At(c, "storeFile", "writing")
  /\ Put(call[c].file, "storeFile", call[c].content)
  /\ Returns(c)
  /\ UNCHANGED faults

WriteFails(c) ==
  /\ At(c, "storeFile", "writing")
  /\ Fault
  /\ Returns(c)
  /\ UNCHANGED dest

-----------------------------------------------------------------------------
(* storeFileFromStream, for storeLocalFile and /store; without writing for *)
(* linkLocalFile.                                                          *)

StoreStream(c, f, op) ==
  /\ call[c] = Idle
  /\ call' = [call EXCEPT ![c] = [op |-> op, file |-> f, pc |-> "receiving",
                                    content |-> "none"]]
  /\ UNCHANGED <<dest, faults>>

\* nextStep: the call returns; the manifest is stored without being awaited
NextStep(c) ==
  call' = [call EXCEPT ![c] = IF @.file = Whole THEN Writing(Manifest, "whole")
                              ELSE Idle]

\* the stream ends: the temporary file gets its name, whether or not what was
\* written to it has left the buffers
StreamEnds(c) ==
  /\ call[c].pc = "receiving"
  /\ IF call[c].op = "link" \/ There(call[c].file)
     THEN NextStep(c) /\ UNCHANGED dest
     ELSE /\ \E content \in {"partial", "whole"} :
               Put(call[c].file, "stream", content)
          /\ call' = [call EXCEPT ![c].pc = "checking"]
  /\ UNCHANGED faults

\* the stream fails: _cleanup
StreamFails(c) ==
  /\ call[c].pc = "receiving"
  /\ Fault
  /\ Returns(c)
  /\ UNCHANGED dest

Flush(c) ==
  LET f == call[c].file
  IN  /\ call[c].op = "stream" /\ call[c].pc \in {"checking", "hung"}
      /\ dest[f].content = "partial"
      /\ dest' = [dest EXCEPT ![f].content = "whole"]
      /\ UNCHANGED <<call, faults>>

\* the loop of renameAndCheck finds the size it expects
SizeMatches(c) ==
  /\ At(c, "stream", "checking")
  /\ dest[call[c].file].content = "whole"
  /\ NextStep(c)
  /\ UNCHANGED <<dest, faults>>

\* renameAndCheck throws: the rename has failed, or the file never has the
\* size that was expected.  Nobody catches that, and the call never settles
CheckThrows(c) ==
  /\ call[c].op = "stream"
  /\ \/ call[c].pc = "checking"
     \/ (call[c].pc = "receiving" /\ ~There(call[c].file))
  /\ Fault
  /\ call' = [call EXCEPT ![c].pc = "hung"]
  /\ UNCHANGED dest

-----------------------------------------------------------------------------
(* concatenateChunksAndStoreResult.                                        *)

Concatenate(c) ==
  /\ call[c] = Idle
  /\ call' = [call EXCEPT ![c] =
                IF There(Whole) THEN Idle
                ELSE [op |-> "concat", file |-> Whole, pc |-> "verifying",
                      content |-> "none"]]
  /\ UNCHANGED <<dest, faults>>

AllThere == \A i \in Chunk : There(i)
AllWhole == \A i \in Chunk : dest[i].content = "whole"

\* all the chunks are there, or the call throws
VerifyChunks(c) ==
  /\ At(c, "concat", "verifying")
  /\ IF AllThere THEN call' = [call EXCEPT ![c].pc = "reading"] ELSE Returns(c)
  /\ UNCHANGED <<dest, faults>>

\* mutant of ReadChunks: the SHA-1 is not compared, and the file is put in
\* place while it is being written
ReadChunksUnchecked(c) ==
  /\ At(c, "concat", "reading")
  /\ Put(Whole, "concat", IF AllWhole THEN "whole" ELSE "wrong")
  /\ Returns(c)
  /\ UNCHANGED faults

\* the SHA-1 of what has been read is the name of the file, or the call throws
ReadChunks(c) ==
  /\ At(c, "concat", "reading")
  /\ IF AllWhole THEN call' = [call EXCEPT ![c].pc = "writing"] ELSE Returns(c)
  /\ UNCHANGED <<dest, faults>>

ChunksWritten(c) ==
  /\ At(c, "concat", "writing")
  /\ Put(Whole, "concat", "whole")
  /\ Returns(c)
  /\ UNCHANGED faults

-----------------------------------------------------------------------------
\* the daemon ends and is started again: what was buffered is gone, and
\* temporary files stay where nobody looks
Restart ==
  /\ Fault
  /\ call' = [c \in Caller |-> Idle]
  /\ UNCHANGED dest

-----------------------------------------------------------------------------
(* Properties.                                                             *)

\* What storeFile and the concatenation put in place is complete from the first
\* moment, whatever fails or restarts: partial is only what a stream has put
\* there.  What has been put together from chunks is what its name says,
\* whatever was downloaded as a chunk.
PutWhole ==
  \A f \in File : /\ dest[f].content = "partial" => dest[f].by = "stream"
                  /\ dest[f].content = "wrong" => dest[f].by = "storeFile"

\* A file in place is not replaced: those who read it and those who wait for
\* its size look at the same file.
NeverReplaced ==
  [][\A f \in File : There(f) => dest'[f].by = dest[f].by]_storageVars

\* A comment in storeFileFromStream says "if the dest path already exists, we
\* already have the file and we are good": a file in place that nobody still
\* writes is what its name says.
InPlaceMeansWhole ==
  \A f \in File :
    dest[f].content = "partial" => \E c \in Caller : call[c].op = "stream" /\ call[c].file = f
=============================================================================
