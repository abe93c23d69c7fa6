------------------------------ MODULE LoadFile ------------------------------
(***************************************************************************)
(* Readers load a file of several chunks from other nodes: the manifest,   *)
(* then one chunk after the other (asyncLoop starts the next chunk when    *)
(* one is complete, and never a second one), and at the end the            *)
(* concatenation.  Meanwhile clients of the node store local files.        *)
(*                                                                         *)
(* A download is the job of DownloadOptimizer: its data arrive, good or    *)
(* bad, in one step, it fails, or it never ends; two readers of one chunk  *)
(* have a download each.  The manifest is loaded like a chunk, before the  *)
(* reader has a stream that he could cancel: it is chunk number 0.         *)
(***************************************************************************)
EXTENDS KacheryStorage

CONSTANTS Load,    \* calls of loadFile
          Local    \* clients that store local files

ASSUME LoadAssumption == Caller = Load \cup Local /\ Load \cap Local = {}

VARIABLES
  load   \* pc, the current chunk, what the stream has told the reader, and
         \* whether the concatenation has failed

vars == <<dest, call, faults, load>>

LoadTypeOK ==
  /\ StorageTypeOK
  /\ load \in [Load -> [pc : {"idle", "opening", "found", "fetching", "hung",
                              "storing", "concatenating", "over"},
                        chunk : 0..NumChunks,
                        told : {"nothing", "finished", "error", "cancelled"},
                        failed : BOOLEAN]]

New == [pc |-> "idle", chunk |-> 0, told |-> "nothing", failed |-> FALSE]

Init == StorageInit /\ load = [l \in Load |-> New]

Fetched(l) == IF load[l].chunk = 0 THEN Manifest ELSE load[l].chunk

\* what a reader is told, unless his stream is complete
Tell(r, outcome) == IF r.told = "nothing" THEN [r EXCEPT !.told = outcome] ELSE r

Over(r) == [r EXCEPT !.pc = "over", !.chunk = 0]

-----------------------------------------------------------------------------
\* a file that is here already is finished at once
Begin(l) ==
  /\ load[l].pc = "idle"
  /\ load' = [load EXCEPT ![l] = IF There(Whole) THEN Over(Tell(@, "finished"))
                                 ELSE [@ EXCEPT !.pc = "opening"]]
  /\ UNCHANGED storageVars

\* findFile: the file itself or, for a chunk, the file it is a chunk of
FindChunk(l) ==
  LET here == There(Fetched(l)) \/ (load[l].chunk > 0 /\ There(Whole))
  IN  /\ load[l].pc = "opening"
      /\ load' = [load EXCEPT ![l].pc = IF here THEN "found" ELSE "fetching"]
      /\ UNCHANGED storageVars

\* the data arrive and are stored
Receive(l) ==
  /\ load[l].pc = "fetching"
  /\ load' = [load EXCEPT ![l].pc = "storing"]
  /\ \E content \in {"whole", "wrong"} : StoreFile(l, Fetched(l), content)

\* mutant of FetchFails: the error of a chunk ends the loop and is not passed on
FetchFailsSilently(l) ==
  /\ load[l].pc = "fetching"
  /\ Fault
  /\ load' = [load EXCEPT ![l] = Over(@)]
  /\ UNCHANGED <<dest, call>>

\* no provider delivers: an error for the stream of the chunk, and for that of
\* the file
FetchFails(l) ==
  /\ load[l].pc = "fetching"
  /\ Fault
  /\ load' = [load EXCEPT ![l] = Over(Tell(@, "error"))]
  /\ UNCHANGED <<dest, call>>

\* nothing is ever heard of the download (Blocked and Expire of
\* DownloadOptimizer): there is no timeout here either
FetchHangs(l) ==
  /\ load[l].pc = "fetching"
  /\ Fault
  /\ load' = [load EXCEPT ![l].pc = "hung"]
  /\ UNCHANGED <<dest, call>>

\* the write of the data ends, also for a reader who has gone
ChunkWritten(l) == FileWritten(l) /\ UNCHANGED load

\* mutant of ChunkWriteFails: the stream of the chunk finishes all the same
ChunkWriteIgnored(l) == WriteFails(l) /\ UNCHANGED load

ChunkWriteFails(l) ==
  /\ WriteFails(l)
  /\ load' = [load EXCEPT ![l] = IF @.pc = "storing" THEN Over(Tell(@, "error")) ELSE @]

\* the chunk is complete: the next one, or all of them have been
NextChunk(r) ==
  IF r.chunk < NumChunks THEN [r EXCEPT !.pc = "opening", !.chunk = @ + 1]
  ELSE [r EXCEPT !.pc = "concatenating"]

\* mutant of ChunkComplete: finished with the last chunk
FinishedWithChunks(l) ==
  /\ load[l].pc = "found" \/ (load[l].pc = "storing" /\ call[l] = Idle)
  /\ load' = [load EXCEPT ![l] = IF @.chunk < NumChunks THEN NextChunk(@)
                                 ELSE Over(Tell(@, "finished"))]
  /\ UNCHANGED storageVars

\* onFinished of the stream of the chunk
ChunkComplete(l) ==
  /\ load[l].pc = "found" \/ (load[l].pc = "storing" /\ call[l] = Idle)
  /\ IF load[l].chunk = 0 /\ dest[Manifest].content # "whole"
     THEN /\ load' = [load EXCEPT ![l] = Over(Tell(@, "error"))]
          /\ UNCHANGED storageVars
     ELSE /\ load' = [load EXCEPT ![l] = NextChunk(@)]
          /\ IF load[l].chunk = NumChunks THEN Concatenate(l)
             ELSE UNCHANGED storageVars

\* the concatenation throws: the promise of the last chunk has been resolved
\* already, so that nobody hears of it
Verify(l) ==
  /\ VerifyChunks(l)
  /\ load' = IF AllThere THEN load
             ELSE [load EXCEPT ![l] = Over([@ EXCEPT !.failed = TRUE])]

Read(l) ==
  /\ ReadChunks(l)
  /\ load' = IF AllWhole THEN load
             ELSE [load EXCEPT ![l] = Over([@ EXCEPT !.failed = TRUE])]

WriteChunks(l) == ChunksWritten(l) /\ UNCHANGED load

Finish(l) ==
  /\ load[l].pc = "concatenating" /\ call[l] = Idle
  /\ load' = [load EXCEPT ![l] = Over(Tell(@, "finished"))]
  /\ UNCHANGED storageVars

\* The reader cancels the stream he has.  The stream of a chunk that is being
\* downloaded is cancelled and ends the loop (its job goes on, as modelled in
\* DownloadOptimizer); that of a chunk which is just being opened, or which is
\* complete, is not, and the load goes on.
Cancel(l) ==
  /\ load[l].chunk > 0 /\ load[l].told = "nothing"
  /\ load' = [load EXCEPT ![l] =
                IF @.pc \in {"fetching", "hung", "storing"} THEN Over(Tell(@, "cancelled"))
                ELSE Tell(@, "cancelled")]
  /\ UNCHANGED storageVars

StoreLocal(c) == \E f \in Chunk \cup {Whole}, op \in {"stream", "link"} : StoreStream(c, f, op)

RestartNode == Restart /\ load' = [l \in Load |-> New]

-----------------------------------------------------------------------------
LoadStep(l) ==
  \/ FindChunk(l) \/ Receive(l) \/ ChunkWritten(l) \/ ChunkComplete(l)
  \/ Verify(l) \/ Read(l) \/ WriteChunks(l) \/ Finish(l)

\* what happens to the call of a client
LocalStep(c) == /\ StreamEnds(c) \/ Flush(c) \/ SizeMatches(c) \/ FileWritten(c)
                /\ UNCHANGED load

Next ==
  \/ \E l \in Load : \/ Begin(l) \/ LoadStep(l) \/ Cancel(l)
                     \/ FetchFails(l) \/ FetchHangs(l) \/ ChunkWriteFails(l)
  \/ \E c \in Local : \/ LocalStep(c)
                      \/ /\ StoreLocal(c) \/ StreamFails(c) \/ CheckThrows(c) \/ WriteFails(c)
                         /\ UNCHANGED load
  \/ RestartNode

Spec == Init /\ [][Next]_vars

(* Downloads end but for those that hang (FetchHangs), and the disk and the *)
(* timers go on.                                                           *)
Fairness == /\ \A l \in Load : WF_vars(LoadStep(l))
            /\ \A c \in Local : WF_vars(LocalStep(c))

FairSpec == Spec /\ Fairness

-----------------------------------------------------------------------------
(* Properties.                                                             *)

\* To its readers a load is a FileLoad.
ReaderView == INSTANCE FileLoad WITH
  Reader <- Load, present <- There(Whole), told <- [l \in Load |-> load[l].told]

ImplementsFileLoad == ReaderView!Spec

\* When the concatenation asks for them all chunks are there, those too that
\* were found as a part of the whole file (loadFile.ts counts chunks, it does
\* not look at the storage).  (The type invariant comes first.)
ChunksThereToConcatenate ==
  /\ LoadTypeOK
  /\ \A l \in Load : call[l].pc \in {"verifying", "reading"} => AllThere

\* Every reader hears the outcome of his load, unless the concatenation has
\* failed, of which loadFile does not tell him, or the download of a chunk or of
\* the manifest never ends: its stream has lost a message, its job waits for
\* ever for the named node or has lost its entry (TasksEnd of
\* DownloadOptimizer, StreamEnds of DataStream).
LoadEnds ==
  \A l \in Load :
    load[l].pc # "idle" ~> \/ load[l].told # "nothing"
                           \/ load[l].failed \/ load[l].pc \in {"idle", "hung"}

=============================================================================
