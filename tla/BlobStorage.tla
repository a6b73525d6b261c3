------------------------------ MODULE BlobStorage ------------------------------
(***************************************************************************)
(* AzureBlobStorageClient (clients/azure_blobs.py): tasks upload, delete   *)
(* and download blobs into one directory.  Each call opens SDK clients of  *)
(* its own; what calls share is the store and, in download_blob_to_dir(),  *)
(* the file, which is named after the last part of the blob's name.        *)
(***************************************************************************)
EXTENDS Tasks, Naturals, Sequences

CONSTANTS
    Downloader,    \* tasks that call download_blob_to_dir()
    Folder, Base,  \* a blob's name is a folder and the last part of its path
    MaxChunks      \* bound of the length of a blob

ASSUME BlobAssumption == MaxChunks \in Nat /\ None \notin Folder \X Base

VARIABLES
    store,     \* the length of a blob in the container, 0 if there is none
    files,     \* the chunks of a file in the directory, by the name of the file
    phase,     \* where a task is in download_blob_to_dir()
    source,    \* the blob it downloads
    length,    \* the length of that blob when its stream began, 0 before
    received,  \* chunks it has passed to write()
    written,   \* ... and that have left the buffer of its file
    lone       \* nobody else has had the file open since it opened it (history)

downloads == <<phase, source, length, received, written, lone>>
blobVars  == <<store, files, downloads>>

Blob == Folder \X Base

\* os.path.basename(blob_name)
Path(b) == b[2]

\*   opened  the file is open, download_blob() runs   streaming  chunks arrive
\*   saving, failing  the SDK clients are closed and the file is being closed
\*   saved, failed    the call has returned or raised
Phase == {"idle", "opened", "streaming", "saving", "failing", "saved", "failed"}

HasFile == {"opened", "streaming", "saving", "failing"}

\* Chunk i of the contents of length n that blob b had.  None: nobody wrote there.
Content(b, n) == [i \in 1..n |-> <<b, n, i>>]

Chunk == (Blob \X (1..MaxChunks) \X (1..MaxChunks)) \cup {None}

BlobTypeOK ==
    /\ store \in [Blob -> 0..MaxChunks]
    /\ files \in [Base -> Seq(Chunk)]
    /\ phase \in [Downloader -> Phase]
    /\ source \in [Downloader -> Blob \cup {None}]
    /\ length \in [Downloader -> 0..MaxChunks]
    /\ received \in [Downloader -> 0..MaxChunks]
    /\ written \in [Downloader -> 0..MaxChunks]
    /\ lone \in [Downloader -> BOOLEAN]
    /\ \A t \in Downloader : /\ phase[t] # "idle" => source[t] # None
                             /\ phase[t] \in {"idle", "opened"} => length[t] = 0
                             /\ written[t] <= received[t] /\ received[t] <= length[t]

BlobInit ==
    /\ store \in [Blob -> 0..MaxChunks]
    /\ files = [p \in Base |-> << >>]
    /\ phase = [t \in Downloader |-> "idle"]
    /\ source = [t \in Downloader |-> None]
    /\ length = [t \in Downloader |-> 0]
    /\ received = [t \in Downloader |-> 0]
    /\ written = [t \in Downloader |-> 0]
    /\ lone = [t \in Downloader |-> FALSE]

-----------------------------------------------------------------------------
(* Calls that are one request *)

\* upload_blob() and upload_blob_from_url() replace the contents; an upload that may not
\* overwrite, or fails, changes nothing.
Upload(b, n) ==
    /\ n > 0
    /\ store' = [store EXCEPT ![b] = n]
    /\ UNCHANGED <<files, downloads>>

DeleteBlob(b) ==
    /\ store[b] > 0
    /\ store' = [store EXCEPT ![b] = 0]
    /\ UNCHANGED <<files, downloads>>

-----------------------------------------------------------------------------
(* download_blob_to_dir() *)

InPhase(t, l) == phase' = [phase EXCEPT ![t] = l]

SamePath(t, b) == source[t] # None /\ Path(source[t]) = Path(b)

\* Mutant: an old file is not truncated.
NotTruncated(b) == files

\* The file is open for writing: what was in it is gone, whoever wrote it.
Truncated(b) == [files EXCEPT ![Path(b)] = << >>]

OpenFile(t, b) ==
    /\ phase[t] \in {"idle", "saved", "failed"}
    /\ InPhase(t, "opened")
    /\ source' = [source EXCEPT ![t] = b]
    /\ files' = Truncated(b)
    /\ length' = [length EXCEPT ![t] = 0]
    /\ received' = [received EXCEPT ![t] = 0]
    /\ written' = [written EXCEPT ![t] = 0]
    /\ lone' = [u \in Downloader |->
         IF u = t THEN \A v \in Downloader \ {t} : ~(phase[v] \in HasFile /\ SamePath(v, b))
         ELSE lone[u] /\ ~SamePath(u, b)]
    /\ UNCHANGED store

\* download_blob(): the stream is of the contents the blob has now.
StreamBegins(t) ==
    /\ phase[t] = "opened"
    /\ store[source[t]] > 0
    /\ InPhase(t, "streaming")
    /\ length' = [length EXCEPT ![t] = store[source[t]]]
    /\ UNCHANGED <<store, files, source, received, written, lone>>

\* A chunk arrives and is passed to write().  The SDK asks for what the stream began
\* with, and gets an error if the blob has been replaced.
ChunkArrives(t) ==
    /\ phase[t] = "streaming"
    /\ received[t] < length[t]
    /\ store[source[t]] = length[t]
    /\ received' = [received EXCEPT ![t] = @ + 1]
    /\ UNCHANGED <<store, files, phase, source, length, written, lone>>

\* f with chunk c at place i, after a hole if f is shorter than that.
WriteAt(f, i, c) ==
    [j \in 1..(IF i > Len(f) THEN i ELSE Len(f)) |->
        IF j = i THEN c ELSE IF j <= Len(f) THEN f[j] ELSE None]

\* A chunk leaves the buffer, for the place the handle of this task has come to.
Flush(t) ==
    /\ phase[t] \in HasFile
    /\ written[t] < received[t]
    /\ written' = [written EXCEPT ![t] = @ + 1]
    /\ LET b == source[t]
           i == written[t] + 1
       IN  files' = [files EXCEPT ![Path(b)] = WriteAt(@, i, Content(b, length[t])[i])]
    /\ UNCHANGED <<store, phase, source, length, received, lone>>

\* The stream is at its end, or raises, or the task is cancelled: the SDK clients are
\* closed, and an HttpResponseError becomes an AzureBlobError.
StreamEnds(t) ==
    /\ phase[t] = "streaming"
    /\ received[t] = length[t]
    /\ InPhase(t, "saving")
    /\ UNCHANGED <<store, files, source, length, received, written, lone>>

StreamRaises(t) ==
    /\ phase[t] \in {"opened", "streaming"}
    /\ InPhase(t, "failing")
    /\ UNCHANGED <<store, files, source, length, received, written, lone>>

\* Mutant: the call returns before its file is closed.
FileClosedUnflushed(t) ==
    /\ phase[t] \in {"saving", "failing"}
    /\ InPhase(t, IF phase[t] = "saving" THEN "saved" ELSE "failed")
    /\ UNCHANGED <<store, files, source, length, received, written, lone>>

\* The file is closed, its buffer is empty, and the call returns or raises.
FileClosed(t) ==
    /\ phase[t] \in {"saving", "failing"}
    /\ written[t] = received[t]
    /\ InPhase(t, IF phase[t] = "saving" THEN "saved" ELSE "failed")
    /\ UNCHANGED <<store, files, source, length, received, written, lone>>

BlobNext ==
    \/ \E b \in Blob, n \in 1..MaxChunks : Upload(b, n)
    \/ \E b \in Blob : DeleteBlob(b)
    \/ \E t \in Downloader :
         \/ \E b \in Blob : OpenFile(t, b)
         \/ StreamBegins(t) \/ ChunkArrives(t) \/ Flush(t)
         \/ StreamEnds(t) \/ StreamRaises(t) \/ FileClosed(t)

BlobSpec == BlobInit /\ [][BlobNext]_blobVars

-----------------------------------------------------------------------------
(* Properties *)

\* azure_blobs.py:184-194: while no other download has opened the same path, the file
\* holds what this one has written and nothing else, in whatever order buffers are
\* flushed and whatever is uploaded meanwhile.
LoneFileIsPrefix ==
    \A t \in Downloader : lone[t] =>
        files[Path(source[t])] = [i \in 1..written[t] |-> <<source[t], length[t], i>>]

\* azure_blobs.py:194: the path that download_blob_to_dir() returns leads to the whole
\* blob, as it was at one time, unless another download has opened that path: one of the
\* same blob, or of a blob in another folder whose name ends alike.
SavedIsWhole ==
    \A t \in Downloader : phase[t] = "saved" /\ lone[t] =>
        /\ length[t] > 0
        /\ files[Path(source[t])] = Content(source[t], length[t])
=============================================================================
