------------------------------ MODULE ReadFile ------------------------------
(***************************************************************************)
(* evutil_read_file_: open a file close-on-exec, fstat() it, allocate      *)
(* st_size + 1 bytes, read() until st_size bytes are in or read() returns  *)
(* 0 or -1, close it, and return 0 with the contents, -1 if the open      *)
(* failed or -2 for any other failure.                                     *)
(*                                                                         *)
(* The file is not locked: another process may append to it or truncate  *)
(* it between any two of these system calls.  read() may return fewer     *)
(* bytes than asked for, 0 at the end of the file, or -1 (EINTR, EIO).    *)
(* The descriptor's offset is read_so_far, as nothing else reads from it. *)
(* evutil_open_closeonexec_ itself is a helper of Descriptors; here it     *)
(* either yields a descriptor or fails.                                    *)
(***************************************************************************)
EXTENDS Integers, Sequences

CONSTANTS
    Data,        \* the bytes the file may hold
    MaxFile,     \* the longest the other process makes the file
    SsizeMax,    \* EV_SSIZE_MAX, scaled to the model
    NULL,        \* a null pointer
    NoMem        \* no buffer is allocated

VARIABLES
    file,        \* the file's contents
    rfPc,        \* the next step of evutil_read_file_
    fdIsOpen,    \* the descriptor is open
    stSize,      \* st.st_size
    mem,         \* the buffer, while allocated: the bytes read into it
    readSoFar,   \* read_so_far
    lastRead,    \* r, the last result of read()
    ret,         \* what evutil_read_file_ returned (Running before)
    contentOut,  \* *content_out: the bytes before the NUL, or NULL
    changed      \* the other process changed the file during the call

vars == <<file, rfPc, fdIsOpen, stSize, mem, readSoFar, lastRead, ret,
          contentOut, changed>>

Running == 1

Files == UNION {[1..n -> Data] : n \in 0..MaxFile}

MinOf(a, b) == IF a < b THEN a ELSE b

-----------------------------------------------------------------------------
(* The call.                                                               *)

\* The call returns code.
Return(code) == rfPc' = "done" /\ ret' = code

\* *content_out = NULL and *len_out = 0; evutil_open_closeonexec_ either
\* returns a descriptor or -1, and then the call returns -1.
Open ==
    /\ rfPc = "open"
    /\ contentOut' = NULL
    /\ \/ fdIsOpen' = TRUE /\ rfPc' = "fstat" /\ UNCHANGED ret
       \/ Return(-1) /\ UNCHANGED fdIsOpen
    /\ UNCHANGED <<file, stSize, mem, readSoFar, lastRead, changed>>

\* fstat(); a failure, or a size that would not fit the ssize_t of read(),
\* closes the descriptor and returns -2.
Fstat ==
    /\ rfPc = "fstat"
    /\ \/ /\ Len(file) <= SsizeMax - 1
          /\ stSize' = Len(file)
          /\ rfPc' = "malloc"
          /\ UNCHANGED <<fdIsOpen, ret>>
       \/ /\ fdIsOpen' = FALSE    \* either, or fstat() fails
          /\ Return(-2) /\ UNCHANGED stSize
    /\ UNCHANGED <<file, mem, readSoFar, lastRead, contentOut, changed>>

\* mm_malloc(st_size + 1); on failure the descriptor is closed and -2
\* returned.
Malloc ==
    /\ rfPc = "malloc"
    /\ \/ /\ mem' = <<>> /\ readSoFar' = 0 /\ rfPc' = "read"
          /\ UNCHANGED <<fdIsOpen, ret>>
       \/ fdIsOpen' = FALSE /\ Return(-2) /\ UNCHANGED <<mem, readSoFar>>
    /\ UNCHANGED <<file, stSize, lastRead, contentOut, changed>>

\* Mutant of Finish: a failed read() leaves the buffer allocated.
FinishNoFree(r, buf) ==
    /\ fdIsOpen' = FALSE
    /\ Return(IF r < 0 THEN -2 ELSE 0)
    /\ mem' = IF r < 0 THEN buf ELSE NoMem
    /\ contentOut' = IF r < 0 THEN NULL ELSE buf

\* Mutant of Finish: the call returns r, the last result of read().
FinishReturnsR(r, buf) ==
    /\ fdIsOpen' = FALSE
    /\ Return(r)
    /\ mem' = NoMem
    /\ contentOut' = IF r < 0 THEN NULL ELSE buf

\* After the loop: close(fd); a negative r frees the buffer and returns -2,
\* otherwise mem[read_so_far] = 0 and the buffer goes to the caller.
Finish(r, buf) ==
    /\ fdIsOpen' = FALSE
    /\ Return(IF r < 0 THEN -2 ELSE 0)
    /\ mem' = NoMem
    /\ contentOut' = IF r < 0 THEN NULL ELSE buf

\* Mutant of ReadCount: one byte more, for the NUL.
ReadCountPlusOne == stSize - readSoFar + 1

\* The bytes read() asks for: st_size - read_so_far.
ReadCount == stSize - readSoFar

\* Mutant of ReadData: the first read() is taken to return everything.
ReadDataOnce ==
    /\ rfPc = "read"
    /\ \E k \in 1..MinOf(ReadCount, Len(file) - readSoFar) :
         LET buf == mem \o SubSeq(file, readSoFar + 1, readSoFar + k)
         IN /\ lastRead' = k
            /\ readSoFar' = readSoFar + k
            /\ Finish(k, buf)
    /\ UNCHANGED <<file, stSize, changed>>

\* One turn of the while loop in which read(fd, mem + read_so_far,
\* st_size - read_so_far) returns k > 0 bytes from the file's offset: at
\* most what was asked for and what the file still holds there.  The loop
\* breaks when read_so_far reaches st_size.
ReadData ==
    /\ rfPc = "read"
    /\ \E k \in 1..MinOf(ReadCount, Len(file) - readSoFar) :
         LET buf == mem \o SubSeq(file, readSoFar + 1, readSoFar + k)
         IN /\ lastRead' = k
            /\ readSoFar' = readSoFar + k
            /\ IF readSoFar + k >= stSize
               THEN Finish(k, buf)
               ELSE /\ mem' = buf /\ rfPc' = "read"
                    /\ UNCHANGED <<fdIsOpen, ret, contentOut>>
    /\ UNCHANGED <<file, stSize, changed>>

\* Mutant of ReadEof: the loop goes on while read() returns r >= 0.
ReadEofLoops ==
    /\ rfPc = "read"
    /\ ReadCount <= 0 \/ Len(file) <= readSoFar
    /\ lastRead' = 0
    /\ UNCHANGED <<rfPc, fdIsOpen, mem, ret, contentOut, readSoFar>>
    /\ UNCHANGED <<file, stSize, changed>>

\* read() returns 0, at the end of the file (which the other process may
\* have moved below st_size) or for a count of 0: the loop ends.
ReadEof ==
    /\ rfPc = "read"
    /\ ReadCount <= 0 \/ Len(file) <= readSoFar
    /\ lastRead' = 0
    /\ Finish(0, mem) /\ UNCHANGED readSoFar
    /\ UNCHANGED <<file, stSize, changed>>

\* read() returns -1 (EINTR, EIO): the loop ends.
ReadError ==
    /\ rfPc = "read"
    /\ lastRead' = -1
    /\ Finish(-1, mem) /\ UNCHANGED readSoFar
    /\ UNCHANGED <<file, stSize, changed>>

Reader == Open \/ Fstat \/ Malloc \/ ReadData \/ ReadEof \/ ReadError

\* The steps of the thread in the call that do not fail in read(); the
\* failing one ends the call too.
ReaderRuns == Open \/ Fstat \/ Malloc \/ ReadData \/ ReadEof

-----------------------------------------------------------------------------
(* The other process, while the call is in progress: what it does to the  *)
(* file afterwards is no concern of the call.                             *)

Touch == changed' = TRUE

\* It appends a byte.
Append1(d) ==
    /\ Len(file) < MaxFile
    /\ file' = Append(file, d)
    /\ Touch

\* It truncates the file to n bytes.
Truncate(n) ==
    /\ n < Len(file)
    /\ file' = SubSeq(file, 1, n)
    /\ Touch

Writer ==
    /\ rfPc # "done"
    /\ \/ \E d \in Data : Append1(d)
       \/ \E n \in 0..MaxFile : Truncate(n)
    /\ UNCHANGED <<rfPc, fdIsOpen, stSize, mem, readSoFar, lastRead, ret,
                   contentOut>>

Init ==
    /\ file \in Files
    /\ rfPc = "open"
    /\ fdIsOpen = FALSE
    /\ stSize = -1
    /\ mem = NoMem
    /\ readSoFar = 0
    /\ lastRead = 0
    /\ ret = Running
    /\ contentOut = NULL
    /\ changed = FALSE

Next == Reader \/ Writer

\* The call is made by one thread that is scheduled, and whose read()s do
\* not all fail.
Spec == Init /\ [][Next]_vars /\ WF_vars(ReaderRuns)

-----------------------------------------------------------------------------
(* Properties.                                                             *)

TypeOK ==
    /\ file \in Files
    /\ rfPc \in {"open", "fstat", "malloc", "read", "done"}
    /\ fdIsOpen \in BOOLEAN
    /\ stSize \in -1..MaxFile
    /\ mem = NoMem \/ mem \in Seq(Data)
    /\ readSoFar \in Nat /\ lastRead \in -1..MaxFile
    /\ ret \in {Running, 0, -1, -2}
    /\ contentOut = NULL \/ contentOut \in Seq(Data)
    /\ changed \in BOOLEAN

\* The loop never reads past the st_size + 1 bytes it allocated, however
\* the other process grows the file after the fstat(), and the NUL at
\* mem[read_so_far] is inside the buffer.
ReadWithinAllocation ==
    stSize >= 0 => readSoFar <= stSize

\* On every return the descriptor is closed, and the buffer is freed
\* unless it was handed to the caller with a 0 return: no path of
\* evutil_read_file_ leaks either.
NoLeakOnReturn ==
    rfPc = "done" =>
        /\ ~fdIsOpen /\ mem = NoMem
        /\ (contentOut # NULL) <=> (ret = 0)

\* If nothing changed the file during the call, a 0 return hands back its
\* whole contents, however short the reads were.
WholeFileIfUnchanged ==
    rfPc = "done" /\ ret = 0 /\ ~changed => contentOut = file

\* evutil_read_file_ returns, whatever the other process does to the
\* file: the read loop ends at st_size, at the end of the file or on an
\* error.
ReadFileReturns == <>(rfPc = "done")

=============================================================================
