------------------------------- MODULE AuditLog -------------------------------
(***************************************************************************)
(* The audit file shared by the MCP server's threads and the operator's    *)
(* command (workflow-runner/workflow_runner/audit.py).  append() holds a   *)
(* lock of its process while it counts the lines of the file and then adds *)
(* its own; other processes do the same at the same time.                  *)
(*                                                                         *)
(* An entry is its writer and its seq; the event itself decides nothing.   *)
(* It is far smaller than the file's write buffer, so it reaches the file  *)
(* in one write in append mode, of which a full disk may keep only a part. *)
(***************************************************************************)
EXTENDS Naturals, Sequences, FiniteSets

CONSTANTS
    Writers,     \* threads that append
    Processes,
    ProcessOf,   \* [Writers -> Processes]
    MaxPieces,   \* bound: writes to the file; from there on they fail
    Free         \* nobody holds the lock

ASSUME ProcessAssumption == ProcessOf \in [Writers -> Processes]
ASSUME FreeAssumption == Free \notin Writers

VARIABLES
    file,       \* what was written, in order: entries and parts of entries
    lock,       \* lock[p]: _LOCK of process p
    pc,         \* pc[w]: next step of writer w
    seq,        \* seq[w]: the number w is about to write
    returned    \* history: the entries whose append() returned

vars == <<file, lock, pc, seq, returned>>

Entry(w) == [writer |-> w, seq |-> seq[w]]

\* A piece of the file is an entry, of which all the JSON (whole), and its
\* newline (ended), was written or not.
Pieces(Entries) ==
    {piece \in [entry : Entries, whole : BOOLEAN, ended : BOOLEAN] :
       piece.ended => piece.whole}

\* What follows a piece without a newline is glued to its line.
StartsLine(i) == i = 1 \/ file[i - 1].ended

NumberOfLines == Cardinality({i \in DOMAIN file : StartsLine(i)})

Init ==
    /\ file = << >>
    /\ lock = [p \in Processes |-> Free]
    /\ pc = [w \in Writers |-> "idle"]
    /\ seq = [w \in Writers |-> 0]
    /\ returned = {}

\* Mutant of Acquire: nobody waits for the lock.
AcquireNothing(w) ==
    /\ pc[w] = "idle"
    /\ pc' = [pc EXCEPT ![w] = "count"]
    /\ UNCHANGED <<file, lock, seq, returned>>

Acquire(w) ==
    /\ pc[w] = "idle"
    /\ lock[ProcessOf[w]] = Free
    /\ lock' = [lock EXCEPT ![ProcessOf[w]] = w]
    /\ pc' = [pc EXCEPT ![w] = "count"]
    /\ UNCHANGED <<file, seq, returned>>

\* Mutant of Count: the first number is 0.
CountFromZero(w) ==
    /\ pc[w] = "count"
    /\ seq' = [seq EXCEPT ![w] = NumberOfLines]
    /\ pc' = [pc EXCEPT ![w] = "write"]
    /\ UNCHANGED <<file, lock, returned>>

\* _next_seq(): one more than the lines that are there now, torn ones included.
Count(w) ==
    /\ pc[w] = "count"
    /\ seq' = [seq EXCEPT ![w] = NumberOfLines + 1]
    /\ pc' = [pc EXCEPT ![w] = "write"]
    /\ UNCHANGED <<file, lock, returned>>

\* Mutant of Write: the file is opened for writing, not for appending.
WriteAnew(w) ==
    /\ pc[w] = "write"
    /\ file' = <<[entry |-> Entry(w), whole |-> TRUE, ended |-> TRUE]>>
    /\ pc' = [pc EXCEPT ![w] = "release"]
    /\ UNCHANGED <<lock, seq, returned>>

Write(w) ==
    /\ pc[w] = "write"
    /\ Len(file) < MaxPieces
    /\ file' = Append(file, [entry |-> Entry(w), whole |-> TRUE, ended |-> TRUE])
    /\ pc' = [pc EXCEPT ![w] = "release"]
    /\ UNCHANGED <<lock, seq, returned>>

\* The with statement ends and append() returns the entry.
Release(w) ==
    /\ pc[w] = "release"
    /\ returned' = returned \cup {Entry(w)}
    /\ lock' = [lock EXCEPT ![ProcessOf[w]] = Free]
    /\ pc' = [pc EXCEPT ![w] = "idle"]
    /\ seq' = [seq EXCEPT ![w] = 0]
    /\ UNCHANGED file

\* Part of the line is written before the disk is full, perhaps all but the
\* newline: the write raises, and the lock is given back.
Tear(w) ==
    /\ pc[w] = "write"
    /\ Len(file) < MaxPieces
    /\ \E whole \in BOOLEAN :
         file' = Append(file, [entry |-> Entry(w), whole |-> whole, ended |-> FALSE])
    /\ lock' = [lock EXCEPT ![ProcessOf[w]] = Free]
    /\ pc' = [pc EXCEPT ![w] = "idle"]
    /\ seq' = [seq EXCEPT ![w] = 0]
    /\ UNCHANGED returned

\* Opening or reading the file raises, or the write does before anything of it
\* is in the file.
Fail(w) ==
    /\ pc[w] \in {"count", "write"}
    /\ lock' = [lock EXCEPT ![ProcessOf[w]] = Free]
    /\ pc' = [pc EXCEPT ![w] = "idle"]
    /\ seq' = [seq EXCEPT ![w] = 0]
    /\ UNCHANGED <<file, returned>>

\* A process dies, and is started again with a free lock.
Crash(p) ==
    /\ \E w \in Writers : ProcessOf[w] = p /\ pc[w] # "idle"
    /\ lock' = [lock EXCEPT ![p] = Free]
    /\ pc' = [w \in Writers |-> IF ProcessOf[w] = p THEN "idle" ELSE pc[w]]
    /\ seq' = [w \in Writers |-> IF ProcessOf[w] = p THEN 0 ELSE seq[w]]
    /\ UNCHANGED <<file, returned>>

Step(w) == Count(w) \/ Write(w) \/ Release(w)

Next ==
    \/ \E w \in Writers : Acquire(w) \/ Step(w) \/ Tear(w) \/ Fail(w)
    \/ \E p \in Processes : Crash(p)

Spec == Init /\ [][Next]_vars
-------------------------------------------------------------------------------
\* Properties

\* The type invariant.
Entries == [writer : Writers, seq : Nat \ {0}]
TypeOK ==
    /\ file \in Seq(Pieces(Entries))
    /\ lock \in [Processes -> Writers \cup {Free}]
    /\ pc \in [Writers -> {"idle", "count", "write", "release"}]
    /\ seq \in [Writers -> Nat]
    /\ returned \subseteq Entries

\* Within one process the numbers grow along the file, whatever the other
\* processes append and whichever appends fail, tear or die half-way: the log
\* keeps the order of what one process reported.  A number is used again only
\* after an entry that was glued to a torn line, as it added no line.
OrderWithinProcess ==
    \A i, j \in DOMAIN file :
      i < j /\ ProcessOf[file[i].entry.writer] = ProcessOf[file[j].entry.writer] =>
        \/ file[i].entry.seq < file[j].entry.seq
        \/ file[i].entry.seq = file[j].entry.seq /\ ~StartsLine(i)

\* An entry whose append() returned is in the file, whole, and stays there, also
\* after another append failed with part of its line written.
ReturnedIsLogged ==
    \A e \in returned :
      \E i \in DOMAIN file : file[i].entry = e /\ file[i].ended

\* audit.py:3 says that every event is one JSON object on one line.  An entry whose
\* append() returned shares its line with nothing: it starts one and ends it, so
\* that read_events() can parse the line.
OneEventPerLine ==
    \A e \in returned :
      \E i \in DOMAIN file : file[i].entry = e /\ StartsLine(i) /\ file[i].ended
===============================================================================
