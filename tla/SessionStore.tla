---------------------------- MODULE SessionStore ----------------------------
(***************************************************************************)
(* src/sessions/SessionStore.cpp over a file system: a directory per       *)
(* session with session.json in it, written through session.json.tmp and   *)
(* rename. A file is Missing, Torn (what is in it does not parse) or the   *)
(* conversation it holds; of the times of modification only their order is *)
(* kept.                                                                   *)
(*                                                                         *)
(* save is two steps, and the process may die between them: the temporary  *)
(* file is emptied, and it is written, closed and renamed. Nothing reads   *)
(* the temporary file, so what is in it is left out. Its name depends on   *)
(* the session alone: two threads that save one session write into one     *)
(* inode, and "on" says which name the inode a thread has open goes by.    *)
(* Writes do not fail here.                                                *)
(***************************************************************************)
EXTENDS Naturals, Sequences

CONSTANTS
  Ids,          \* session ids
  Threads,      \* those who save
  Missing, Torn

VARIABLES
  files,        \* session.json of each session
  tmp,          \* the sessions that have a session.json.tmp
  newer,        \* the times of modification: pairs of a later and an earlier one
  saver,        \* each thread's call of save
  shared        \* history: sessions two threads were saving at one time

storeVars == <<files, tmp, newer, saver, shared>>

NotSaving == [id |-> Missing, data |-> <<>>, on |-> "none"]

\* The constructor makes the root; nothing else is there.
StoreInit ==
  /\ files = [s \in Ids |-> Missing]
  /\ tmp = {}
  /\ newer = {}
  /\ saver = [t \in Threads |-> NotSaving]
  /\ shared = {}

\* load: a session whose file parses. listSessions lists those and no other.
Readable(s) == files[s] \notin {Missing, Torn}

\* latestId: the newest that listSessions finds readable, if there is one.
Latest == {s \in Ids : Readable(s) /\ \A x \in Ids \ {s} : Readable(x) => <<s, x>> \in newer}

\* A file is written: it is newer than any other.
Touched(s) == {p \in newer : p[1] # s /\ p[2] # s} \union {<<s, x>> : x \in Ids \ {s}}

Saving(t) == saver[t].id # Missing
Others(t, s) == {u \in Threads \ {t} : saver[u].id = s}

\* Mutant: the file is written in place.
SaveInPlace(t, s, conversation) ==
  /\ saver' = [saver EXCEPT ![t] = [id |-> s, data |-> conversation, on |-> "file"]]
  /\ files' = [files EXCEPT ![s] = Torn]
  /\ newer' = Touched(s)
  /\ shared' = IF Others(t, s) = {} THEN shared ELSE shared \union {s}
  /\ UNCHANGED tmp

\* save, up to the ofstream that creates or empties the temporary file.
BeginSave(t, s, conversation) ==
  /\ saver' = [saver EXCEPT ![t] = [id |-> s, data |-> conversation, on |-> "tmp"]]
  /\ tmp' = tmp \union {s}
  /\ shared' = IF Others(t, s) = {} THEN shared ELSE shared \union {s}
  /\ UNCHANGED <<files, newer>>

\* What is in the inode once a thread has written: what it wrote, unless another thread may
\* have emptied it or left bytes behind it.
Written(t) ==
  {saver[t].data} \union
    (IF saver[t].on = "file" \/ \E u \in Others(t, saver[t].id) : saver[u].on = "tmp"
     THEN {Torn} ELSE {})

\* The rest of save. rename takes the temporary file whoever made it, and a thread that has
\* its inode open goes on in session.json; without one it fails, and nothing is to remove.
EndSave(t) ==
  /\ Saving(t)
  /\ LET s == saver[t].id IN
     /\ \E c \in Written(t) :
          CASE saver[t].on = "tmp" -> /\ files' = [files EXCEPT ![s] = c]
                                      /\ newer' = Touched(s)
                                      /\ tmp' = tmp \ {s}
            [] saver[t].on = "file" -> /\ files' = [files EXCEPT ![s] = IF s \in tmp THEN Torn ELSE c]
                                       /\ newer' = Touched(s)
                                       /\ tmp' = tmp \ {s}
            [] OTHER -> /\ files' = [files EXCEPT ![s] = IF s \in tmp THEN Torn ELSE @]
                        /\ newer' = IF s \in tmp THEN Touched(s) ELSE newer
                        /\ tmp' = tmp \ {s}
     /\ saver' = [u \in Threads |->
                    IF u = t THEN NotSaving
                    ELSE IF u \in Others(t, s) /\ saver[u].on = "tmp" THEN [saver[u] EXCEPT !.on = "file"]
                    ELSE saver[u]]
  /\ UNCHANGED shared

\* remove: the directory with all in it; a file that is not there has no time.
Removed(s) ==
  /\ files' = [files EXCEPT ![s] = Missing]
  /\ tmp' = tmp \ {s}
  /\ newer' = {p \in newer : p[1] # s /\ p[2] # s}
  /\ saver' = [t \in Threads |-> IF saver[t].id = s THEN [saver[t] EXCEPT !.on = "gone"] ELSE saver[t]]
  /\ UNCHANGED shared

\* The process dies: what is on disk stays as it is.
StoreDies ==
  /\ saver' = [t \in Threads |-> NotSaving]
  /\ UNCHANGED <<files, tmp, newer, shared>>

=============================================================================
