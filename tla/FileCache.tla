----------------------------- MODULE FileCache -----------------------------
(***************************************************************************)
(* One cached answer of the daemon and the requests for it: a picture      *)
(* (plugin_texture.c, plugin_localmap.c over plugin_image.c), written to a *)
(* temporary file and renamed, or the json of a map (plugin_region.c),     *)
(* written in place.  Nothing but a mutex of the image plugin keeps two    *)
(* requests apart, and the temporary file is opened before it is taken.    *)
(*                                                                         *)
(* A file is an inode: who has it open keeps it through a rename.  All     *)
(* requests write the same content, Size blocks of it, each at its place;  *)
(* a block is what one write of a stdio buffer puts there.  The picture's  *)
(* mutex is always there: the macros for libpng 1.6 do not compile         *)
(* (plugin_image.c:32 makes line 84 an empty pair of parentheses).         *)
(***************************************************************************)
EXTENDS Integers, FiniteSets

CONSTANTS
  Requests,
  Size,
  Kinds    \* subset of {"picture", "json"}

ASSUME CacheAssumption ==
  /\ IsFiniteSet(Requests) /\ "none" \notin Requests
  /\ Size \in Nat \ {0} /\ Kinds \subseteq {"picture", "json"} /\ Kinds # {}

\* A request has one file open at most, and two more have a name.
Inodes == 1 .. Cardinality(Requests) + 2
None == 0

VARIABLES
  kind,
  cleanup,        \* [CACHE] cleanup_on_start
  final, tmp,     \* the inode of each of the two names
  blocks,         \* what has been written of an inode
  stale,          \* final was last written longer than CACHE_TIME ago
  mutex,          \* png_mutex
  pc, file, pos,  \* of a request: where it is, the file it has open, how far
  spoiled,        \* history: inodes whose last writer did not finish them
  overlapped,     \* history: two requests have generated at once
  robbed          \* history: those whose files were removed while they generated

config == <<kind, cleanup>>
fileVars == <<final, tmp, blocks, stale>>
historyVars == <<spoiled, overlapped, robbed>>
vars == <<config, fileVars, mutex, pc, file, pos, historyVars>>

Places == {"idle", "generate", "lock", "write", "send", "read"}

TypeOK ==
  /\ kind \in Kinds /\ cleanup \in BOOLEAN
  /\ final \in Inodes \cup {None} /\ tmp \in Inodes \cup {None}
  /\ blocks \in [Inodes -> SUBSET (1 .. Size)]
  /\ stale \in BOOLEAN /\ mutex \in Requests \cup {"none"}
  /\ pc \in [Requests -> Places] /\ file \in [Requests -> Inodes \cup {None}]
  /\ pos \in [Requests -> 0 .. Size]
  /\ spoiled \subseteq Inodes /\ overlapped \in BOOLEAN
  /\ robbed \subseteq Requests

Init ==
  /\ kind \in Kinds /\ cleanup \in BOOLEAN
  /\ final = None /\ tmp = None /\ blocks = [i \in Inodes |-> {}] /\ stale = FALSE
  /\ mutex = "none" /\ pc = [r \in Requests |-> "idle"]
  /\ file = [r \in Requests |-> None] /\ pos = [r \in Requests |-> 0]
  /\ spoiled = {} /\ overlapped = FALSE /\ robbed = {}

Goto(r, place) == pc' = [pc EXCEPT ![r] = place]

Generating(r) == pc[r] \in {"lock", "write"}

\* An inode goes when it has no name and nobody has it open.
Kept == ({final', tmp'} \cup {file'[r] : r \in Requests}) \ {None}
Store(b, s) ==
  /\ blocks' = [i \in Inodes |-> IF i \in Kept THEN b[i] ELSE {}]
  /\ spoiled' = s \cap Kept

(***************************************************************************)
(* A request: look up, generate, answer                                    *)
(***************************************************************************)
Recent == final # None /\ ~stale

Lookup(r) ==
  /\ pc[r] = "idle"
  /\ Goto(r, IF Recent THEN "send" ELSE "generate")
  /\ UNCHANGED <<config, fileVars, mutex, file, pos, historyVars>>

\* No map plugin: the answer is 500.
MapContextFails(r) ==
  /\ pc[r] = "generate" /\ Goto(r, "idle")
  /\ UNCHANGED <<config, fileVars, mutex, file, pos, historyVars>>

\* No image plugin, or the temporary file cannot be opened: whatever has the
\* name is sent.
NotGenerated(r) ==
  /\ kind = "picture" /\ pc[r] = "generate" /\ Goto(r, "send")
  /\ UNCHANGED <<config, fileVars, mutex, file, pos, historyVars>>

Used == {final, tmp} \cup {file[r] : r \in Requests}

\* The file a name stands for when it is opened for writing.
Opened(name) == IF name # None THEN name ELSE CHOOSE i \in Inodes : i \notin Used

\* Mutant: the picture is written in place, too.
OpenInPlace(r) ==
  /\ pc[r] = "generate"
  /\ LET i == Opened(final) IN
       /\ final' = i /\ stale' = FALSE /\ UNCHANGED tmp
       /\ file' = [file EXCEPT ![r] = i]
       /\ Store([blocks EXCEPT ![i] = {}], spoiled \ {i})
  /\ Goto(r, IF kind = "picture" THEN "lock" ELSE "write")
  /\ overlapped' = (overlapped \/ \E q \in Requests : Generating(q))
  /\ UNCHANGED <<config, mutex, pos, robbed>>

\* fopen for writing: an existing file is emptied, whoever is writing it.
OpenFile(r) ==
  /\ pc[r] = "generate"
  /\ LET i == Opened(IF kind = "picture" THEN tmp ELSE final) IN
       /\ IF kind = "picture"
          THEN tmp' = i /\ UNCHANGED <<final, stale>>
          ELSE final' = i /\ stale' = FALSE /\ UNCHANGED tmp
       /\ file' = [file EXCEPT ![r] = i]
       /\ Store([blocks EXCEPT ![i] = {}], spoiled \ {i})
  /\ Goto(r, IF kind = "picture" THEN "lock" ELSE "write")
  /\ overlapped' = (overlapped \/ \E q \in Requests : Generating(q))
  /\ UNCHANGED <<config, mutex, pos, robbed>>

\* PNG_CRITICAL_START: nobody looks whether the mutex has been had.
Lock(r) ==
  /\ pc[r] = "lock" /\ mutex = "none" /\ mutex' = r /\ Goto(r, "write")
  /\ UNCHANGED <<config, fileVars, file, pos, historyVars>>

LockTimesOut(r) ==
  /\ pc[r] = "lock" /\ mutex # "none" /\ Goto(r, "write")
  /\ UNCHANGED <<config, fileVars, mutex, file, pos, historyVars>>

\* No memory for the structures of libpng: the file is closed as it is, and the
\* mutex is kept for ever.
CreateFails(r) ==
  /\ kind = "picture" /\ pc[r] = "write" /\ pos[r] = 0 /\ Goto(r, "send")
  /\ file' = [file EXCEPT ![r] = None]
  /\ UNCHANGED <<final, tmp>>
  /\ Store(blocks, spoiled \cup {file[r]})
  /\ robbed' = robbed \ {r}
  /\ UNCHANGED <<config, stale, mutex, pos, overlapped>>

Write(r) ==
  /\ pc[r] = "write" /\ pos[r] < Size
  /\ pos' = [pos EXCEPT ![r] = @ + 1]
  /\ blocks' = [blocks EXCEPT ![file[r]] = @ \cup {pos'[r]}]
  /\ stale' = (stale /\ file[r] # final)
  /\ UNCHANGED <<config, final, tmp, mutex, pc, file, historyVars>>

\* fclose of the json.
Close(r) ==
  /\ kind = "json" /\ pc[r] = "write" /\ pos[r] = Size /\ Goto(r, "send")
  /\ file' = [file EXCEPT ![r] = None] /\ pos' = [pos EXCEPT ![r] = 0]
  /\ robbed' = robbed \ {r}
  /\ UNCHANGED <<config, fileVars, mutex, spoiled, overlapped>>

\* Mutant: the last block is not written.
FinishShort(r) ==
  /\ kind = "picture" /\ pc[r] = "write" /\ pos[r] = Size - 1 /\ Goto(r, "send")
  /\ file' = [file EXCEPT ![r] = None] /\ pos' = [pos EXCEPT ![r] = 0]
  /\ IF tmp # None
     THEN final' = tmp /\ tmp' = None /\ stale' = FALSE
     ELSE UNCHANGED <<final, tmp, stale>>
  /\ Store(blocks, spoiled)
  /\ mutex' = "none" /\ robbed' = robbed \ {r}
  /\ UNCHANGED <<config, overlapped>>

\* Mutant: a rename that fails leaves no picture.
FinishRemoves(r) ==
  /\ kind = "picture" /\ pc[r] = "write" /\ pos[r] = Size /\ Goto(r, "send")
  /\ file' = [file EXCEPT ![r] = None] /\ pos' = [pos EXCEPT ![r] = 0]
  /\ final' = tmp /\ tmp' = None /\ stale' = FALSE
  /\ Store(blocks, spoiled)
  /\ mutex' = "none" /\ robbed' = robbed \ {r}
  /\ UNCHANGED <<config, overlapped>>

\* fclose, then rename moves whatever has the temporary name, or fails, which is
\* only logged, when another has moved it; the mutex is freed, also by one that
\* has not had it.
Finish(r) ==
  /\ kind = "picture" /\ pc[r] = "write" /\ pos[r] = Size /\ Goto(r, "send")
  /\ file' = [file EXCEPT ![r] = None] /\ pos' = [pos EXCEPT ![r] = 0]
  /\ IF tmp # None
     THEN final' = tmp /\ tmp' = None /\ stale' = FALSE
     ELSE UNCHANGED <<final, tmp, stale>>
  /\ Store(blocks, spoiled)
  /\ mutex' = "none" /\ robbed' = robbed \ {r}
  /\ UNCHANGED <<config, overlapped>>

\* send_file: 404, or the file to its end.
OpenAnswer(r) ==
  /\ pc[r] = "send"
  /\ Goto(r, IF final = None THEN "idle" ELSE "read")
  /\ file' = [file EXCEPT ![r] = final]
  /\ UNCHANGED <<config, fileVars, mutex, pos, historyVars>>

Answered(r) ==
  /\ pc[r] = "read" /\ Goto(r, "idle") /\ file' = [file EXCEPT ![r] = None]
  /\ UNCHANGED <<final, tmp, stale>> /\ Store(blocks, spoiled)
  /\ UNCHANGED <<config, mutex, pos, overlapped, robbed>>

Step(r) ==
  \/ MapContextFails(r) \/ NotGenerated(r) \/ OpenFile(r)
  \/ Lock(r) \/ LockTimesOut(r) \/ CreateFails(r)
  \/ Write(r) \/ Close(r) \/ Finish(r)
  \/ OpenAnswer(r) \/ Answered(r)

(***************************************************************************)
(* Time and restarts                                                       *)
(***************************************************************************)
Expire ==
  /\ final # None /\ ~stale /\ stale' = TRUE
  /\ UNCHANGED <<config, final, tmp, blocks, mutex, pc, file, pos, historyVars>>

\* cachedir_init: both names have one of its patterns in them.
Cleaned ==
  IF cleanup
  THEN final' = None /\ tmp' = None /\ stale' = FALSE
  ELSE UNCHANGED <<final, tmp, stale>>

\* The daemon ends at any moment, with the requests under way, and starts again.
Restart ==
  /\ mutex' = "none" /\ pc' = [r \in Requests |-> "idle"]
  /\ file' = [r \in Requests |-> None] /\ pos' = [r \in Requests |-> 0]
  /\ Cleaned
  /\ Store(blocks, spoiled \cup {file[r] : r \in {q \in Requests : Generating(q)}})
  /\ robbed' = {}
  /\ UNCHANGED <<config, overlapped>>

\* Another start of the daemon, which is refused for its pid file, but has cleaned first.
SecondStart ==
  /\ cleanup /\ Cleaned /\ UNCHANGED file /\ Store(blocks, spoiled)
  /\ robbed' = {r \in Requests : Generating(r)}
  /\ UNCHANGED <<config, mutex, pc, pos, overlapped>>

Next ==
  \/ \E r \in Requests : Lookup(r) \/ Step(r)
  \/ Expire \/ Restart \/ SecondStart

Spec == Init /\ [][Next]_vars
----------------------------------------------------------------------------
(***************************************************************************)
(* Properties                                                              *)
(***************************************************************************)
Whole(i) == blocks[i] = 1 .. Size
Visible == ({final} \cup {file[r] : r \in {q \in Requests : pc[q] = "read"}}) \ {None}

\* However the writers of one file overlap, a file that can be read is whole
\* unless somebody is writing it at this moment: the last that emptied it has
\* written all of it when it is done.  The exceptions are writers that never
\* got to their end: no memory for libpng, or a crash and no cleaning after it.
PartialHasWriter == \A i \in Visible :
  Whole(i) \/ i \in spoiled \/ \E r \in Requests : Generating(r) /\ file[r] = i

\* Two requests for a picture at once are the only way to a torn one: as long as
\* that has not happened, no answer and no file under the name is ever unfinished,
\* whatever fails, whenever the daemon dies, and with no cleaning at the start.
SoloIsWhole == kind = "picture" /\ ~overlapped => \A i \in Visible : Whole(i)

\* One that generates finds something to send at its end, also when another has
\* renamed the temporary file away under it; only a second start of the daemon,
\* refused as it is, can take it away.
SomethingToSend == \A r \in Requests :
  Generating(r) /\ r \notin robbed => tmp # None \/ final # None
============================================================================
