-------------------------- MODULE CgiRequestProofs --------------------------
(***************************************************************************)
(* Proofs about CgiRequest: the invariant CInv and what follows from it.   *)
(***************************************************************************)
EXTENDS CgiRequest, TLAPS

\* The daemon has pipe ends of a request only between MakePipes and Release;
\* a child is copied while both write ends are open.
HostEnds ==
  \A r \in Requests :
    /\ pc[r] \in {"allocate", "init", "lookup", "pipes", "free", "done", "leaked"} =>
         \A e \in fds["host"] : e[1] # r
    /\ pc[r] = "fork" => <<r, "outW">> \in fds["host"]

\* Where the request is says whether there is a child.
ChildPlaces ==
  \A r \in Requests :
    /\ pc[r] \in {"allocate", "init", "lookup", "pipes", "fork", "leaked"} =>
         child[r] = "none"
    /\ pc[r] \in {"create", "stdout", "stderr", "reply", "store", "wait"} =>
         child[r] \in Alive \cup {"dead", "reaped"}
    /\ pc[r] \in {"release", "free", "done"} => child[r] \in {"none", "reaped"}

\* A living child can write, so its pipe has no end yet.
WriterHolds ==
  \A c \in Requests : child[c] \in Alive => <<c, "outW">> \in fds[c]

\* Between the script and the result, bytes are in the pipe.
Flow ==
  \A r \in Requests : r \notin truncated => got[r] + out[r] = wrote[r]

Drained ==
  \A r \in Requests :
    pc[r] \in {"stderr", "reply", "store", "wait"} /\ r \notin truncated =>
      child[r] \in {"dead", "reaped"} /\ out[r] = 0

\* Only the free of an earlier holder parts the length from what was read.
Lengths ==
  \A r \in Requests : r \notin lost => length[r] = got[r]

PipeInv == HostEnds /\ ChildPlaces /\ WriterHolds /\ Flow /\ Drained /\ Lengths

\* Why the cached page may be empty.
Past == {"wait", "release", "free", "done"}
Filling(o) == o \in opened /\ pc[o] \in Reading \cup {"reply", "store"}
Silent(o) == child[o] # "none" /\ got[o] = 0 /\ pc[o] \in Past
Emptied(o) == o \in lost /\ length[o] = 0 /\ pc[o] \in Past
EmptyBecause ==
  file = "empty" => \E o \in Requests : Filling(o) \/ Silent(o) \/ Emptied(o)

CInv == TypeOK /\ SlotsAccounted /\ PipeInv /\ EmptyBecause

\* Replacing one value of a function by one of its range keeps its type.
LEMMA ReplaceOne ==
  ASSUME NEW P, NEW E, NEW f \in [P -> E], NEW p \in P, NEW v \in E
  PROVE  [f EXCEPT ![p] = v] \in [P -> E]
OBVIOUS

\* Every step keeps the types.
LEMMA TypeStep ==
  ASSUME TypeOK, [Next]_vars
  PROVE  TypeOK'
<1> USE CgiAssumption DEF CgiAssumption, TypeOK, poolVars, pipeVars, readVars, fileVars, Ended, Locking, Reading, InHandler, Holding, Places, Alive, Slots, Ends
<1>1. ASSUME NEW r \in Requests, RequestStep(r) PROVE TypeOK'
  <2>1. CASE Allocate(r)
    BY SMTT(40), <2>1 DEF Allocate, Free, At, Goto
  <2>2. CASE AllocateRefused(r)
    BY <2>2 DEF AllocateRefused, Free, At, Goto
  <2>3. CASE InitContext(r)
    BY <2>3 DEF InitContext, At, Goto
  <2>4. CASE InitFails(r)
    BY <2>4 DEF InitFails, At, Goto
  <2>5. CASE Release(r)
    BY <2>5 DEF Release, OpenEnds, At, Goto
  <2>6. CASE FreeContext(r)
    <3>1. length' \in [Requests -> 0 .. MaxResult]
      BY <2>6 DEF FreeContext, FreeData
    <3>2. owner' \in [Slots -> Requests \cup {"none"}] /\ lost' \subseteq Requests
      BY <2>6 DEF FreeContext, FreeData, Robbed
    <3>3. pc' \in [Requests -> Places]
      BY <2>6 DEF FreeContext, Goto
    <3>. QED BY <2>6, <3>1, <3>2, <3>3 DEF FreeContext, FreeData
  <2>7. CASE Serve(r)
    BY <2>7 DEF Serve, At, Goto
  <2>8. CASE Miss(r)
    BY <2>8 DEF Miss, At, Goto
  <2>9. CASE MakePipes(r)
    BY <2>9 DEF MakePipes, At, Goto
  <2>10. CASE PipeFails(r)
    BY SMTT(40), <2>10 DEF PipeFails, At, Goto
  <2>11. CASE Fork(r)
    BY <2>11 DEF Fork, At, Goto
  <2>12. CASE ForkFails(r)
    BY <2>12 DEF ForkFails, At, Goto
  <2>13. CASE Create(r)
    BY <2>13 DEF Create, WriteEnds, At, Goto
  <2>14. CASE ReadOut(r)
    <3>1. PICK n \in 1 .. out[r] :
            /\ got[r] + n <= MaxResult
            /\ got' = [got EXCEPT ![r] = @ + n]
            /\ length' = [length EXCEPT ![r] = got[r] + n]
            /\ out' = [out EXCEPT ![r] = @ - n]
      BY <2>14 DEF ReadOut, Fits
    <3>2. got[r] + n \in 0 .. MaxResult /\ out[r] - n \in 0 .. PipeCap
      BY <3>1
    <3>3. /\ got' \in [Requests -> 0 .. MaxResult]
          /\ length' \in [Requests -> 0 .. MaxResult]
          /\ out' \in [Requests -> 0 .. PipeCap]
      BY <3>1, <3>2
    <3>4. owner' \in [Slots -> Requests \cup {"none"}]
      BY <2>14 DEF ReadOut
    <3>. QED BY <2>14, <3>3, <3>4 DEF ReadOut
  <2>15. CASE ReadTooMuch(r)
    BY SMTT(40), <2>15 DEF ReadTooMuch, CloseOut, Fits, At, Goto
  <2>16. CASE ReadOutEnd(r)
    BY <2>16 DEF ReadOutEnd, CloseOut, AtEnd, Held, At, Goto
  <2>17. CASE ReadErr(r)
    BY SMTT(40), <2>17 DEF ReadErr, At, Goto
  <2>18. CASE ReadErrEnd(r)
    BY <2>18 DEF ReadErrEnd, AtEnd, At, Goto
  <2>19. CASE Respond(r)
    BY <2>19 DEF Respond, At, Goto
  <2>20. CASE RespondNothing(r)
    BY <2>20 DEF RespondNothing, At
  <2>21. CASE Store(r)
    BY <2>21 DEF Store, Kept, At, Goto
  <2>22. CASE Reap(r)
    BY <2>22 DEF Reap, At, Goto
  <2>. QED BY <1>1, <2>1, <2>2, <2>3, <2>4, <2>5, <2>6, <2>7, <2>8, <2>9, <2>10, <2>11, <2>12, <2>13, <2>14, <2>15, <2>16, <2>17, <2>18, <2>19, <2>20, <2>21, <2>22 DEF RequestStep
<1>2. ASSUME NEW c \in Requests, ChildStep(c) PROVE TypeOK'
  <2>1. CASE Exec(c)
    <3>1. toOut' \in [Requests -> Nat] /\ toErr' \in [Requests -> Nat]
      BY <2>1 DEF Exec
    <3>2. /\ child' \in [Requests -> Alive \cup {"none", "dead", "reaped"}]
          /\ fds' \in [Requests \cup {"host"} -> SUBSET Ends]
      BY <2>1 DEF Exec, ReadEnds
    <3>. QED BY <2>1, <3>1, <3>2 DEF Exec
  <2>2. CASE ExecFails(c)
    <3>1. err' \in [Requests -> 0 .. PipeCap]
      <4>1. err' = [err EXCEPT ![c] = 1] /\ 1 \in 0 .. PipeCap
        BY <2>2 DEF ExecFails
      <4>. QED BY <4>1
    <3>2. fds' \in [Requests \cup {"host"} -> SUBSET Ends]
      <4>1. fds' = [fds EXCEPT ![c] = {}] \/ fds' = [fds EXCEPT ![c] = @ \ ReadEnds(c)]
        BY <2>2 DEF ExecFails
      <4>2. fds[c] \subseteq Ends
        OBVIOUS
      <4> HIDE DEF Ends, TypeOK
      <4>3. fds \in [Requests \cup {"host"} -> SUBSET Ends] /\ c \in Requests \cup {"host"}
        BY DEF TypeOK
      <4>4. {} \in SUBSET Ends /\ fds[c] \ ReadEnds(c) \in SUBSET Ends
        BY <4>2
      <4>. QED BY <4>1, <4>3, <4>4, ReplaceOne
    <3>3. child' \in [Requests -> Alive \cup {"none", "dead", "reaped"}]
      <4>1. child' = [child EXCEPT ![c] = "dead"] \/ child' = [child EXCEPT ![c] = "hung"]
        BY <2>2 DEF ExecFails
      <4>. QED BY <4>1
    <3>. QED BY <2>2, <3>1, <3>2, <3>3 DEF ExecFails
  <2>3. CASE WriteOut(c)
    BY SMTT(40), <2>3 DEF WriteOut, Child
  <2>4. CASE WriteErr(c)
    BY SMTT(40), <2>4 DEF WriteErr, Child
  <2>5. CASE Exit(c)
    BY <2>5 DEF Exit, Child
  <2>6. CASE SigChild(c)
    BY <2>6 DEF SigChild, Child
  <2>. QED BY <1>2, <2>1, <2>2, <2>3, <2>4, <2>5, <2>6 DEF ChildStep
<1>3. CASE Expire
  BY <1>3 DEF Expire
<1>4. CASE UNCHANGED vars
  BY <1>4 DEF vars
<1>5. ASSUME NEW r \in Requests, Crash(r) PROVE TypeOK'
  BY <1>5 DEF Crash
<1>6. ASSUME NEW s \in Slots, FreeEarlier(s) PROVE TypeOK'
  BY <1>6 DEF FreeEarlier, FreeData, Robbed
<1>. QED BY <1>1, <1>2, <1>3, <1>4, <1>5, <1>6 DEF Next

\* Every step keeps the account of the contexts.
LEMMA SlotsStep ==
  ASSUME TypeOK, SlotsAccounted, [Next]_vars
  PROVE  SlotsAccounted'
<1> USE DEF TypeOK, SlotsAccounted, poolVars, pipeVars, readVars, fileVars, Reading, InHandler, Holding
<1>1. ASSUME NEW r \in Requests, RequestStep(r) PROVE SlotsAccounted'
  <2>1. CASE Allocate(r)
    BY <2>1 DEF Allocate, Free, At, Goto
  <2>2. CASE AllocateRefused(r)
    BY <2>2 DEF AllocateRefused, Free, At, Goto
  <2>3. CASE InitContext(r)
    BY <2>3 DEF InitContext, At, Goto
  <2>4. CASE InitFails(r)
    BY <2>4 DEF InitFails, At, Goto
  <2>5. CASE Release(r)
    BY <2>5 DEF Release, OpenEnds, At, Goto
  <2>6. CASE FreeContext(r)
    BY <2>6 DEF FreeContext, FreeData, Robbed, At, Goto
  <2>7. CASE Serve(r)
    BY <2>7 DEF Serve, At, Goto
  <2>8. CASE Miss(r)
    BY <2>8 DEF Miss, At, Goto
  <2>9. CASE MakePipes(r)
    BY <2>9 DEF MakePipes, At, Goto
  <2>10. CASE PipeFails(r)
    BY <2>10 DEF PipeFails, At, Goto
  <2>11. CASE Fork(r)
    BY <2>11 DEF Fork, At, Goto
  <2>12. CASE ForkFails(r)
    BY <2>12 DEF ForkFails, At, Goto
  <2>13. CASE Create(r)
    BY <2>13 DEF Create, WriteEnds, At, Goto
  <2>14. CASE ReadOut(r)
    BY <2>14 DEF ReadOut, Fits, At, Goto
  <2>15. CASE ReadTooMuch(r)
    BY <2>15 DEF ReadTooMuch, CloseOut, Fits, At, Goto
  <2>16. CASE ReadOutEnd(r)
    BY <2>16 DEF ReadOutEnd, CloseOut, AtEnd, Held, At, Goto
  <2>17. CASE ReadErr(r)
    BY <2>17 DEF ReadErr, At, Goto
  <2>18. CASE ReadErrEnd(r)
    BY <2>18 DEF ReadErrEnd, AtEnd, At, Goto
  <2>19. CASE Respond(r)
    BY <2>19 DEF Respond, At, Goto
  <2>20. CASE RespondNothing(r)
    BY <2>20 DEF RespondNothing, At
  <2>21. CASE Store(r)
    BY <2>21 DEF Store, Kept, At, Goto
  <2>22. CASE Reap(r)
    BY <2>22 DEF Reap, At, Goto
  <2>. QED BY <1>1, <2>1, <2>2, <2>3, <2>4, <2>5, <2>6, <2>7, <2>8, <2>9, <2>10, <2>11, <2>12, <2>13, <2>14, <2>15, <2>16, <2>17, <2>18, <2>19, <2>20, <2>21, <2>22 DEF RequestStep
<1>2. ASSUME NEW c \in Requests, ChildStep(c) PROVE SlotsAccounted'
  <2>1. CASE Exec(c)
    BY <2>1 DEF Exec, ReadEnds, Child
  <2>2. CASE ExecFails(c)
    BY <2>2 DEF ExecFails, ReadEnds, Child
  <2>3. CASE WriteOut(c)
    BY <2>3 DEF WriteOut, Child
  <2>4. CASE WriteErr(c)
    BY <2>4 DEF WriteErr, Child
  <2>5. CASE Exit(c)
    BY <2>5 DEF Exit, Child
  <2>6. CASE SigChild(c)
    BY <2>6 DEF SigChild, Child
  <2>. QED BY <1>2, <2>1, <2>2, <2>3, <2>4, <2>5, <2>6 DEF ChildStep
<1>3. CASE Expire
  BY <1>3 DEF Expire
<1>4. CASE UNCHANGED vars
  BY <1>4 DEF vars
<1>5. ASSUME NEW r \in Requests, Crash(r) PROVE SlotsAccounted'
  BY <1>5 DEF Crash
<1>6. ASSUME NEW s \in Slots, FreeEarlier(s) PROVE SlotsAccounted'
  BY <1>6 DEF FreeEarlier, FreeData, Robbed
<1>. QED BY <1>1, <1>2, <1>3, <1>4, <1>5, <1>6 DEF Next

\* Every step keeps what ties places, children, pipe ends and bytes together.
LEMMA PipeStep ==
  ASSUME TypeOK, PipeInv, [Next]_vars
  PROVE  PipeInv'
<1> USE CgiAssumption DEF CgiAssumption, TypeOK, PipeInv, HostEnds, ChildPlaces, WriterHolds, Flow, Drained, Lengths, poolVars, pipeVars, readVars, fileVars, Alive, Ends, Reading
<1>1. ASSUME NEW r \in Requests, RequestStep(r) PROVE PipeInv'
  <2>1. CASE Allocate(r)
    BY <2>1 DEF Allocate, Free, At, Goto
  <2>2. CASE AllocateRefused(r)
    BY <2>2 DEF AllocateRefused, Free, At, Goto
  <2>3. CASE InitContext(r)
    BY <2>3 DEF InitContext, At, Goto
  <2>4. CASE InitFails(r)
    BY <2>4 DEF InitFails, At, Goto
  <2>5. CASE Release(r)
    BY <2>5 DEF Release, OpenEnds, At, Goto
  <2>6. CASE FreeContext(r)
    BY <2>6 DEF FreeContext, FreeData, Robbed, At, Goto
  <2>7. CASE Serve(r)
    BY <2>7 DEF Serve, At, Goto
  <2>8. CASE Miss(r)
    BY <2>8 DEF Miss, At, Goto
  <2>9. CASE MakePipes(r)
    BY <2>9 DEF MakePipes, At, Goto
  <2>10. CASE PipeFails(r)
    BY <2>10 DEF PipeFails, At, Goto
  <2>11. CASE Fork(r)
    BY <2>11 DEF Fork, At, Goto
  <2>12. CASE ForkFails(r)
    BY <2>12 DEF ForkFails, At, Goto
  <2>13. CASE Create(r)
    BY SMTT(40), <2>13 DEF Create, WriteEnds, At, Goto
  <2>14. CASE ReadOut(r)
    BY <2>14 DEF ReadOut, Fits, At, Goto
  <2>15. CASE ReadTooMuch(r)
    BY <2>15 DEF ReadTooMuch, CloseOut, Fits, At, Goto
  <2>16. CASE ReadOutEnd(r)
    BY <2>16 DEF ReadOutEnd, CloseOut, AtEnd, Held, At, Goto
  <2>17. CASE ReadErr(r)
    BY <2>17 DEF ReadErr, At, Goto
  <2>18. CASE ReadErrEnd(r)
    BY <2>18 DEF ReadErrEnd, AtEnd, At, Goto
  <2>19. CASE Respond(r)
    BY <2>19 DEF Respond, At, Goto
  <2>20. CASE RespondNothing(r)
    BY <2>20 DEF RespondNothing, At
  <2>21. CASE Store(r)
    BY <2>21 DEF Store, Kept, At, Goto
  <2>22. CASE Reap(r)
    BY <2>22 DEF Reap, At, Goto
  <2>. QED BY <1>1, <2>1, <2>2, <2>3, <2>4, <2>5, <2>6, <2>7, <2>8, <2>9, <2>10, <2>11, <2>12, <2>13, <2>14, <2>15, <2>16, <2>17, <2>18, <2>19, <2>20, <2>21, <2>22 DEF RequestStep
<1>2. ASSUME NEW c \in Requests, ChildStep(c) PROVE PipeInv'
  <2>1. CASE Exec(c)
    BY <2>1 DEF Exec, ReadEnds, Child
  <2>2. CASE ExecFails(c)
    BY SMTT(40), <2>2 DEF ExecFails, ReadEnds, Child
  <2>3. CASE WriteOut(c)
    BY <2>3 DEF WriteOut, Child
  <2>4. CASE WriteErr(c)
    BY <2>4 DEF WriteErr, Child
  <2>5. CASE Exit(c)
    BY SMTT(40), <2>5 DEF Exit, Child
  <2>6. CASE SigChild(c)
    BY <2>6 DEF SigChild, Child
  <2>. QED BY <1>2, <2>1, <2>2, <2>3, <2>4, <2>5, <2>6 DEF ChildStep
<1>3. CASE Expire
  BY <1>3 DEF Expire
<1>4. CASE UNCHANGED vars
  BY <1>4 DEF vars
<1>5. ASSUME NEW r \in Requests, Crash(r) PROVE PipeInv'
  BY <1>5 DEF Crash
<1>6. ASSUME NEW s \in Slots, FreeEarlier(s) PROVE PipeInv'
  BY <1>6 DEF FreeEarlier, FreeData, Robbed
<1>. QED BY <1>1, <1>2, <1>3, <1>4, <1>5, <1>6 DEF Next

\* Every step leaves a reason for an empty page.
LEMMA EmptyStep ==
  ASSUME TypeOK, PipeInv, EmptyBecause, [Next]_vars
  PROVE  EmptyBecause'
<1> USE DEF TypeOK, PipeInv, ChildPlaces, Lengths, EmptyBecause, Past, Filling, Silent, Emptied, poolVars, pipeVars, readVars, fileVars, Alive, Reading
<1>1. ASSUME NEW r \in Requests, RequestStep(r) PROVE EmptyBecause'
  <2>1. CASE Allocate(r)
    BY <2>1 DEF Allocate, Free, At, Goto
  <2>2. CASE AllocateRefused(r)
    BY <2>2 DEF AllocateRefused, Free, At, Goto
  <2>3. CASE InitContext(r)
    BY <2>3 DEF InitContext, At, Goto
  <2>4. CASE InitFails(r)
    BY <2>4 DEF InitFails, At, Goto
  <2>5. CASE Release(r)
    BY <2>5 DEF Release, OpenEnds, At, Goto
  <2>6. CASE FreeContext(r)
    BY <2>6 DEF FreeContext, FreeData, Robbed, At, Goto
  <2>7. CASE Serve(r)
    BY <2>7 DEF Serve, At, Goto
  <2>8. CASE Miss(r)
    BY <2>8 DEF Miss, At, Goto
  <2>9. CASE MakePipes(r)
    BY <2>9 DEF MakePipes, At, Goto
  <2>10. CASE PipeFails(r)
    BY <2>10 DEF PipeFails, At, Goto
  <2>11. CASE Fork(r)
    BY <2>11 DEF Fork, At, Goto
  <2>12. CASE ForkFails(r)
    BY <2>12 DEF ForkFails, At, Goto
  <2>13. CASE Create(r)
    BY <2>13 DEF Create, WriteEnds, At, Goto
  <2>14. CASE ReadOut(r)
    BY <2>14 DEF ReadOut, Fits, At, Goto
  <2>15. CASE ReadTooMuch(r)
    BY <2>15 DEF ReadTooMuch, CloseOut, Fits, At, Goto
  <2>16. CASE ReadOutEnd(r)
    BY <2>16 DEF ReadOutEnd, CloseOut, AtEnd, Held, At, Goto
  <2>17. CASE ReadErr(r)
    BY <2>17 DEF ReadErr, At, Goto
  <2>18. CASE ReadErrEnd(r)
    BY <2>18 DEF ReadErrEnd, AtEnd, At, Goto
  <2>19. CASE Respond(r)
    BY <2>19 DEF Respond, At, Goto
  <2>20. CASE RespondNothing(r)
    BY <2>20 DEF RespondNothing, At
  <2>21. CASE Store(r)
    BY <2>21 DEF Store, Kept, At, Goto
  <2>22. CASE Reap(r)
    BY <2>22 DEF Reap, At, Goto
  <2>. QED BY <1>1, <2>1, <2>2, <2>3, <2>4, <2>5, <2>6, <2>7, <2>8, <2>9, <2>10, <2>11, <2>12, <2>13, <2>14, <2>15, <2>16, <2>17, <2>18, <2>19, <2>20, <2>21, <2>22 DEF RequestStep
<1>2. ASSUME NEW c \in Requests, ChildStep(c) PROVE EmptyBecause'
  <2>1. CASE Exec(c)
    BY <2>1 DEF Exec, ReadEnds, Child
  <2>2. CASE ExecFails(c)
    BY <2>2 DEF ExecFails, ReadEnds, Child
  <2>3. CASE WriteOut(c)
    BY <2>3 DEF WriteOut, Child
  <2>4. CASE WriteErr(c)
    BY <2>4 DEF WriteErr, Child
  <2>5. CASE Exit(c)
    BY <2>5 DEF Exit, Child
  <2>6. CASE SigChild(c)
    BY <2>6 DEF SigChild, Child
  <2>. QED BY <1>2, <2>1, <2>2, <2>3, <2>4, <2>5, <2>6 DEF ChildStep
<1>3. CASE Expire
  BY <1>3 DEF Expire
<1>4. CASE UNCHANGED vars
  BY <1>4 DEF vars
<1>5. ASSUME NEW r \in Requests, Crash(r) PROVE EmptyBecause'
  BY <1>5 DEF Crash
<1>6. ASSUME NEW s \in Slots, FreeEarlier(s) PROVE EmptyBecause'
  BY <1>6 DEF FreeEarlier, FreeData, Robbed
<1>. QED BY <1>1, <1>2, <1>3, <1>4, <1>5, <1>6 DEF Next

(***************************************************************************)
(* The invariant and its consequences.                                     *)
(***************************************************************************)

\* The program starts with every request before its context.
LEMMA CInvInit == Init => CInv
<1> SUFFICES ASSUME Init PROVE CInv
  OBVIOUS
<1> USE CgiAssumption DEF CgiAssumption, Init
<1>1. TypeOK
  <2>1. /\ before \subseteq Slots /\ taken \subseteq Slots /\ leaving \subseteq Slots
        /\ lost \subseteq Requests /\ crashed \in BOOLEAN
        /\ truncated \subseteq Requests /\ opened \subseteq Requests
        /\ file \in {"absent", "empty", "filled"} /\ recent \in BOOLEAN
    BY DEF Slots
  <2>2. /\ pc \in [Requests -> Places]
        /\ owner \in [Slots -> Requests \cup {"none"}]
        /\ fds \in [Requests \cup {"host"} -> SUBSET Ends]
        /\ child \in [Requests -> Alive \cup {"none", "dead", "reaped"}]
    BY DEF Places
  <2>3. /\ slot \in [Requests -> Slots \cup {0}]
        /\ toOut \in [Requests -> Nat] /\ toErr \in [Requests -> Nat]
        /\ out \in [Requests -> 0 .. PipeCap] /\ err \in [Requests -> 0 .. PipeCap]
        /\ wrote \in [Requests -> Nat] /\ got \in [Requests -> 0 .. MaxResult]
        /\ length \in [Requests -> 0 .. MaxResult]
    OBVIOUS
  <2>. QED BY <2>1, <2>2, <2>3 DEF TypeOK
<1>2. SlotsAccounted
  BY DEF SlotsAccounted, Holding, InHandler, Reading
<1>3. PipeInv
  BY DEF PipeInv, HostEnds, ChildPlaces, WriterHolds, Flow, Drained, Lengths, Alive
<1>4. EmptyBecause
  BY DEF EmptyBecause
<1>. QED BY <1>1, <1>2, <1>3, <1>4 DEF CInv

\* CInv is inductive.
LEMMA CInvStep == CInv /\ [Next]_vars => CInv'
BY TypeStep, SlotsStep, PipeStep, EmptyStep DEF CInv

\* CInv holds in every reachable state.
LEMMA CInvAlways == Spec => []CInv
BY CInvInit, CInvStep, PTL DEF Spec

\* Every variable keeps its type: no pipe is overfilled, the result never
\* outgrows its buffer.
THEOREM CgiTypeCorrect == Spec => []TypeOK
<1>1. CInv => TypeOK
  BY DEF CInv
<1>. QED BY <1>1, CInvAlways, PTL

\* The pool's account: a context is taken exactly while its one request has it,
\* or for ever after a failed initialisation.
THEOREM PoolAccounted == Spec => []SlotsAccounted
<1>1. CInv => SlotsAccounted
  BY DEF CInv
<1>. QED BY <1>1, CInvAlways, PTL

\* No path through the handler leaves a pipe end or an unreaped child.
THEOREM HandlerCleansUp == Spec => []NothingLeft
<1>1. CInv => NothingLeft
  BY DEF CInv, PipeInv, HostEnds, ChildPlaces, NothingLeft, Ended
<1>. QED BY <1>1, CInvAlways, PTL

\* Whoever else has inherited the pipe, its end is seen only after the script's
\* last byte.
THEOREM ResultIsWhole == Spec => []AnswerWhole
<1>1. CInv => AnswerWhole
  <2> SUFFICES ASSUME CInv, NEW r \in Requests,
                      pc[r] \in {"stderr", "reply", "store", "wait"}, r \notin truncated
               PROVE  child[r] \in {"dead", "reaped"} /\ got[r] = wrote[r]
    BY DEF AnswerWhole
  <2>1. child[r] \in {"dead", "reaped"} /\ out[r] = 0 /\ got[r] + out[r] = wrote[r]
    BY DEF CInv, PipeInv, Drained, Flow
  <2>2. got[r] \in Nat
    BY CgiAssumption DEF CInv, TypeOK, CgiAssumption
  <2>. QED BY <2>1, <2>2
<1>. QED BY <1>1, CInvAlways, PTL

\* An empty page is served only while another request fills it, after a script
\* without output, or after the result of a request was freed by an earlier
\* holder of its context.
THEOREM EmptyPageHasReason == Spec => EmptyOnlyWhileGenerating
<1> DEFINE Reason(o) ==
      \/ pc[o] \in Reading \cup {"reply", "store"}
      \/ child[o] # "none" /\ got[o] = 0
      \/ o \in lost /\ length[o] = 0
<1>1. CInv /\ [Next]_vars =>
        [\A r \in Requests : Serve(r) /\ file = "empty" =>
           \E o \in Requests \ {r} : Reason(o)]_vars
  <2> SUFFICES ASSUME CInv, NEW r \in Requests, Serve(r), file = "empty"
               PROVE  \E o \in Requests \ {r} : Reason(o)
    OBVIOUS
  <2>1. PICK o \in Requests : Filling(o) \/ Silent(o) \/ Emptied(o)
    BY DEF CInv, EmptyBecause
  <2>2. pc[r] = "lookup"
    BY DEF Serve, At
  <2>3. o # r
    BY <2>1, <2>2 DEF Filling, Silent, Emptied, Past, Reading
  <2>. QED BY <2>1, <2>3 DEF Filling, Silent, Emptied
<1>. QED BY <1>1, CInvAlways, PTL DEF Spec, EmptyOnlyWhileGenerating
=============================================================================
