------------------------- MODULE HandleTableProofs ---------------------------
(***************************************************************************)
(* Theorems about HandleTable, for any number of threads, paths, handles   *)
(* and File objects, any client and a disk that may fill up.               *)
(*                                                                         *)
(* The inductive invariant IInv says, thread by thread, what its place in  *)
(* the code tells about its local variables (CallShape), which locks it    *)
(* holds (FdLockOf, ContentLockOf, ExclusiveAlone), and, about the tables, *)
(* that open Files have descriptors of their own and are reachable through *)
(* a handle (FdInv, TableInv).  A step of thread t leaves the locals of    *)
(* the others alone, so each part is shown for t and carried over for the  *)
(* rest.                                                                   *)
(***************************************************************************)
EXTENDS HandleTable, FiniteSetTheorems, SequenceTheorems, WellFoundedInduction, TLAPS

Opening    == {"o_lock", "o_insert"}
Reading    == {"r_lookup", "r_fdlock", "r_contentlock", "r_read"}
LockingOut == {"w_lookup", "w_fdlock", "w_contentlock", "w_exclusive"}
Writing    == {"w_again", "w_header", "w_readback", "w_out"}
Resizing   == {"t_find", "t_lookup", "t_fd", "t_size", "t_read", "t_cut", "t_again", "t_grow"}
Closing    == {"c_lock", "c_fdlock", "c_close", "c_delete", "c_unlock"}
Leaving    == {"v_list", "v_next", "v_end"}

\* Thread t is closing a File under its fdLock.
HasFdWriter(t) == pc[t] \in {"c_close", "c_delete", "c_unlock"}

\* Thread t announced or holds contentLock.Lock.
HasContentWriter(t) ==
    loc[t].op = "write" /\ pc[t] \notin {"w_lookup", "w_fdlock", "w_contentlock"}

\* Thread t has the contentLock, shared or alone.
HoldsContentShared(t) == loc[t].op = "read" /\ pc[t] \in {"r_read", "io_done"}

HoldsContentExclusive(t) ==
    loc[t].op = "write" /\ pc[t] \notin {"w_lookup", "w_fdlock", "w_contentlock", "w_exclusive"}

\* A write that has the contentLock of a File has it alone (file.go:462-463, 491-492).
ContentLockExcludes ==
    \A t, u \in Threads :
        t # u /\ HoldsContentExclusive(t)
              /\ (HoldsContentExclusive(u) \/ HoldsContentShared(u))
            => loc[t].file # loc[u].file

\* What the place of thread t in the code says about its locals.
CallShape(t) ==
    /\ pc[t] = "idle" => loc[t] = Idle
    /\ pc[t] \in Opening => loc[t].op = "open" /\ loc[t].path \in Paths /\ loc[t].rawFd \in Fds
    /\ pc[t] \in Reading => loc[t].op = "read"
    /\ pc[t] \in LockingOut => loc[t].op = "write"
    /\ pc[t] \in Writing => loc[t].op \in {"write", "truncate"}
    /\ pc[t] \in Resizing => loc[t].op = "truncate"
    /\ pc[t] = "io_done" => loc[t].op \in {"read", "write", "truncate"}
    /\ pc[t] \in Closing => loc[t].op \in {"write", "truncate", "close", "closeVolume"}
    /\ pc[t] \in Leaving => loc[t].op = "closeVolume"
    /\ loc[t].op = "truncate" => loc[t].path \in Paths
    /\ loc[t].op \in {"write", "truncate"} => loc[t].pos <= 2
    /\ loc[t].op = "write" \/ pc[t] \in Writing => loc[t].pos > 0
    /\ loc[t].op = "closeVolume" => loc[t].pos <= NumFiles
    /\ pc[t] \notin Leaving => loc[t].hd < NumFiles
    /\ HoldsFdLock(t) => loc[t].file \in Objs
    /\ \/ HasFdWriter(t)
       \/ pc[t] \in {"r_contentlock", "r_read", "w_readback", "w_out", "t_size", "t_read", "t_cut"}
       => loc[t].via \in Objs
    /\ pc[t] \in {"r_fdlock", "t_fd"} => loc[t].via = loc[t].file

CallsShaped == \A t \in Threads : CallShape(t)

\* Thread t has the fdLocks its place says, and no other.
FdLockOf(t) ==
    \A o \in Objs :
        /\ t \in fdLock[o].readers <=> HoldsFdLock(t) /\ loc[t].file = o
        /\ fdLock[o].writer = t <=> HasFdWriter(t) /\ loc[t].via = o

\* The same for the contentLocks.
ContentLockOf(t) ==
    \A o \in Objs :
        /\ t \in contentLock[o].readers <=> HoldsContentShared(t) /\ loc[t].file = o
        /\ contentLock[o].writer = t <=> HasContentWriter(t) /\ loc[t].file = o

LocksMatch == \A t \in Threads : FdLockOf(t) /\ ContentLockOf(t)

\* contentLock.Lock returned, so the readers are gone.
ExclusiveAlone ==
    \A t \in Threads : HoldsContentExclusive(t) => contentLock[loc[t].file].readers = {}

\* Open Files and open calls have open descriptors, each one its own.
FdInv ==
    /\ \A o \in Objs : IsOpen(o) => FileOf(o) # None
    /\ \A o, p \in Objs : IsOpen(o) /\ objects[o].fd = objects[p].fd => o = p
    /\ \A t \in Threads : pc[t] \in Opening =>
         /\ fdTable[loc[t].rawFd] # None
         /\ \A o \in Objs : objects[o].fd # loc[t].rawFd
         /\ \A u \in Threads : pc[u] \in Opening /\ loc[u].rawFd = loc[t].rawFd => u = t

\* handlesLock is held around every change of the table; a File that is being
\* closed is the one under its handle; no open File or descriptor is lost.
TableInv ==
    /\ \A t \in Threads :
          handlesLock = t <=> pc[t] \in {"o_insert", "c_fdlock", "c_close", "c_delete"}
    /\ \A t \in Threads : pc[t] \in {"c_fdlock", "c_close", "c_delete"} =>
          fileHandles[loc[t].hd] = loc[t].via
    /\ \A t \in Threads : pc[t] = "c_delete" => ~IsOpen(loc[t].via)
    /\ \A o \in Objs : IsOpen(o) => \E h \in Handles : fileHandles[h] = o
    /\ \A d \in Fds : fdTable[d] # None =>
          \/ \E o \in Objs : objects[o].fd = d
          \/ \E t \in Threads : pc[t] \in Opening /\ loc[t].rawFd = d

IInv ==
    /\ TypeOK
    /\ CallsShaped
    /\ LocksMatch
    /\ ExclusiveAlone
    /\ FdInv
    /\ TableInv

-----------------------------------------------------------------------------
(* Helpers                                                                 *)

\* The lowest number of a set is in it.
LEMMA LowestIn == ASSUME NEW S \in SUBSET Nat, S # {} PROVE Lowest(S) \in S
<1>1. PICK x \in S : \A y \in S : ~ (<<y, x>> \in OpToRel(<, Nat))
  BY WFMin, NatLessThanWellFounded, Zenon
<1>2. \A y \in S : ~(y < x)
  BY <1>1, Zenon DEF OpToRel
<1>3. \A y \in S : x <= y
  BY <1>2, SMT
<1> QED BY <1>3, Zenon DEF Lowest

\* The operators that choose the lowest free number choose a free one.
LEMMA LowestFd == FreeFds # {} => Lowest(FreeFds) \in FreeFds
<1>1. FreeFds \in SUBSET Nat
  BY DEF FreeFds, Fds
<1> QED
  BY <1>1, LowestIn

\* The handle registerFileHandle takes is a free one.
LEMMA LowestHandle == FreeHandles # {} => Lowest(FreeHandles) \in FreeHandles
<1>1. FreeHandles \in SUBSET Nat
  BY DEF FreeHandles, Handles
<1> QED
  BY <1>1, LowestIn

\* So is the File it makes.
LEMMA LowestObj == FreeObjs # {} => Lowest(FreeObjs) \in FreeObjs
<1>1. FreeObjs \in SUBSET Nat
  BY DEF FreeObjs, Objs
<1> QED
  BY <1>1, LowestIn

\* There are at most NumFiles handles to count.
LEMMA CountUpTo ==
    ASSUME NEW S \in SUBSET Handles
    PROVE  Cardinality(S) \in Nat /\ Cardinality(S) <= NumFiles
<1>1. NumFiles \in Int /\ 0 \in Int /\ NumFiles - 1 \in Int /\ NumFiles > 0
  BY HandleTableAssumption
<1>2. IsFiniteSet(Handles) /\ Cardinality(Handles) = NumFiles
  BY <1>1, FS_Interval DEF Handles
<1>3. Cardinality(S) <= Cardinality(Handles) /\ IsFiniteSet(S)
  BY <1>2, FS_Subset
<1> QED
  BY <1>2, <1>3, FS_CardinalityType

\* A new backing file is typed.
LEMMA EmptyContent == << >> \in Content
  BY DEF Content

\* Merging, and cutting what is read, yields a content.
LEMMA MergeContent ==
    ASSUME NEW c \in Content, NEW k \in 1..2, NEW v \in Values
    PROVE  Merge(c, k, v) \in Content
  BY HandleTableAssumption DEF Content, Merge

\* So is the beginning of a content, which is what DoRead returns.
LEMMA PartContent ==
    ASSUME NEW c \in Content, NEW n \in 0..2, n <= Len(c)
    PROVE  SubSeq(c, 1, n) \in Content
  BY DEF Content

\* What DoRead keeps of a content, at most the size asked for, is typed.
LEMMA ContentRead ==
    ASSUME NEW c \in Content, NEW n \in Nat
    PROVE  SubSeq(c, 1, IF Len(c) < n THEN Len(c) ELSE n) \in Content
<1>1. c \in Seq(Values) /\ Len(c) <= 2
  BY DEF Content
<1>2. Len(c) \in Nat
  BY <1>1, LenProperties
<1>3. CASE Len(c) < n
  BY <1>1, <1>2, <1>3, PartContent
<1>4. CASE ~(Len(c) < n)
  BY <1>1, <1>2, <1>4, PartContent
<1> QED
  BY <1>3, <1>4

\* Changing fields of a call's locals keeps their type.
LEMMA LocalFields ==
    ASSUME NEW l \in Local
    PROVE  /\ \A f, g \in Objs \cup {None} : [l EXCEPT !.file = f, !.via = g] \in Local
           /\ \A f \in Objs \cup {None} : [l EXCEPT !.via = f] \in Local
           /\ \A d \in Fds \cup {None} : [l EXCEPT !.rawFd = d] \in Local
           /\ \A c \in Content : [l EXCEPT !.buf = c] \in Local
           /\ \A e \in BOOLEAN : [l EXCEPT !.empty = e] \in Local
           /\ \A h \in 0..NumFiles : [l EXCEPT !.hd = h] \in Local
           /\ \A h \in 0..NumFiles, f \in Objs \cup {None} :
                 [l EXCEPT !.hd = h, !.via = f] \in Local
           /\ \A n \in 0..(NumFiles + 2), v \in Values : [l EXCEPT !.pos = n, !.val = v] \in Local
           /\ \A n \in 0..(NumFiles + 2) : [l EXCEPT !.pos = n] \in Local
  BY DEF Local

\* Giving one thread other typed locals keeps all of them typed.
LEMMA LocalUpdate ==
    ASSUME loc \in [Threads -> Local], NEW t \in Threads, NEW l \in Local
    PROVE  [loc EXCEPT ![t] = l] \in [Threads -> Local]
  OBVIOUS

\* The operations on an RWMutex yield an RWMutex.
LEMMA MutexOps ==
    ASSUME NEW l \in RWMutex, NEW t \in Threads
    PROVE  /\ RLock(l, t) \in RWMutex
           /\ RUnlock(l, t) \in RWMutex
           /\ Announce(l, t) \in RWMutex
           /\ Unlock(l) \in RWMutex
  BY DEF RWMutex, RLock, RUnlock, Announce, Unlock

\* Handle 0 and position 0 are typed.
LEMMA Zeros == 0 \in 0..NumFiles /\ 0 \in 0..(NumFiles + 2) /\ Handles \subseteq 0..NumFiles
  BY HandleTableAssumption DEF Handles

\* The locals of an idle thread are typed.
LEMMA IdleTyped == Idle \in Local
  BY Zeros, EmptyContent, HandleTableAssumption DEF Idle, Local

\* The locals a call starts with are typed.
LEMMA OnHandleTyped ==
    ASSUME TypeOK, NEW op \in AllOps, NEW h \in Handles
    PROVE  OnHandle(op, h) \in Local
  BY Zeros, EmptyContent, HandleTableAssumption DEF OnHandle, Idle, Local, TypeOK

\* The locals a gcf_truncate starts with are typed.
LEMMA TruncateTyped ==
    ASSUME NEW p \in Paths, NEW n \in 0..2
    PROVE  [Idle EXCEPT !.op = "truncate", !.path = p, !.pos = n] \in Local
<1>1. n \in 0..(NumFiles + 2)
  BY HandleTableAssumption
<1> QED
  BY <1>1, Zeros, EmptyContent, HandleTableAssumption DEF Idle, Local, AllOps

\* What the lookups find is a File or nil.
LEMMA TablesTyped ==
    ASSUME TypeOK, NEW t \in Threads, CallShape(t)
    PROVE  /\ loc[t] \in Local
           /\ pc[t] \notin Leaving => fileHandles[loc[t].hd] \in Objs \cup {None}
           /\ loc[t].file \in Objs => objects[loc[t].file].fd \in Fds \cup {None}
<1>1. loc[t] \in Local
  BY DEF TypeOK
<1>2. pc[t] \notin Leaving => loc[t].hd \in Handles
  BY <1>1, HandleTableAssumption DEF CallShape, Local, Handles
<1> QED
  BY <1>1, <1>2 DEF TypeOK

\* What doRead returns is a content.
LEMMA PartsRead ==
    ASSUME TypeOK, FdInv, NEW o \in Objs, IsOpen(o), NEW n \in Nat
    PROVE  LET c == disk[FileOf(o)]
           IN  SubSeq(c, 1, IF Len(c) < n THEN Len(c) ELSE n) \in Content
<1> DEFINE c == disk[FileOf(o)]
<1>1. objects[o].fd \in Fds
  BY DEF TypeOK, IsOpen
<1>2. FileOf(o) \in Paths
  BY <1>1 DEF TypeOK, FdInv, FileOf
<1>3. c \in Content
  BY <1>2 DEF TypeOK
<1> QED
  BY <1>3, ContentRead

-----------------------------------------------------------------------------
(* Types                                                                   *)

\* A step keeps the locals typed.
LEMMA LocalTyped ==
    ASSUME NEW t \in Threads, TypeOK, CallShape(t), FdInv, Call(t) \/ Continue(t)
    PROVE  loc' \in [Threads -> Local]
<1> USE DEF TypeOK, vars, threadVars, lockVars, tableVars, osVars, clientVars, Step, Return
<1>1. CASE OpenFile(t)
  <2>1. PICK p \in Paths : OpenFile(t)!(p)
    BY <1>1 DEF OpenFile
  <2>2. Lowest(FreeFds) \in Fds
    BY <2>1, LowestFd DEF FreeFds
  <2>3. [Idle EXCEPT !.op = "open", !.path = p, !.rawFd = Lowest(FreeFds)] \in Local
    <3>1. 0 \in 0..NumFiles /\ 0 \in 0..(NumFiles + 2)
      BY HandleTableAssumption
    <3> QED
      BY <2>2, <3>1, EmptyContent, HandleTableAssumption DEF Idle, Local, AllOps
  <2> QED
    BY <2>1, <2>3 DEF Begin
<1>2. CASE ReadFile(t)
  <2>1. PICK h \in Handles : loc' = [loc EXCEPT ![t] = OnHandle("read", h)]
    BY <1>2 DEF ReadFile, Begin
  <2> QED
    BY <2>1, OnHandleTyped DEF AllOps
<1>3. CASE WriteFile(t)
  <2>1. PICK h \in Handles, k \in Parts, v \in Values \ {Zero} : WriteFile(t)!(h, k, v)
    BY <1>3 DEF WriteFile
  <2>2. [OnHandle("write", h) EXCEPT !.pos = k, !.val = v] \in Local
    <3>1. OnHandle("write", h) \in Local
      BY OnHandleTyped DEF AllOps
    <3>2. k \in 0..(NumFiles + 2)
      BY HandleTableAssumption DEF Parts
    <3> QED
      BY <3>1, <3>2, LocalFields
  <2> QED
    BY <2>1, <2>2 DEF Begin
<1>4. CASE TruncateFile(t)
  <2>1. PICK p \in Paths, n \in 0..2 :
           loc' = [loc EXCEPT ![t] = [Idle EXCEPT !.op = "truncate", !.path = p, !.pos = n]]
    BY <1>4 DEF TruncateFile, Begin
  <2> QED
    BY <2>1, TruncateTyped
<1>5. CASE CloseFile(t)
  <2>1. PICK h \in Handles : loc' = [loc EXCEPT ![t] = OnHandle("close", h)]
    BY <1>5 DEF CloseFile, Begin
  <2> QED
    BY <2>1, OnHandleTyped DEF AllOps
<1>6. CASE CloseVolume(t)
  <2>1. loc' = [loc EXCEPT ![t] = [Idle EXCEPT !.op = "closeVolume"]]
    BY <1>6 DEF CloseVolume, Begin
  <2>2. [Idle EXCEPT !.op = "closeVolume"] \in Local
    BY Zeros, EmptyContent, HandleTableAssumption DEF Idle, Local, AllOps
  <2> QED
    BY <2>1, <2>2
<1>7. CASE RegisterLock(t)
  BY <1>7 DEF RegisterLock
<1>8. CASE RegisterFileHandle(t)
  BY <1>8, IdleTyped DEF RegisterFileHandle
<1>9. CASE LookupFile(t, "r_lookup", "r_fdlock")
  <2>1. loc' = [loc EXCEPT ![t] = [loc[t] EXCEPT !.file = fileHandles[loc[t].hd],
                                                !.via = fileHandles[loc[t].hd]]]
    BY <1>9 DEF LookupFile
  <2>2. fileHandles[loc[t].hd] \in Objs \cup {None}
    BY <1>9, TablesTyped DEF LookupFile, Leaving
  <2> QED
    BY <2>1, <2>2, TablesTyped, LocalFields
<1>10. CASE LockFd(t, "r_fdlock", "r_contentlock")
  BY <1>10 DEF LockFd
<1>11. CASE LockContentShared(t)
  BY <1>11 DEF LockContentShared
<1>12. CASE DoRead(t, "r_read", "io_done", 2)
  <2>1. PICK c \in Content : loc' = [loc EXCEPT ![t] = [loc[t] EXCEPT !.buf = c]]
    <3>1. loc[t].via \in Objs /\ IsOpen(loc[t].via)
      BY <1>12 DEF DoRead, CallShape, HasFdWriter
    <3>2. 2 \in Nat
      BY HandleTableAssumption, TablesTyped DEF Local
    <3> QED
      BY <1>12, <3>1, <3>2, PartsRead DEF DoRead
  <2> QED
    BY <2>1, TablesTyped, LocalFields
<1>13. CASE FinishIO(t)
  BY <1>13, IdleTyped DEF FinishIO
<1>14. CASE LookupFile(t, "w_lookup", "w_fdlock")
  <2>1. loc' = [loc EXCEPT ![t] = [loc[t] EXCEPT !.file = fileHandles[loc[t].hd],
                                                !.via = fileHandles[loc[t].hd]]]
    BY <1>14 DEF LookupFile
  <2>2. fileHandles[loc[t].hd] \in Objs \cup {None}
    BY <1>14, TablesTyped DEF LookupFile, Leaving
  <2> QED
    BY <2>1, <2>2, TablesTyped, LocalFields
<1>15. CASE LockFd(t, "w_fdlock", "w_contentlock")
  BY <1>15 DEF LockFd
<1>16. CASE AnnounceContent(t)
  BY <1>16 DEF AnnounceContent
<1>17. CASE AcquireContent(t)
  BY <1>17 DEF AcquireContent
<1>18. CASE LookupAgain(t, "w_again", "w_header")
  <2>1. loc' = [loc EXCEPT ![t] = [loc[t] EXCEPT !.via = fileHandles[loc[t].hd]]]
    BY <1>18 DEF LookupAgain
  <2>2. fileHandles[loc[t].hd] \in Objs \cup {None}
    BY <1>18, TablesTyped DEF LookupAgain, Leaving
  <2> QED
    BY <2>1, <2>2, TablesTyped, LocalFields
<1>19. CASE GetFileID(t)
  <2>1. PICK e \in BOOLEAN : loc' = [loc EXCEPT ![t] = [loc[t] EXCEPT !.empty = e]]
    BY <1>19 DEF GetFileID
  <2> QED
    BY <2>1, TablesTyped, LocalFields
<1>20. CASE DoRead(t, "w_readback", "w_out", 2)
  <2>1. PICK c \in Content : loc' = [loc EXCEPT ![t] = [loc[t] EXCEPT !.buf = c]]
    <3>1. loc[t].via \in Objs /\ IsOpen(loc[t].via)
      BY <1>20 DEF DoRead, CallShape, HasFdWriter
    <3>2. 2 \in Nat
      BY HandleTableAssumption, TablesTyped DEF Local
    <3> QED
      BY <1>20, <3>1, <3>2, PartsRead DEF DoRead
  <2> QED
    BY <2>1, TablesTyped, LocalFields
<1>21. CASE WriteOut(t)
  BY <1>21 DEF WriteOut
<1>22. CASE WriteNoSpace(t)
  BY <1>22 DEF WriteNoSpace
<1>23. CASE HeaderNoSpace(t)
  BY <1>23 DEF HeaderNoSpace
<1>24. CASE CloseLockHandles(t)
  <2>1. loc' = [loc EXCEPT ![t] = [loc[t] EXCEPT !.via = fileHandles[loc[t].hd]]]
    BY <1>24 DEF CloseLockHandles
  <2>2. fileHandles[loc[t].hd] \in Objs \cup {None}
    BY <1>24, TablesTyped DEF CloseLockHandles, Leaving
  <2> QED
    BY <2>1, <2>2, TablesTyped, LocalFields
<1>25. CASE CloseAnnounceFd(t)
  BY <1>25 DEF CloseAnnounceFd
<1>26. CASE CloseFd(t)
  BY <1>26 DEF CloseFd
<1>27. CASE CloseDelete(t)
  BY <1>27 DEF CloseDelete
<1>28. CASE CloseUnlockFd(t)
  <2>1. CASE Return(t, "c_unlock")
    BY <2>1, IdleTyped
  <2>2. CASE pc[t] = "c_unlock" /\ loc' = [loc EXCEPT ![t].hd = @ + 1, ![t].via = None]
    <3>1. loc' = [loc EXCEPT ![t] = [loc[t] EXCEPT !.hd = loc[t].hd + 1, !.via = None]]
      BY <2>2
    <3>2. loc[t].hd + 1 \in 0..NumFiles
      BY <2>2, TablesTyped, HandleTableAssumption DEF CallShape, Local, Leaving
    <3> QED
      BY <3>1, <3>2, TablesTyped, LocalFields
  <2>3. CASE UNCHANGED loc
    BY <2>3
  <2> QED
    BY <2>1, <2>2, <2>3, <1>28 DEF CloseUnlockFd
<1>29. CASE FindByPath(t)
  <2>1. PICK h \in Handles : loc' = [loc EXCEPT ![t] = [loc[t] EXCEPT !.hd = h]]
    BY <1>29 DEF FindByPath
  <2>2. Handles \subseteq 0..NumFiles
    BY HandleTableAssumption DEF Handles
  <2> QED
    BY <2>1, <2>2, TablesTyped, LocalFields
<1>30. CASE NotFoundByPath(t)
  BY <1>30, IdleTyped DEF NotFoundByPath
<1>31. CASE LookupFile(t, "t_lookup", "t_fd")
  <2>1. loc' = [loc EXCEPT ![t] = [loc[t] EXCEPT !.file = fileHandles[loc[t].hd],
                                                !.via = fileHandles[loc[t].hd]]]
    BY <1>31 DEF LookupFile
  <2>2. fileHandles[loc[t].hd] \in Objs \cup {None}
    BY <1>31, TablesTyped DEF LookupFile, Leaving
  <2> QED
    BY <2>1, <2>2, TablesTyped, LocalFields
<1>32. CASE TakeRawFd(t)
  <2>1. loc' = [loc EXCEPT ![t] = [loc[t] EXCEPT !.rawFd = objects[loc[t].file].fd]]
    BY <1>32 DEF TakeRawFd
  <2>2. objects[loc[t].file].fd \in Fds \cup {None}
    BY <1>32, TablesTyped DEF TakeRawFd, Local
  <2> QED
    BY <2>1, <2>2, TablesTyped, LocalFields
<1>33. CASE CompareSize(t)
  BY <1>33, IdleTyped DEF CompareSize
<1>34. CASE LookupAgain(t, "t_again", "t_grow")
  <2>1. loc' = [loc EXCEPT ![t] = [loc[t] EXCEPT !.via = fileHandles[loc[t].hd]]]
    BY <1>34 DEF LookupAgain
  <2>2. fileHandles[loc[t].hd] \in Objs \cup {None}
    BY <1>34, TablesTyped DEF LookupAgain, Leaving
  <2> QED
    BY <2>1, <2>2, TablesTyped, LocalFields
<1>35. CASE GrowByTruncate(t)
  BY <1>35, IdleTyped DEF GrowByTruncate
<1>36. CASE DoRead(t, "t_read", "t_cut", loc[t].pos)
  <2>1. PICK c \in Content : loc' = [loc EXCEPT ![t] = [loc[t] EXCEPT !.buf = c]]
    <3>1. loc[t].via \in Objs /\ IsOpen(loc[t].via)
      BY <1>36 DEF DoRead, CallShape, HasFdWriter
    <3>2. loc[t].pos \in Nat
      BY HandleTableAssumption, TablesTyped DEF Local
    <3> QED
      BY <1>36, <3>1, <3>2, PartsRead DEF DoRead
  <2> QED
    BY <2>1, TablesTyped, LocalFields
<1>37. CASE CutByRawFd(t)
  <2>1. CASE Return(t, "t_cut")
    BY <2>1, IdleTyped
  <2>2. CASE loc[t].buf # << >> /\ loc' = [loc EXCEPT ![t].pos = 1, ![t].val = loc[t].buf[1]]
    <3>1. loc' = [loc EXCEPT ![t] = [loc[t] EXCEPT !.pos = 1, !.val = loc[t].buf[1]]]
      BY <2>2
    <3>2. loc[t].buf[1] \in Values
      BY <2>2, TablesTyped DEF Local, Content
    <3>3. 1 \in 0..(NumFiles + 2)
      BY HandleTableAssumption
    <3> QED
      BY <3>1, <3>2, <3>3, TablesTyped, LocalFields
  <2> QED
    BY <2>1, <2>2, <1>37 DEF CutByRawFd
<1>38. CASE CutFails(t)
  BY <1>38, IdleTyped DEF CutFails
<1>39. CASE ListHandles(t)
  <2> DEFINE n == Cardinality({h \in Handles : fileHandles[h] # None})
  <2>1. n \in 0..(NumFiles + 2)
    BY CountUpTo, HandleTableAssumption
  <2>2. loc' = [loc EXCEPT ![t] = [loc[t] EXCEPT !.pos = n]]
    BY <1>39 DEF ListHandles
  <2> QED
    BY <2>1, <2>2, TablesTyped, LocalFields
<1>40. CASE CloseNext(t)
  BY <1>40 DEF CloseNext
<1>41. CASE ForgetVolume(t)
  BY <1>41, IdleTyped DEF ForgetVolume
<1>42. CASE UseClosedFile(t)
  BY <1>42 DEF UseClosedFile
<1>43. CASE NilFile(t)
  BY <1>43 DEF NilFile, Crash
<1>44. CASE NoKeys(t)
  BY <1>44 DEF NoKeys, Crash
<1>45. CASE MapRace(t)
  BY <1>45 DEF MapRace, Crash
<1>46. CASE NoBlocks(t)
  BY <1>46 DEF NoBlocks, Crash
<1>47. CASE WipeTwice(t)
  BY <1>47 DEF WipeTwice, Crash
<1> QED
  BY <1>1, <1>2, <1>3, <1>4, <1>5, <1>6, <1>7, <1>8, <1>9, <1>10, <1>11, <1>12, <1>13, <1>14,
       <1>15, <1>16, <1>17, <1>18, <1>19, <1>20, <1>21, <1>22, <1>23, <1>24, <1>25, <1>26,
       <1>27, <1>28, <1>29, <1>30, <1>31, <1>32, <1>33, <1>34, <1>35, <1>36, <1>37, <1>38,
       <1>39, <1>40, <1>41, <1>42, <1>43, <1>44, <1>45, <1>46, <1>47 DEF Call, Continue

\* And then all the other variables.
LEMMA RestTyped ==
    ASSUME NEW t \in Threads, TypeOK, CallShape(t), FdInv, loc' \in [Threads -> Local],
           Call(t) \/ Continue(t)
    PROVE  TypeOK'
<1> USE HandleTableAssumption, EmptyContent, MutexOps DEF TypeOK, Locations, vars, threadVars,
     lockVars, tableVars, osVars, clientVars, Step, Return
<1>1. CASE OpenFile(t)
  <2>1. PICK p \in Paths : OpenFile(t)!(p)
    BY <1>1 DEF OpenFile
  <2>2. fdTable' \in [Fds -> Paths \cup {None}]
    BY <2>1
  <2> QED
    BY <2>1, <2>2 DEF Begin
<1>2. CASE ReadFile(t)
  BY <1>2 DEF ReadFile, Begin, OnHandle
<1>3. CASE WriteFile(t)
  BY <1>3 DEF WriteFile, Begin, OnHandle
<1>4. CASE TruncateFile(t)
  BY <1>4 DEF TruncateFile, Begin
<1>5. CASE CloseFile(t)
  BY <1>5 DEF CloseFile, Begin, OnHandle
<1>6. CASE CloseVolume(t)
  BY <1>6 DEF CloseVolume, Begin
<1>7. CASE RegisterLock(t)
  BY <1>7 DEF RegisterLock
<1>8. CASE RegisterFileHandle(t)
  <2> DEFINE c == Lowest(FreeHandles)
             o == Lowest(FreeObjs)
  <2>1. o \in Objs
    BY <1>8, LowestObj DEF RegisterFileHandle, FreeObjs
  <2>2. loc[t].path \in Paths /\ loc[t].rawFd \in Fds
    BY <1>8 DEF RegisterFileHandle, CallShape, Opening
  <2>3. /\ fileHandles' = [fileHandles EXCEPT ![c] = o]
        /\ objects' = [objects EXCEPT ![o] = [path |-> loc[t].path, fd |-> loc[t].rawFd]]
        /\ issued' = [issued EXCEPT ![c] = loc[t].path]
    BY <1>8 DEF RegisterFileHandle
  <2> HIDE DEF c, o
  <2>4. /\ fileHandles' \in [Handles -> Objs \cup {None}]
        /\ objects' \in [Objs -> [path : Paths \cup {None}, fd : Fds \cup {None}]]
        /\ issued' \in [Handles -> Paths \cup {None}]
    BY <2>1, <2>2, <2>3
  <2> QED
    BY <1>8, <2>4 DEF RegisterFileHandle
<1>9. CASE LookupFile(t, "r_lookup", "r_fdlock")
  BY <1>9 DEF LookupFile
<1>10. CASE LockFd(t, "r_fdlock", "r_contentlock")
  BY <1>10 DEF LockFd
<1>11. CASE LockContentShared(t)
  BY <1>11 DEF LockContentShared
<1>12. CASE DoRead(t, "r_read", "io_done", 2)
  BY <1>12 DEF DoRead
<1>13. CASE FinishIO(t)
  <2>1. CASE loc[t].op = "truncate"
    BY <2>1, <1>13 DEF FinishIO
  <2>2. CASE loc[t].op # "truncate"
    <3> DEFINE f == loc[t].file
    <3>1. f \in Objs
      BY <1>13, <2>2 DEF FinishIO, CallShape, HoldsFdLock
    <3>2. /\ RUnlock(fdLock[f], t) \in RWMutex
          /\ RUnlock(contentLock[f], t) \in RWMutex
          /\ Unlock(contentLock[f]) \in RWMutex
      BY <3>1
    <3>3. /\ fdLock' = [fdLock EXCEPT ![f] = RUnlock(fdLock[f], t)]
          /\ \/ contentLock' = [contentLock EXCEPT ![f] = RUnlock(contentLock[f], t)]
             \/ contentLock' = [contentLock EXCEPT ![f] = Unlock(contentLock[f])]
      BY <1>13, <2>2 DEF FinishIO
    <3> HIDE DEF f
    <3>4. fdLock' \in [Objs -> RWMutex]
      BY <3>2, <3>3
    <3>5. contentLock' \in [Objs -> RWMutex]
      BY <3>2, <3>3
    <3> QED
      BY <1>13, <3>4, <3>5 DEF FinishIO
  <2> QED
    BY <2>1, <2>2
<1>14. CASE LookupFile(t, "w_lookup", "w_fdlock")
  BY <1>14 DEF LookupFile
<1>15. CASE LockFd(t, "w_fdlock", "w_contentlock")
  BY <1>15 DEF LockFd
<1>16. CASE AnnounceContent(t)
  BY <1>16 DEF AnnounceContent
<1>17. CASE AcquireContent(t)
  BY <1>17 DEF AcquireContent
<1>18. CASE LookupAgain(t, "w_again", "w_header")
  BY <1>18 DEF LookupAgain
<1>19. CASE GetFileID(t)
  BY <1>19 DEF GetFileID
<1>20. CASE DoRead(t, "w_readback", "w_out", 2)
  BY <1>20 DEF DoRead
<1>21. CASE WriteOut(t)
  <2>1. loc[t].buf \in Content /\ loc[t].pos \in 1..2 /\ loc[t].val \in Values
    BY <1>21, TablesTyped DEF WriteOut, CallShape, Writing, Local
  <2>2. Merge(loc[t].buf, loc[t].pos, loc[t].val) \in Content
    BY <2>1, MergeContent
  <2> QED
    BY <1>21, <2>2 DEF WriteOut
<1>22. CASE WriteNoSpace(t)
  BY <1>22 DEF WriteNoSpace
<1>23. CASE HeaderNoSpace(t)
  BY <1>23 DEF HeaderNoSpace
<1>24. CASE CloseLockHandles(t)
  BY <1>24 DEF CloseLockHandles
<1>25. CASE CloseAnnounceFd(t)
  BY <1>25 DEF CloseAnnounceFd
<1>26. CASE CloseFd(t)
  BY <1>26 DEF CloseFd
<1>27. CASE CloseDelete(t)
  BY <1>27 DEF CloseDelete
<1>28. CASE CloseUnlockFd(t)
  <2>1. UNCHANGED <<handlesLock, contentLock, tableVars, osVars, clientVars, calls>>
    BY <1>28 DEF CloseUnlockFd
  <2>2. pc' \in [Threads -> Locations]
    BY <1>28 DEF CloseUnlockFd, Locations
  <2>3. fdLock' \in [Objs -> RWMutex]
    BY <1>28 DEF CloseUnlockFd
  <2> QED
    BY <2>1, <2>2, <2>3
<1>29. CASE FindByPath(t)
  BY <1>29 DEF FindByPath
<1>30. CASE NotFoundByPath(t)
  BY <1>30 DEF NotFoundByPath
<1>31. CASE LookupFile(t, "t_lookup", "t_fd")
  BY <1>31 DEF LookupFile
<1>32. CASE TakeRawFd(t)
  BY <1>32 DEF TakeRawFd
<1>33. CASE CompareSize(t)
  BY <1>33 DEF CompareSize
<1>34. CASE LookupAgain(t, "t_again", "t_grow")
  BY <1>34 DEF LookupAgain
<1>35. CASE GrowByTruncate(t)
  <2>1. <<Zero, Zero>> \in Content
    BY DEF Content
  <2> QED
    BY <1>35, <2>1 DEF GrowByTruncate
<1>36. CASE DoRead(t, "t_read", "t_cut", loc[t].pos)
  BY <1>36 DEF DoRead
<1>37. CASE CutByRawFd(t)
  BY <1>37 DEF CutByRawFd
<1>38. CASE CutFails(t)
  BY <1>38 DEF CutFails
<1>39. CASE ListHandles(t)
  BY <1>39 DEF ListHandles
<1>40. CASE CloseNext(t)
  BY <1>40 DEF CloseNext
<1>41. CASE ForgetVolume(t)
  BY <1>41 DEF ForgetVolume
<1>42. CASE UseClosedFile(t)
  BY <1>42 DEF UseClosedFile
<1>43. CASE NilFile(t)
  BY <1>43 DEF NilFile, Crash
<1>44. CASE NoKeys(t)
  BY <1>44 DEF NoKeys, Crash
<1>45. CASE MapRace(t)
  BY <1>45 DEF MapRace, Crash
<1>46. CASE NoBlocks(t)
  BY <1>46 DEF NoBlocks, Crash
<1>47. CASE WipeTwice(t)
  BY <1>47 DEF WipeTwice, Crash
<1> QED
  BY <1>1, <1>2, <1>3, <1>4, <1>5, <1>6, <1>7, <1>8, <1>9, <1>10, <1>11, <1>12, <1>13, <1>14,
       <1>15, <1>16, <1>17, <1>18, <1>19, <1>20, <1>21, <1>22, <1>23, <1>24, <1>25, <1>26,
       <1>27, <1>28, <1>29, <1>30, <1>31, <1>32, <1>33, <1>34, <1>35, <1>36, <1>37, <1>38,
       <1>39, <1>40, <1>41, <1>42, <1>43, <1>44, <1>45, <1>46, <1>47 DEF Call, Continue

\* A step keeps every type.
LEMMA TypeOKStep ==
    ASSUME NEW t \in Threads, TypeOK, CallShape(t), FdInv, Call(t) \/ Continue(t)
    PROVE  TypeOK'
  BY LocalTyped, RestTyped

-----------------------------------------------------------------------------
(* What a step does to its own call, and that it leaves the others alone.  *)

\* Where a thread owns a descriptor or handlesLock.
Owning == {"o_lock", "o_insert", "c_fdlock", "c_close", "c_delete"}

\* The step does not touch the tables.
Quiet(t) ==
    /\ UNCHANGED <<handlesLock, fileHandles, objects, fdTable>>
    /\ \/ pc[t] \notin Owning /\ pc'[t] \notin Owning
       \/ pc'[t] = pc[t] /\ loc'[t] = loc[t]

\* The step leaves the other threads' calls alone.
OthersStay(t) == \A u \in Threads \ {t} : pc'[u] = pc[u] /\ loc'[u] = loc[u]

\* Every step leaves a consistent call behind, and only seven actions touch the
\* tables or what the tables' invariants say of the thread.
LEMMA CallStep ==
    ASSUME NEW t \in Threads, TypeOK, CallShape(t), Call(t) \/ Continue(t)
    PROVE  /\ CallShape(t)'
           /\ OthersStay(t)
           /\ \/ Quiet(t)
              \/ OpenFile(t) \/ RegisterFileHandle(t) \/ CloseFd(t) \/ CloseDelete(t)
              \/ RegisterLock(t) \/ CloseLockHandles(t) \/ CloseAnnounceFd(t)
<1> USE HandleTableAssumption DEF TypeOK, CallShape, OthersStay, Quiet, Owning, Opening,
     Reading, LockingOut, Writing, Resizing, Closing, Leaving, HasFdWriter, HoldsFdLock, Local,
     Handles, Idle, Parts, vars, threadVars, lockVars, tableVars, osVars, clientVars, Step,
     Return
<1>1. CASE OpenFile(t)
  <2>1. PICK p \in Paths : OpenFile(t)!(p)
    BY <1>1 DEF OpenFile
  <2>2. Lowest(FreeFds) \in Fds
    BY <2>1, LowestFd DEF FreeFds
  <2> DEFINE d == Lowest(FreeFds)
             call == [Idle EXCEPT !.op = "open", !.path = p, !.rawFd = d]
  <2>3. pc' = [pc EXCEPT ![t] = "o_lock"] /\ loc' = [loc EXCEPT ![t] = call]
    BY <2>1 DEF Begin
  <2>4. /\ call.op = "open" /\ call.path = p /\ call.rawFd = d /\ call.hd = 0 /\ call.pos = 0
    OBVIOUS
  <2>5. pc'[t] = "o_lock" /\ loc'[t] = call
    BY <2>3
  <2> HIDE DEF d, call
  <2>6. CallShape(t)'
    BY <2>2, <2>4, <2>5 DEF d
  <2>7. OthersStay(t)
    BY <2>3
  <2> QED
    BY <2>6, <2>7, <1>1
<1>2. CASE ReadFile(t)
  BY <1>2 DEF ReadFile, Begin, OnHandle
<1>3. CASE WriteFile(t)
  BY <1>3 DEF WriteFile, Begin, OnHandle
<1>4. CASE TruncateFile(t)
  BY <1>4 DEF TruncateFile, Begin
<1>5. CASE CloseFile(t)
  BY <1>5 DEF CloseFile, Begin, OnHandle
<1>6. CASE CloseVolume(t)
  BY <1>6 DEF CloseVolume, Begin
<1>7. CASE RegisterLock(t)
  BY <1>7 DEF RegisterLock
<1>8. CASE RegisterFileHandle(t)
  BY <1>8 DEF RegisterFileHandle
<1>9. CASE LookupFile(t, "r_lookup", "r_fdlock")
  BY <1>9 DEF LookupFile
<1>10. CASE LockFd(t, "r_fdlock", "r_contentlock")
  BY <1>10 DEF LockFd
<1>11. CASE LockContentShared(t)
  BY <1>11 DEF LockContentShared
<1>12. CASE DoRead(t, "r_read", "io_done", 2)
  BY <1>12 DEF DoRead
<1>13. CASE FinishIO(t)
  <2>1. CASE loc[t].op = "truncate"
    BY <2>1, <1>13 DEF FinishIO
  <2>2. CASE loc[t].op # "truncate"
    BY <2>2, <1>13 DEF FinishIO
  <2> QED
    BY <2>1, <2>2
<1>14. CASE LookupFile(t, "w_lookup", "w_fdlock")
  BY <1>14 DEF LookupFile
<1>15. CASE LockFd(t, "w_fdlock", "w_contentlock")
  BY <1>15 DEF LockFd
<1>16. CASE AnnounceContent(t)
  BY <1>16 DEF AnnounceContent
<1>17. CASE AcquireContent(t)
  BY <1>17 DEF AcquireContent
<1>18. CASE LookupAgain(t, "w_again", "w_header")
  BY <1>18 DEF LookupAgain
<1>19. CASE GetFileID(t)
  BY <1>19 DEF GetFileID
<1>20. CASE DoRead(t, "w_readback", "w_out", 2)
  BY <1>20 DEF DoRead
<1>21. CASE WriteOut(t)
  BY <1>21 DEF WriteOut
<1>22. CASE WriteNoSpace(t)
  BY <1>22 DEF WriteNoSpace
<1>23. CASE HeaderNoSpace(t)
  BY <1>23 DEF HeaderNoSpace
<1>24. CASE CloseLockHandles(t)
  BY <1>24 DEF CloseLockHandles
<1>25. CASE CloseAnnounceFd(t)
  BY <1>25 DEF CloseAnnounceFd
<1>26. CASE CloseFd(t)
  BY <1>26 DEF CloseFd
<1>27. CASE CloseDelete(t)
  BY <1>27 DEF CloseDelete
<1>28. CASE CloseUnlockFd(t)
  <2>1. CASE loc[t].op = "close" /\ Return(t, "c_unlock")
    BY <2>1, <1>28 DEF CloseUnlockFd
  <2>2. CASE loc[t].op = "closeVolume" /\ Step(t, "c_unlock", "v_next")
             /\ loc' = [loc EXCEPT ![t].hd = @ + 1, ![t].via = None]
    BY <2>2, <1>28 DEF CloseUnlockFd
  <2>3. CASE loc[t].op \in {"write", "truncate"} /\ Step(t, "c_unlock", "io_done") /\ UNCHANGED loc
    BY <2>3, <1>28 DEF CloseUnlockFd
  <2> QED
    BY <2>1, <2>2, <2>3, <1>28 DEF CloseUnlockFd
<1>29. CASE FindByPath(t)
  BY <1>29 DEF FindByPath
<1>30. CASE NotFoundByPath(t)
  BY <1>30 DEF NotFoundByPath
<1>31. CASE LookupFile(t, "t_lookup", "t_fd")
  BY <1>31 DEF LookupFile
<1>32. CASE TakeRawFd(t)
  BY <1>32 DEF TakeRawFd
<1>33. CASE CompareSize(t)
  <2> DEFINE old == Len(disk[loc[t].path])
  <2>1. CASE Return(t, "t_size")
    BY <2>1, <1>33 DEF CompareSize
  <2>2. CASE \E l \in {"t_again", "t_read"} : Step(t, "t_size", l) /\ UNCHANGED loc
    BY <2>2, <1>33 DEF CompareSize
  <2>3. CASE loc[t].pos > old /\ Step(t, "t_size", "w_again") /\ UNCHANGED loc
    <3>1. loc[t].path \in Paths
      BY <2>3, <1>33 DEF CompareSize
    <3>2. old \in Nat
      BY <3>1, LenProperties DEF Content
    <3> QED
      BY <2>3, <3>2, <1>33 DEF CompareSize
  <2> QED
    BY <2>1, <2>2, <2>3, <1>33 DEF CompareSize
<1>34. CASE LookupAgain(t, "t_again", "t_grow")
  BY <1>34 DEF LookupAgain
<1>35. CASE GrowByTruncate(t)
  BY <1>35 DEF GrowByTruncate
<1>36. CASE DoRead(t, "t_read", "t_cut", loc[t].pos)
  BY <1>36 DEF DoRead
<1>37. CASE CutByRawFd(t)
  <2>1. CASE Return(t, "t_cut")
    BY <2>1, <1>37 DEF CutByRawFd
  <2>2. CASE Step(t, "t_cut", "w_again")
             /\ loc' = [loc EXCEPT ![t].pos = 1, ![t].val = loc[t].buf[1]]
    BY <2>2, <1>37 DEF CutByRawFd
  <2> QED
    BY <2>1, <2>2, <1>37 DEF CutByRawFd
<1>38. CASE CutFails(t)
  BY <1>38 DEF CutFails
<1>39. CASE ListHandles(t)
  <2>1. Cardinality({h \in Handles : fileHandles[h] # None}) <= NumFiles
    BY CountUpTo
  <2>2. Cardinality({h \in Handles : fileHandles[h] # None}) \in Nat
    BY CountUpTo
  <2> QED
    BY <1>39, <2>1, <2>2 DEF ListHandles
<1>40. CASE CloseNext(t)
  BY <1>40 DEF CloseNext
<1>41. CASE ForgetVolume(t)
  BY <1>41 DEF ForgetVolume
<1>42. CASE UseClosedFile(t)
  BY <1>42 DEF UseClosedFile
<1>43. CASE NilFile(t)
  BY <1>43 DEF NilFile, Crash
<1>44. CASE NoKeys(t)
  BY <1>44 DEF NoKeys, Crash
<1>45. CASE MapRace(t)
  BY <1>45 DEF MapRace, Crash
<1>46. CASE NoBlocks(t)
  BY <1>46 DEF NoBlocks, Crash
<1>47. CASE WipeTwice(t)
  BY <1>47 DEF WipeTwice, Crash
<1> QED
  BY <1>1, <1>2, <1>3, <1>4, <1>5, <1>6, <1>7, <1>8, <1>9, <1>10, <1>11, <1>12, <1>13, <1>14,
       <1>15, <1>16, <1>17, <1>18, <1>19, <1>20, <1>21, <1>22, <1>23, <1>24, <1>25, <1>26,
       <1>27, <1>28, <1>29, <1>30, <1>31, <1>32, <1>33, <1>34, <1>35, <1>36, <1>37, <1>38,
       <1>39, <1>40, <1>41, <1>42, <1>43, <1>44, <1>45, <1>46, <1>47 DEF Call, Continue

-----------------------------------------------------------------------------
(* The tables                                                              *)

\* The invariants of the tables after a step that does not touch them.
LEMMA QuietStep ==
    ASSUME NEW t \in Threads, TypeOK, FdInv, TableInv, Quiet(t), OthersStay(t)
    PROVE  FdInv' /\ TableInv'
<1> USE DEF Quiet, OthersStay, IsOpen, FileOf, Owning, Opening
<1>1. FdInv'
  BY DEF FdInv
<1>2. TableInv'
  <2>1. \A d \in Fds : fdTable'[d] # None =>
          \/ \E o \in Objs : objects'[o].fd = d
          \/ \E u \in Threads : pc'[u] \in Opening /\ loc'[u].rawFd = d
    BY DEF TableInv
  <2>2. \A u \in Threads :
          handlesLock' = u <=> pc'[u] \in {"o_insert", "c_fdlock", "c_close", "c_delete"}
    BY DEF TableInv
  <2> QED
    BY <2>1, <2>2 DEF TableInv
<1> QED
  BY <1>1, <1>2

\* A new descriptor is nobody else's.
LEMMA OpenFileTable ==
    ASSUME NEW t \in Threads, TypeOK, CallsShaped, FdInv, TableInv, OpenFile(t), OthersStay(t)
    PROVE  FdInv' /\ TableInv'
<1> DEFINE d == Lowest(FreeFds)
<1>1. PICK p \in Paths : OpenFile(t)!(p)
  BY DEF OpenFile
<1>2. d \in Fds /\ fdTable[d] = None
  BY <1>1, LowestFd DEF FreeFds
<1>3. /\ fdTable' = [fdTable EXCEPT ![d] = p]
      /\ pc[t] = "idle" /\ pc'[t] = "o_lock" /\ loc'[t].rawFd = d
      /\ UNCHANGED <<handlesLock, fileHandles, objects>>
  BY <1>1 DEF Begin, TypeOK, lockVars, tableVars, Idle
<1>4. p # None /\ d # None /\ \A u \in Threads : pc[u] \in Opening => loc[u].rawFd \in Fds
  BY <1>2, HandleTableAssumption DEF Fds, CallsShaped, CallShape
<1> HIDE DEF d
<1> USE DEF OthersStay, IsOpen, FileOf, Opening
<1>5. \A o \in Objs : objects[o].fd # d
  BY <1>2, <1>4 DEF FdInv
<1>6. \A u \in Threads : pc[u] \in Opening => loc[u].rawFd # d
  BY <1>2 DEF FdInv
<1>7. FdInv'
  <2>1. \A o \in Objs : IsOpen(o)' => FileOf(o)' # None
    BY <1>2, <1>3, <1>5 DEF FdInv, TypeOK
  <2>2. \A o, q \in Objs : IsOpen(o)' /\ objects'[o].fd = objects'[q].fd => o = q
    BY <1>3 DEF FdInv
  <2>3. \A u \in Threads : pc'[u] \in Opening =>
          /\ fdTable'[loc'[u].rawFd] # None
          /\ \A o \in Objs : objects'[o].fd # loc'[u].rawFd
          /\ \A w \in Threads : pc'[w] \in Opening /\ loc'[w].rawFd = loc'[u].rawFd => w = u
    BY <1>2, <1>3, <1>4, <1>5, <1>6 DEF FdInv, TypeOK
  <2> QED
    BY <2>1, <2>2, <2>3 DEF FdInv
<1>8. TableInv'
  <2>1. \A e \in Fds : fdTable'[e] # None =>
          \/ \E o \in Objs : objects'[o].fd = e
          \/ \E u \in Threads : pc'[u] \in Opening /\ loc'[u].rawFd = e
    <3> SUFFICES ASSUME NEW e \in Fds, fdTable'[e] # None
                 PROVE  \/ \E o \in Objs : objects'[o].fd = e
                        \/ \E u \in Threads : pc'[u] \in Opening /\ loc'[u].rawFd = e
      OBVIOUS
    <3>1. CASE e = d
      BY <3>1, <1>3
    <3>2. CASE e # d
      <4>1. fdTable[e] # None
        BY <3>2, <1>3 DEF TypeOK
      <4> QED
        BY <4>1, <1>3 DEF TableInv
    <3> QED
      BY <3>1, <3>2
  <2> QED
    BY <2>1, <1>3 DEF TableInv
<1> QED
  BY <1>7, <1>8

\* The descriptor of an open call passes to a new File.
LEMMA RegisterTable ==
    ASSUME NEW t \in Threads, TypeOK, CallShape(t), FdInv, TableInv,
           RegisterFileHandle(t), OthersStay(t)
    PROVE  FdInv' /\ TableInv'
<1> DEFINE c == Lowest(FreeHandles)
           o == Lowest(FreeObjs)
           d == loc[t].rawFd
<1>1. c \in Handles /\ fileHandles[c] = None
  BY LowestHandle DEF RegisterFileHandle, FreeHandles
<1>2. o \in Objs /\ (\A h \in Handles : fileHandles[h] # o)
        /\ (\A u \in Threads : loc[u].via # o)
  BY LowestObj DEF RegisterFileHandle, FreeObjs
<1>3. /\ fileHandles' = [fileHandles EXCEPT ![c] = o]
      /\ objects' = [objects EXCEPT ![o] = [path |-> loc[t].path, fd |-> d]]
      /\ handlesLock' = None /\ UNCHANGED fdTable
      /\ pc[t] = "o_insert" /\ pc'[t] = "idle"
  BY DEF RegisterFileHandle, Return, Step, osVars, TypeOK
<1>4. d \in Fds /\ fdTable[d] # None
  BY <1>3 DEF CallShape, FdInv, Opening
<1> HIDE DEF c, o, d
<1> USE DEF OthersStay, IsOpen, FileOf, Opening
<1>5. ~IsOpen(o)
  BY <1>2 DEF TableInv
<1>6. objects'[o].fd = d /\ \A p \in Objs \ {o} : objects'[p] = objects[p]
  BY <1>2, <1>3 DEF TypeOK
<1>7. (\A p \in Objs : objects[p].fd # d)
        /\ (\A u \in Threads \ {t} : pc[u] \in Opening => loc[u].rawFd # d)
  BY <1>3 DEF FdInv, d
<1>8. None \notin Fds /\ d # None
  BY <1>4, HandleTableAssumption DEF Fds
<1>9. FdInv'
  <2>1. \A p \in Objs : IsOpen(p)' => FileOf(p)' # None
    BY <1>3, <1>4, <1>6 DEF FdInv
  <2>2. \A p, q \in Objs : IsOpen(p)' /\ objects'[p].fd = objects'[q].fd => p = q
    BY <1>6, <1>7 DEF FdInv
  <2>3. \A u \in Threads : pc'[u] \in Opening =>
          /\ fdTable'[loc'[u].rawFd] # None
          /\ \A p \in Objs : objects'[p].fd # loc'[u].rawFd
          /\ \A w \in Threads : pc'[w] \in Opening /\ loc'[w].rawFd = loc'[u].rawFd => w = u
    BY <1>3, <1>6, <1>7 DEF FdInv
  <2> QED
    BY <2>1, <2>2, <2>3 DEF FdInv
<1>10. TableInv'
  <2>1. \A u \in Threads : handlesLock' = u <=>
                              pc'[u] \in {"o_insert", "c_fdlock", "c_close", "c_delete"}
    BY <1>3, HandleTableAssumption DEF TableInv
  <2>2. \A u \in Threads : pc'[u] \notin {"c_fdlock", "c_close", "c_delete"}
    BY <1>3, <2>1, HandleTableAssumption
  <2>3. \A p \in Objs : IsOpen(p)' => \E h \in Handles : fileHandles'[h] = p
    <3>1. fileHandles'[c] = o /\ \A h \in Handles \ {c} : fileHandles'[h] = fileHandles[h]
      BY <1>1, <1>3 DEF TypeOK
    <3>2. \A p \in Objs \ {o} : IsOpen(p) => \E h \in Handles \ {c} : fileHandles[h] = p
      BY <1>1, HandleTableAssumption DEF TableInv, Objs
    <3> QED
      BY <1>1, <1>6, <3>1, <3>2
  <2>4. \A e \in Fds : fdTable'[e] # None =>
          \/ \E p \in Objs : objects'[p].fd = e
          \/ \E u \in Threads : pc'[u] \in Opening /\ loc'[u].rawFd = e
    <3> SUFFICES ASSUME NEW e \in Fds, fdTable[e] # None, e # d
                 PROVE  \/ \E p \in Objs : objects'[p].fd = e
                        \/ \E u \in Threads : pc'[u] \in Opening /\ loc'[u].rawFd = e
      BY <1>2, <1>3, <1>6
    <3>1. CASE \E p \in Objs : objects[p].fd = e
      BY <3>1, <1>5, <1>6, <1>8
    <3>2. CASE \E u \in Threads : pc[u] \in Opening /\ loc[u].rawFd = e
      BY <3>2 DEF d
    <3> QED
      BY <3>1, <3>2 DEF TableInv
  <2> QED
    BY <2>1, <2>2, <2>3, <2>4 DEF TableInv
<1> QED
  BY <1>9, <1>10

\* Closing a File closes its descriptor and no other.
LEMMA CloseFdTable ==
    ASSUME NEW t \in Threads, TypeOK, CallsShaped, FdInv, TableInv, CloseFd(t), OthersStay(t)
    PROVE  FdInv' /\ TableInv'
<1> DEFINE f == loc[t].via
           d == objects[f].fd
<1>1. f \in Objs /\ pc[t] = "c_close" /\ pc'[t] = "c_delete" /\ loc' = loc
  BY DEF CloseFd, CallsShaped, CallShape, HasFdWriter, Step, TypeOK
<1>2. /\ fdTable' = [e \in Fds |-> IF e = d THEN None ELSE fdTable[e]]
      /\ objects' = [objects EXCEPT ![f].fd = None]
      /\ UNCHANGED <<handlesLock, fileHandles>>
  BY DEF CloseFd, lockVars
<1>3. objects'[f].fd = None /\ \A p \in Objs \ {f} : objects'[p] = objects[p]
  BY <1>1, <1>2 DEF TypeOK
<1>4. \A p \in Objs \ {f} : IsOpen(p) => objects[p].fd # d /\ objects[p].fd \in Fds
  BY <1>1 DEF FdInv, TypeOK, IsOpen
<1>5. \A u \in Threads : pc[u] \in Opening => loc[u].rawFd # d
  BY <1>1 DEF FdInv
<1> HIDE DEF f, d
<1> USE DEF OthersStay, IsOpen, FileOf, Opening
<1>6. FdInv'
  <2>1. \A p \in Objs : IsOpen(p)' => FileOf(p)' # None
    BY <1>2, <1>3, <1>4 DEF FdInv
  <2>2. \A p, q \in Objs : IsOpen(p)' /\ objects'[p].fd = objects'[q].fd => p = q
    BY <1>3 DEF FdInv
  <2>3. \A u \in Threads : pc'[u] \in Opening => fdTable'[loc'[u].rawFd] # None
    BY <1>1, <1>2, <1>5 DEF FdInv, CallsShaped, CallShape
  <2>4. \A u \in Threads : pc'[u] \in Opening => \A p \in Objs : objects'[p].fd # loc'[u].rawFd
    BY <1>1, <1>3, HandleTableAssumption DEF FdInv, CallsShaped, CallShape, Fds
  <2>5. \A u \in Threads : pc'[u] \in Opening =>
          \A w \in Threads : pc'[w] \in Opening /\ loc'[w].rawFd = loc'[u].rawFd => w = u
    BY <1>1 DEF FdInv
  <2> QED
    BY <2>1, <2>2, <2>3, <2>4, <2>5 DEF FdInv
<1>7. TableInv'
  <2>1. handlesLock = t /\ \A u \in Threads \ {t} :
            pc'[u] \notin {"o_insert", "c_fdlock", "c_close", "c_delete"}
    BY <1>1, <1>2 DEF TableInv
  <2>2. fileHandles'[loc'[t].hd] = loc'[t].via /\ ~IsOpen(loc[t].via)'
    BY <1>1, <1>2, <1>3 DEF TableInv, f
  <2>3. \A p \in Objs : IsOpen(p)' => \E h \in Handles : fileHandles'[h] = p
    BY <1>2, <1>3 DEF TableInv
  <2>4. \A e \in Fds : fdTable'[e] # None =>
          \/ \E p \in Objs : objects'[p].fd = e
          \/ \E u \in Threads : pc'[u] \in Opening /\ loc'[u].rawFd = e
    <3> SUFFICES ASSUME NEW e \in Fds, fdTable[e] # None, e # d
                 PROVE  \/ \E p \in Objs : objects'[p].fd = e
                        \/ \E u \in Threads : pc'[u] \in Opening /\ loc'[u].rawFd = e
      BY <1>2
    <3>1. CASE \E p \in Objs : objects[p].fd = e
      BY <3>1, <1>3 DEF d
    <3>2. CASE \E u \in Threads : pc[u] \in Opening /\ loc[u].rawFd = e
      BY <3>2, <1>1
    <3> QED
      BY <3>1, <3>2 DEF TableInv
  <2>5. \A u \in Threads : handlesLock' = u <=>
                              pc'[u] \in {"o_insert", "c_fdlock", "c_close", "c_delete"}
    BY <1>1, <1>2, <2>1
  <2>6. \A u \in Threads : pc'[u] \in {"c_fdlock", "c_close", "c_delete"} =>
                              fileHandles'[loc'[u].hd] = loc'[u].via
    BY <2>1, <2>2
  <2>7. \A u \in Threads : pc'[u] = "c_delete" => objects'[loc'[u].via].fd = None
    BY <2>1, <2>2
  <2> QED
    BY <2>3, <2>4, <2>5, <2>6, <2>7 DEF TableInv
<1> QED
  BY <1>6, <1>7

\* A handle is deleted only after its File was closed.
LEMMA CloseDeleteTable ==
    ASSUME NEW t \in Threads, TypeOK, CallShape(t), FdInv, TableInv, CloseDelete(t), OthersStay(t)
    PROVE  FdInv' /\ TableInv'
<1>1. /\ pc[t] = "c_delete" /\ pc'[t] = "c_unlock" /\ loc' = loc
      /\ fileHandles' = [fileHandles EXCEPT ![loc[t].hd] = None]
      /\ handlesLock' = None /\ UNCHANGED <<objects, fdTable>>
  BY DEF CloseDelete, Step, osVars, TypeOK
<1> USE DEF OthersStay, IsOpen, FileOf, Opening
<1>2. fileHandles[loc[t].hd] = loc[t].via /\ ~IsOpen(loc[t].via)
  BY <1>1 DEF TableInv
<1>3. \A u \in Threads : pc'[u] \notin {"o_insert", "c_fdlock", "c_close", "c_delete"}
  BY <1>1, HandleTableAssumption DEF TableInv
<1>4. \A p \in Objs : IsOpen(p) => \E h \in Handles : fileHandles'[h] = p
  BY <1>1, <1>2 DEF TableInv, TypeOK
<1>5. FdInv'
  BY <1>1 DEF FdInv
<1>6. \A e \in Fds : fdTable'[e] # None =>
          \/ \E p \in Objs : objects'[p].fd = e
          \/ \E u \in Threads : pc'[u] \in Opening /\ loc'[u].rawFd = e
  BY <1>1 DEF TableInv
<1>7. TableInv'
  BY <1>1, <1>3, <1>4, <1>6, HandleTableAssumption DEF TableInv
<1> QED
  BY <1>5, <1>7

\* handlesLock is taken when it is free.
LEMMA LocksHandles ==
    ASSUME NEW t \in Threads, TypeOK, TableInv, OthersStay(t),
           handlesLock = None, handlesLock' = t, UNCHANGED <<fileHandles, objects, fdTable>>,
           \/ pc[t] = "o_lock" /\ pc'[t] = "o_insert" /\ UNCHANGED loc
           \/ pc[t] = "c_lock" /\ pc'[t] = "c_fdlock" /\ loc'[t].via = fileHandles[loc'[t].hd]
    PROVE  TableInv'
<1> USE DEF OthersStay, IsOpen, Opening
<1>1. \A u \in Threads \ {t} : pc'[u] \notin {"o_insert", "c_fdlock", "c_close", "c_delete"}
  BY HandleTableAssumption DEF TableInv
<1>2. \A d \in Fds : fdTable'[d] # None =>
          \/ \E o \in Objs : objects'[o].fd = d
          \/ \E u \in Threads : pc'[u] \in Opening /\ loc'[u].rawFd = d
  BY DEF TableInv
<1>3. \A o \in Objs : IsOpen(o)' => \E h \in Handles : fileHandles'[h] = o
  BY DEF TableInv
<1>4. pc'[t] \in {"o_insert", "c_fdlock"}
  OBVIOUS
<1> QED
  BY <1>1, <1>2, <1>3, <1>4 DEF TableInv

\* The steps that take handlesLock, and the one under it that changes no table.
LEMMA HandlesLockTable ==
    ASSUME NEW t \in Threads, TypeOK, FdInv, TableInv, OthersStay(t),
           RegisterLock(t) \/ CloseLockHandles(t) \/ CloseAnnounceFd(t)
    PROVE  FdInv' /\ TableInv'
<1> USE DEF OthersStay, IsOpen, FileOf, Opening, tableVars, osVars, lockVars, Step, TypeOK
<1>1. CASE RegisterLock(t)
  <2>1. FdInv'
    BY <1>1 DEF RegisterLock, FdInv
  <2>2. /\ handlesLock = None /\ handlesLock' = t /\ pc[t] = "o_lock" /\ pc'[t] = "o_insert"
        /\ UNCHANGED <<loc, fileHandles, objects, fdTable>>
    BY <1>1 DEF RegisterLock
  <2>3. TableInv'
    BY <2>2, LocksHandles
  <2> QED
    BY <2>1, <2>3
<1>2. CASE CloseLockHandles(t)
  <2>1. FdInv'
    BY <1>2 DEF CloseLockHandles, FdInv
  <2>2. /\ handlesLock = None /\ handlesLock' = t /\ pc[t] = "c_lock" /\ pc'[t] = "c_fdlock"
        /\ loc'[t].via = fileHandles[loc'[t].hd] /\ UNCHANGED <<fileHandles, objects, fdTable>>
    BY <1>2 DEF CloseLockHandles, Local
  <2>3. TableInv'
    BY <2>2, LocksHandles
  <2> QED
    BY <2>1, <2>3
<1>3. CASE CloseAnnounceFd(t)
  <2>1. FdInv'
    BY <1>3 DEF CloseAnnounceFd, FdInv
  <2>2. TableInv'
    BY <1>3 DEF CloseAnnounceFd, TableInv
  <2> QED
    BY <2>1, <2>2
<1> QED
  BY <1>1, <1>2, <1>3

-----------------------------------------------------------------------------
(* The locks                                                               *)

\* What a step of thread t does to the locks: what it holds afterwards, what
\* the others keep, and that it takes contentLock only when nobody is in the way.
LockEffects(t) ==
    /\ FdLockOf(t)'
    /\ ContentLockOf(t)'
    /\ \A u \in Threads \ {t}, o \in Objs :
         /\ u \in fdLock'[o].readers <=> u \in fdLock[o].readers
         /\ fdLock'[o].writer = u <=> fdLock[o].writer = u
         /\ u \in contentLock'[o].readers <=> u \in contentLock[o].readers
         /\ contentLock'[o].writer = u <=> contentLock[o].writer = u
    /\ HoldsContentShared(t)' =>
         \/ HoldsContentShared(t) /\ loc'[t].file = loc[t].file
         \/ contentLock[loc'[t].file].writer = None
    /\ HoldsContentExclusive(t)' =>
         \/ HoldsContentExclusive(t) /\ loc'[t].file = loc[t].file
         \/ contentLock[loc'[t].file].readers = {}

\* What each step does to the locks.
LEMMA LockStep ==
    ASSUME NEW t \in Threads, TypeOK, CallShape(t), FdLockOf(t), ContentLockOf(t),
           Call(t) \/ Continue(t)
    PROVE  LockEffects(t)
<1> USE HandleTableAssumption DEF TypeOK, CallShape, LockEffects, FdLockOf, ContentLockOf,
     Opening, Reading, LockingOut, Writing, Resizing, Closing, Leaving, HasFdWriter,
     HasContentWriter, HoldsFdLock, HoldsContentShared, HoldsContentExclusive, Idle, RWMutex,
     NoWriter, NoReaders, RLock, RUnlock, Announce, Unlock, vars, threadVars, lockVars,
     tableVars, osVars, clientVars, Step, Return
<1>1. CASE OpenFile(t)
  BY <1>1 DEF OpenFile, Begin
<1>2. CASE ReadFile(t)
  BY <1>2 DEF ReadFile, Begin, OnHandle
<1>3. CASE WriteFile(t)
  BY <1>3 DEF WriteFile, Begin, OnHandle
<1>4. CASE TruncateFile(t)
  BY <1>4 DEF TruncateFile, Begin
<1>5. CASE CloseFile(t)
  BY <1>5 DEF CloseFile, Begin, OnHandle
<1>6. CASE CloseVolume(t)
  BY <1>6 DEF CloseVolume, Begin
<1>7. CASE RegisterLock(t)
  BY <1>7 DEF RegisterLock
<1>8. CASE RegisterFileHandle(t)
  BY <1>8 DEF RegisterFileHandle
<1>9. CASE LookupFile(t, "r_lookup", "r_fdlock")
  BY <1>9 DEF LookupFile
<1>10. CASE LockFd(t, "r_fdlock", "r_contentlock")
  BY <1>10 DEF LockFd
<1>11. CASE LockContentShared(t)
  BY <1>11 DEF LockContentShared
<1>12. CASE DoRead(t, "r_read", "io_done", 2)
  BY <1>12 DEF DoRead
<1>13. CASE FinishIO(t)
  <2> DEFINE f == loc[t].file
  <2>1. CASE loc[t].op = "truncate"
    BY <2>1, <1>13 DEF FinishIO
  <2>2. CASE loc[t].op = "write"
    <3>1. /\ contentLock' = [contentLock EXCEPT ![f] = Unlock(contentLock[f])]
          /\ fdLock' = [fdLock EXCEPT ![f] = RUnlock(fdLock[f], t)]
          /\ f \in Objs /\ Return(t, "io_done")
      BY <2>2, <1>13 DEF FinishIO
    <3> QED
      BY <2>2, <3>1
  <2>3. CASE loc[t].op = "read"
    <3>1. /\ contentLock' = [contentLock EXCEPT ![f] = RUnlock(contentLock[f], t)]
          /\ fdLock' = [fdLock EXCEPT ![f] = RUnlock(fdLock[f], t)]
          /\ f \in Objs /\ Return(t, "io_done")
      BY <2>3, <1>13 DEF FinishIO
    <3> QED
      BY <2>3, <3>1
  <2> QED
    BY <2>1, <2>2, <2>3, <1>13 DEF FinishIO
<1>14. CASE LookupFile(t, "w_lookup", "w_fdlock")
  BY <1>14 DEF LookupFile
<1>15. CASE LockFd(t, "w_fdlock", "w_contentlock")
  BY <1>15 DEF LockFd
<1>16. CASE AnnounceContent(t)
  BY <1>16 DEF AnnounceContent
<1>17. CASE AcquireContent(t)
  BY <1>17 DEF AcquireContent
<1>18. CASE LookupAgain(t, "w_again", "w_header")
  BY <1>18 DEF LookupAgain
<1>19. CASE GetFileID(t)
  BY <1>19 DEF GetFileID
<1>20. CASE DoRead(t, "w_readback", "w_out", 2)
  BY <1>20 DEF DoRead
<1>21. CASE WriteOut(t)
  BY <1>21 DEF WriteOut
<1>22. CASE WriteNoSpace(t)
  BY <1>22 DEF WriteNoSpace
<1>23. CASE HeaderNoSpace(t)
  BY <1>23 DEF HeaderNoSpace
<1>24. CASE CloseLockHandles(t)
  BY <1>24 DEF CloseLockHandles
<1>25. CASE CloseAnnounceFd(t)
  BY <1>25 DEF CloseAnnounceFd
<1>26. CASE CloseFd(t)
  BY <1>26 DEF CloseFd
<1>27. CASE CloseDelete(t)
  BY <1>27 DEF CloseDelete
<1>28. CASE CloseUnlockFd(t)
  <2>1. CASE loc[t].op = "close" /\ Return(t, "c_unlock")
    BY <2>1, <1>28 DEF CloseUnlockFd
  <2>2. CASE loc[t].op = "closeVolume" /\ Step(t, "c_unlock", "v_next")
             /\ loc' = [loc EXCEPT ![t].hd = @ + 1, ![t].via = None]
    BY <2>2, <1>28 DEF CloseUnlockFd
  <2>3. CASE loc[t].op \in {"write", "truncate"} /\ Step(t, "c_unlock", "io_done") /\ UNCHANGED loc
    BY <2>3, <1>28 DEF CloseUnlockFd
  <2> QED
    BY <2>1, <2>2, <2>3, <1>28 DEF CloseUnlockFd
<1>29. CASE FindByPath(t)
  BY <1>29 DEF FindByPath
<1>30. CASE NotFoundByPath(t)
  BY <1>30 DEF NotFoundByPath
<1>31. CASE LookupFile(t, "t_lookup", "t_fd")
  BY <1>31 DEF LookupFile
<1>32. CASE TakeRawFd(t)
  BY <1>32 DEF TakeRawFd
<1>33. CASE CompareSize(t)
  BY <1>33 DEF CompareSize
<1>34. CASE LookupAgain(t, "t_again", "t_grow")
  BY <1>34 DEF LookupAgain
<1>35. CASE GrowByTruncate(t)
  BY <1>35 DEF GrowByTruncate
<1>36. CASE DoRead(t, "t_read", "t_cut", loc[t].pos)
  BY <1>36 DEF DoRead
<1>37. CASE CutByRawFd(t)
  <2>1. CASE Return(t, "t_cut")
    BY <2>1, <1>37 DEF CutByRawFd
  <2>2. CASE Step(t, "t_cut", "w_again")
             /\ loc' = [loc EXCEPT ![t].pos = 1, ![t].val = loc[t].buf[1]]
    BY <2>2, <1>37 DEF CutByRawFd
  <2> QED
    BY <2>1, <2>2, <1>37 DEF CutByRawFd
<1>38. CASE CutFails(t)
  BY <1>38 DEF CutFails
<1>39. CASE ListHandles(t)
  BY <1>39 DEF ListHandles
<1>40. CASE CloseNext(t)
  BY <1>40 DEF CloseNext
<1>41. CASE ForgetVolume(t)
  BY <1>41 DEF ForgetVolume
<1>42. CASE UseClosedFile(t)
  BY <1>42 DEF UseClosedFile
<1>43. CASE NilFile(t)
  BY <1>43 DEF NilFile, Crash
<1>44. CASE NoKeys(t)
  BY <1>44 DEF NoKeys, Crash
<1>45. CASE MapRace(t)
  BY <1>45 DEF MapRace, Crash
<1>46. CASE NoBlocks(t)
  BY <1>46 DEF NoBlocks, Crash
<1>47. CASE WipeTwice(t)
  BY <1>47 DEF WipeTwice, Crash
<1> QED
  BY <1>1, <1>2, <1>3, <1>4, <1>5, <1>6, <1>7, <1>8, <1>9, <1>10, <1>11, <1>12, <1>13, <1>14,
       <1>15, <1>16, <1>17, <1>18, <1>19, <1>20, <1>21, <1>22, <1>23, <1>24, <1>25, <1>26,
       <1>27, <1>28, <1>29, <1>30, <1>31, <1>32, <1>33, <1>34, <1>35, <1>36, <1>37, <1>38,
       <1>39, <1>40, <1>41, <1>42, <1>43, <1>44, <1>45, <1>46, <1>47 DEF Call, Continue

-----------------------------------------------------------------------------
(* The inductive invariant                                                 *)

\* Every step preserves the invariants of the tables.
LEMMA TableStep ==
    ASSUME NEW t \in Threads, TypeOK, CallsShaped, FdInv, TableInv, Call(t) \/ Continue(t)
    PROVE  FdInv' /\ TableInv'
<1>1. CallShape(t)
  BY DEF CallsShaped
<1>2. /\ OthersStay(t)
      /\ \/ Quiet(t)
         \/ OpenFile(t) \/ RegisterFileHandle(t) \/ CloseFd(t) \/ CloseDelete(t)
         \/ RegisterLock(t) \/ CloseLockHandles(t) \/ CloseAnnounceFd(t)
  BY <1>1, CallStep
<1> QED
  BY <1>1, <1>2, QuietStep, OpenFileTable, RegisterTable, CloseFdTable, CloseDeleteTable,
     HandlesLockTable

\* Every step preserves the invariants of the locks.
LEMMA LocksStep ==
    ASSUME NEW t \in Threads, TypeOK, CallsShaped, LocksMatch, ExclusiveAlone,
           TypeOK', Call(t) \/ Continue(t), OthersStay(t), CallsShaped'
    PROVE  LocksMatch' /\ ExclusiveAlone'
<1>1. CallShape(t) /\ FdLockOf(t) /\ ContentLockOf(t)
  BY DEF CallsShaped, LocksMatch
<1>2. LockEffects(t)
  BY <1>1, LockStep
<1>3. ASSUME NEW u \in Threads \ {t}
      PROVE  FdLockOf(u)' /\ ContentLockOf(u)'
  <2>1. FdLockOf(u) /\ ContentLockOf(u)
    BY DEF LocksMatch
  <2>2. FdLockOf(u)'
    BY <1>2, <2>1 DEF LockEffects, FdLockOf, OthersStay, HoldsFdLock, HasFdWriter
  <2>3. ContentLockOf(u)'
    BY <1>2, <2>1 DEF LockEffects, ContentLockOf, OthersStay, HoldsContentShared, HasContentWriter
  <2> QED
    BY <2>2, <2>3
<1>4. LocksMatch'
  BY <1>2, <1>3 DEF LocksMatch, LockEffects
<1>5. ASSUME NEW u \in Threads, HoldsContentExclusive(u)'
      PROVE  contentLock'[loc'[u].file].readers = {}
  <2> DEFINE o == loc'[u].file
  <2>1. o \in Objs /\ (contentLock[o].writer = u <=> HasContentWriter(u) /\ loc[u].file = o)
    <3>1. CallShape(u)' /\ ContentLockOf(u)
      BY DEF CallsShaped, LocksMatch
    <3>2. HoldsFdLock(u)'
      BY <1>5, <3>1 DEF HoldsContentExclusive, HoldsFdLock, CallShape, Reading
    <3> QED
      BY <3>1, <3>2 DEF CallShape, ContentLockOf
  <2>2. contentLock'[o].readers \subseteq Threads
    BY <2>1 DEF TypeOK, RWMutex
  <2>3. ASSUME NEW x \in Threads, x \in contentLock'[o].readers
        PROVE  FALSE
    <3>1. HoldsContentShared(x)' /\ loc'[x].file = o
      BY <1>4, <2>1, <2>3 DEF LocksMatch, ContentLockOf
    <3>2. CASE u # t
      <4>1. HoldsContentExclusive(u) /\ loc[u].file = o
        BY <1>5, <3>2 DEF OthersStay, HoldsContentExclusive
      <4>2. contentLock[o].readers = {} /\ contentLock[o].writer = u
        BY <4>1, <2>1 DEF ExclusiveAlone, HoldsContentExclusive, HasContentWriter
      <4>3. x = t
        BY <1>2, <2>1, <2>3, <4>2 DEF LockEffects
      <4>4. HoldsContentShared(t) /\ loc[t].file = o
        BY <1>2, <3>1, <4>2, <4>3, HandleTableAssumption DEF LockEffects
      <4> QED
        BY <1>1, <2>1, <4>2, <4>4 DEF ContentLockOf
    <3>3. CASE u = t
      <4>1. x # t
        BY <1>5, <3>1, <3>3 DEF HoldsContentExclusive, HoldsContentShared
      <4>2. x \in contentLock[o].readers
        BY <1>2, <2>1, <2>3, <4>1 DEF LockEffects
      <4>3. contentLock[o].readers = {}
        BY <1>2, <1>5, <3>3 DEF LockEffects, ExclusiveAlone
      <4> QED
        BY <4>2, <4>3
    <3> QED
      BY <3>2, <3>3
  <2> QED
    BY <2>2, <2>3
<1> QED
  BY <1>4, <1>5 DEF ExclusiveAlone

\* The inductive invariant holds at first, is preserved, and so always holds.
LEMMA IInvInit == Init => IInv
<1> SUFFICES ASSUME Init PROVE IInv
  OBVIOUS
<1>1. TypeOK
  <2>1. Unlocked \in RWMutex
    BY DEF RWMutex, Unlocked
  <2>2. /\ pc \in [Threads -> Locations] /\ loc \in [Threads -> Local]
        /\ fdLock \in [Objs -> RWMutex] /\ contentLock \in [Objs -> RWMutex]
        /\ disk \in [Paths -> Content]
    BY <2>1, EmptyContent, IdleTyped DEF Init, Locations
  <2>3. /\ fileHandles \in [Handles -> Objs \cup {None}]
        /\ objects \in [Objs -> [path : Paths \cup {None}, fd : Fds \cup {None}]]
        /\ fdTable \in [Fds -> Paths \cup {None}]
        /\ issued \in [Handles -> Paths \cup {None}]
    BY DEF Init
  <2>4. calls \in 0..MaxCalls /\ handlesLock \in Threads \cup {None}
    BY HandleTableAssumption DEF Init
  <2>5. opened \in BOOLEAN /\ wiped \in BOOLEAN /\ alive \in BOOLEAN
    BY Zenon DEF Init
  <2> QED
    BY <2>2, <2>3, <2>4, <2>5 DEF TypeOK
<1>2. CallsShaped
  BY HandleTableAssumption
     DEF Init, CallsShaped, CallShape, Idle, Opening, Reading, LockingOut, Writing, Resizing,
         Closing, Leaving, HoldsFdLock, HasFdWriter
<1>3. LocksMatch /\ ExclusiveAlone
  BY HandleTableAssumption
     DEF Init, LocksMatch, ExclusiveAlone, FdLockOf, ContentLockOf, Unlocked, Idle,
         HoldsFdLock, HasFdWriter, HoldsContentShared, HasContentWriter, HoldsContentExclusive
<1>4. FdInv /\ TableInv
  BY HandleTableAssumption DEF Init, FdInv, TableInv, IsOpen, Opening
<1> QED
  BY <1>1, <1>2, <1>3, <1>4 DEF IInv

\* A step of the system keeps the inductive invariant.
LEMMA IInvStep ==
    ASSUME IInv, NEW t \in Threads, Call(t) \/ Continue(t)
    PROVE  IInv' /\ OthersStay(t)
<1> USE DEF IInv
<1>1. CallShape(t)
  BY DEF CallsShaped
<1>2. CallShape(t)' /\ OthersStay(t)
  BY <1>1, CallStep
<1>3. CallsShaped'
  BY <1>2 DEF CallsShaped, OthersStay, CallShape, HoldsFdLock, HasFdWriter
<1>4. TypeOK'
  BY <1>1, TypeOKStep
<1>5. LocksMatch' /\ ExclusiveAlone'
  BY <1>2, <1>3, <1>4, LocksStep
<1>6. FdInv' /\ TableInv'
  BY TableStep
<1> QED
  BY <1>2, <1>3, <1>4, <1>5, <1>6

\* So does a step that changes nothing.
LEMMA IInvNext == IInv /\ [Next]_vars => IInv'
<1> SUFFICES ASSUME IInv, [Next]_vars PROVE IInv'
  OBVIOUS
<1>1. CASE Next
  BY <1>1, IInvStep DEF Next
<1>2. CASE UNCHANGED vars
  <2> USE <1>2 DEF vars, threadVars, lockVars, tableVars, osVars, clientVars, IInv
  <2>1. TypeOK'
    BY DEF TypeOK
  <2>2. CallsShaped'
    BY DEF CallsShaped, CallShape, HoldsFdLock, HasFdWriter
  <2>3. LocksMatch'
    BY DEF LocksMatch, FdLockOf, ContentLockOf, HoldsFdLock, HasFdWriter, HoldsContentShared,
           HasContentWriter
  <2>4. ExclusiveAlone'
    BY DEF ExclusiveAlone, HoldsContentExclusive
  <2>5. FdInv'
    BY DEF FdInv, IsOpen, FileOf
  <2>6. TableInv'
    BY DEF TableInv, IsOpen
  <2> QED
    BY <2>1, <2>2, <2>3, <2>4, <2>5, <2>6
<1> QED
  BY <1>1, <1>2

\* The inductive invariant holds of every behaviour.
LEMMA IInvAlways == Spec => []IInv
  BY IInvInit, IInvNext, PTL DEF Spec

-----------------------------------------------------------------------------
(* Theorems                                                                *)

\* Every variable keeps its type: in particular every handle, File and
\* descriptor a call uses is one there is, or nil where the code may meet nil.
THEOREM Types == Spec => []TypeOK
<1>1. IInv => TypeOK
  BY DEF IInv
<1> QED
  BY <1>1, IInvAlways, PTL

\* The locks a thread holds follow from its place, so a write that holds the contentLock is alone.
LEMMA ContentLockAlone == IInv => ContentLockExcludes
<1>1. ASSUME IInv, NEW t \in Threads, NEW u \in Threads, t # u, HoldsContentExclusive(t),
             HoldsContentExclusive(u) \/ HoldsContentShared(u), loc[t].file = loc[u].file
      PROVE  FALSE
  <2> DEFINE o == loc[t].file
  <2>1. o \in Objs
    BY <1>1 DEF IInv, CallsShaped, CallShape, HoldsContentExclusive, HoldsFdLock, Reading
  <2>2. contentLock[o].writer = t /\ contentLock[o].readers = {}
    BY <1>1, <2>1
       DEF IInv, LocksMatch, ContentLockOf, ExclusiveAlone, HoldsContentExclusive, HasContentWriter
  <2>3. CASE HoldsContentExclusive(u)
    BY <1>1, <2>1, <2>2, <2>3
       DEF IInv, LocksMatch, ContentLockOf, HoldsContentExclusive, HasContentWriter
  <2>4. CASE HoldsContentShared(u)
    BY <1>1, <2>1, <2>2, <2>4 DEF IInv, LocksMatch, ContentLockOf
  <2> QED
    BY <1>1, <2>3, <2>4
<1> QED
  BY <1>1 DEF ContentLockExcludes

\* No descriptor is closed while a read or write that took the fdLock of its
\* File is under way (gcf_close_file, file.go:498-511).
THEOREM LockedFilesStayOpen == Spec => LockedFileStaysOpen
<1> DEFINE Stays == \A o \in Objs : IsOpen(o) /\ ~IsOpen(o)' =>
                      \A t \in Threads : HoldsFdLock(t) => loc[t].file # o
<1>1. ASSUME IInv, NEW t \in Threads, Call(t) \/ Continue(t)
      PROVE  Stays
  <2>1. CallShape(t) /\ TypeOK /\ LocksMatch
    BY <1>1 DEF IInv, CallsShaped
  <2>2. \/ CloseFd(t)
        \/ UNCHANGED objects
        \/ RegisterFileHandle(t)
    BY <1>1, <2>1, CallStep
       DEF Quiet, OpenFile, CloseDelete, RegisterLock, CloseLockHandles, CloseAnnounceFd, tableVars
  <2>3. CASE CloseFd(t)
    <3> DEFINE f == loc[t].via
    <3>1. /\ f \in Objs /\ fdLock[f].readers = {}
          /\ objects' = [objects EXCEPT ![f].fd = None]
      BY <2>1, <2>3 DEF CloseFd, Step, NoReaders, CallShape, HasFdWriter
    <3>2. \A o \in Objs \ {f} : objects'[o] = objects[o]
      BY <2>1, <3>1 DEF TypeOK
    <3>3. \A u \in Threads : HoldsFdLock(u) => loc[u].file # f
      BY <2>1, <3>1 DEF LocksMatch, FdLockOf
    <3> QED
      BY <3>2, <3>3 DEF IsOpen
  <2>4. CASE UNCHANGED objects
    BY <2>4 DEF IsOpen
  <2>5. CASE RegisterFileHandle(t)
    <3> DEFINE o == Lowest(FreeObjs)
    <3>1. /\ o \in Objs /\ loc[t].rawFd \in Fds
          /\ objects' = [objects EXCEPT ![o] = [path |-> loc[t].path, fd |-> loc[t].rawFd]]
      BY <2>1, <2>5, LowestObj
         DEF RegisterFileHandle, FreeObjs, Return, Step, CallShape, Opening
    <3> HIDE DEF o
    <3>2. objects'[o].fd # None /\ \A p \in Objs \ {o} : objects'[p] = objects[p]
      BY <2>1, <3>1, HandleTableAssumption DEF TypeOK, Fds
    <3> QED
      BY <3>2 DEF IsOpen
  <2> QED
    BY <2>2, <2>3, <2>4, <2>5
<1>2. IInv /\ [Next]_vars => [Stays]_vars
  BY <1>1 DEF Next
<1> QED
  BY <1>2, IInvAlways, PTL DEF Spec, LockedFileStaysOpen

\* A descriptor number that is open belongs to one File of the table or to one
\* gcf_open call, and a closed one to nobody (registerFileHandle, gcf_close_file).
THEOREM OneOwner == Spec => []FdsHaveOneOwner
<1>1. ASSUME IInv, NEW d \in Fds
      PROVE  LET files   == {o \in Objs : objects[o].fd = d}
                 calling == {t \in Threads : pc[t] \in {"o_lock", "o_insert"} /\ loc[t].rawFd = d}
             IN  /\ Cardinality(files) + Cardinality(calling) = (IF fdTable[d] = None THEN 0 ELSE 1)
                 /\ \A o \in files : \E h \in Handles : fileHandles[h] = o
  <2> DEFINE files   == {o \in Objs : objects[o].fd = d}
             calling == {t \in Threads : pc[t] \in {"o_lock", "o_insert"} /\ loc[t].rawFd = d}
  <2> USE <1>1 DEF IInv, FdInv, TableInv, IsOpen, FileOf, Opening
  <2>1. d # None
    BY HandleTableAssumption DEF Fds
  <2>2. \A o \in files : fdTable[d] # None /\ (\E h \in Handles : fileHandles[h] = o)
    BY <2>1
  <2>3. \A o, p \in files : o = p
    BY <2>1
  <2>4. \A t \in calling : fdTable[d] # None /\ files = {}
    OBVIOUS
  <2>5. \A t, u \in calling : t = u
    OBVIOUS
  <2>6. fdTable[d] # None => files # {} \/ calling # {}
    BY DEF TableInv
  <2> HIDE DEF files, calling
  <2>7. CASE fdTable[d] = None
    <3>1. files = {} /\ calling = {}
      BY <2>2, <2>4, <2>7
    <3>2. Cardinality(files) = 0 /\ Cardinality(calling) = 0
      BY <3>1, FS_EmptySet
    <3> QED
      BY <2>2, <2>7, <3>2 DEF files, calling
  <2>8. CASE fdTable[d] # None /\ files # {}
    <3>1. PICK o \in files : TRUE
      BY <2>8
    <3>2. files = {o}
      BY <2>3, <3>1
    <3>3. calling = {}
      BY <2>4, <2>8
    <3>4. Cardinality(files) = 1 /\ Cardinality(calling) = 0
      BY <3>2, <3>3, FS_Singleton, FS_EmptySet
    <3> QED
      BY <2>2, <2>8, <3>4 DEF files, calling
  <2>9. CASE fdTable[d] # None /\ files = {}
    <3>1. PICK t \in calling : TRUE
      BY <2>6, <2>9
    <3>2. calling = {t}
      BY <2>5, <3>1
    <3>3. Cardinality(files) = 0 /\ Cardinality(calling) = 1
      BY <2>9, <3>2, FS_Singleton, FS_EmptySet
    <3> QED
      BY <2>2, <2>9, <3>3 DEF files, calling
  <2> QED
    BY <2>7, <2>8, <2>9
<1>2. IInv => FdsHaveOneOwner
  BY <1>1 DEF FdsHaveOneOwner
<1> QED
  BY <1>2, IInvAlways, PTL
=============================================================================
