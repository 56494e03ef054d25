--------------------------- MODULE DisciplineProofs ---------------------------
(***************************************************************************)
(* Theorems about HandleTable for a client that is disciplined and a disk  *)
(* that does not fill: its handles stay valid, no call panics, and the     *)
(* library is a store of files whose reads, writes and resizes are atomic. *)
(*                                                                         *)
(* IInv of HandleTableProofs says which locks a thread holds and which     *)
(* descriptors are whose, for any client.  DInv adds what the discipline   *)
(* keeps true while calls are under way: which calls go together (Serial), *)
(* what handles and Files mean to the client (IssuedInv), what a call      *)
(* knows of the File it works on (HandleUse, CloseUse) and of its content  *)
(* (DataUse), and when the keys are gone (KeysInv).                        *)
(***************************************************************************)
EXTENDS HandleTableProofs

\* The client keeps to the rules of Conflicts, and no write finds the disk full.
Careful == Disciplined = TRUE /\ DiskMayFill = FALSE

-----------------------------------------------------------------------------
(* The inductive invariant                                                 *)

\* Thread t works with the handle it was given, or has found by the path.
OnIssued(t) ==
    \/ loc[t].op \in {"read", "write"}
    \/ loc[t].op = "truncate" /\ pc[t] # "t_find"

LooksUp(t) == pc[t] \in {"r_lookup", "w_lookup", "t_lookup"}

\* Thread t closes the file of a handle that the client has given up.
ClosesHandle(t) ==
    loc[t].op = "close" /\ pc[t] \in {"c_lock", "c_fdlock", "c_close", "c_delete"}

\* The calls in progress do not conflict.
Serial ==
    /\ \A t, u \in Threads : t # u /\ loc[t].op = "closeVolume" => loc[u].op = "none"
    /\ \A t, u \in Threads :
          t # u /\ loc[t].op \in {"open", "truncate", "close"} => loc[u].path # loc[t].path
    /\ \A t, u \in Threads : loc[t].op = "truncate" => loc[u].op \notin {"open", "close"}

\* One handle for a path, one File for a handle, and a handle that is not issued is being closed,
\* by one thread.
IssuedInv ==
    /\ \A g, h \in Handles : issued[g] # None /\ issued[g] = issued[h] => g = h
    /\ \A g, h \in Handles : fileHandles[g] # None /\ fileHandles[g] = fileHandles[h] => g = h
    /\ HandlesStayValid
    /\ \A h \in Handles : fileHandles[h] # None =>
          issued[h] # None \/ \E t \in Threads : ClosesHandle(t) /\ loc[t].hd = h
    /\ \A t, u \in Threads : ClosesHandle(t) /\ ClosesHandle(u) /\ loc[t].hd = loc[u].hd => t = u

\* What the calls know of the handles they are about, and of the File behind.
HandleUse(t) ==
    /\ loc[t].op \in {"open", "close"} =>
          loc[t].path \in Paths /\ \A h \in Handles : issued[h] # loc[t].path
    /\ pc[t] \in Opening => fdTable[loc[t].rawFd] = loc[t].path
    /\ OnIssued(t) => loc[t].path \in Paths /\ issued[loc[t].hd] = loc[t].path
    /\ OnIssued(t) /\ ~LooksUp(t) =>
          loc[t].file = fileHandles[loc[t].hd] /\ loc[t].via = fileHandles[loc[t].hd]
    /\ pc[t] \in {"t_size", "t_read", "t_cut"} => loc[t].rawFd = objects[loc[t].via].fd

CloseUse(t) ==
    /\ pc[t] \in Closing => loc[t].op = "close"
    /\ ClosesHandle(t) => issued[loc[t].hd] = None /\ fileHandles[loc[t].hd] # None
    /\ loc[t].op = "closeVolume" =>
          /\ pc[t] \in Leaving /\ wiped
          /\ \A h \in Handles : issued[h] = None /\ fileHandles[h] = None
          /\ pc[t] = "v_next" => loc[t].pos = 0

\* The keys are there until gcf_close has the library to itself.
KeysInv ==
    /\ wiped => \A t \in Threads : loc[t].op \in {"none", "closeVolume"}
    /\ wiped /\ opened => \E t \in Threads : loc[t].op = "closeVolume"
    /\ ~opened => \A t \in Threads : loc[t].op = "none"

\* What a call has read of its file is still what is there.
DataUse(t) ==
    /\ loc[t].op = "write" => loc[t].val # Zero
    /\ pc[t] = "w_out" => loc[t].buf = disk[loc[t].path]
    /\ pc[t] \in {"t_size", "t_read"} => loc[t].pos > 0
    /\ pc[t] = "t_read" => loc[t].pos < Len(disk[loc[t].path])
    /\ pc[t] = "t_cut" /\ loc[t].pos > 0 =>
          /\ loc[t].pos < Len(disk[loc[t].path])
          /\ loc[t].buf = SubSeq(disk[loc[t].path], 1, loc[t].pos)
    /\ pc[t] \in {"t_again", "t_grow"} => disk[loc[t].path] = << >> /\ loc[t].pos = 2
    /\ pc[t] \in Resizing => loc[t].val = Zero

\* All of it, as long as the process lives, and it does.
DInv ==
    /\ alive
    /\ Serial
    /\ IssuedInv
    /\ \A t \in Threads : HandleUse(t) /\ CloseUse(t) /\ DataUse(t)
    /\ KeysInv

-----------------------------------------------------------------------------
(* Consequences of the invariant                                           *)

\* An idle thread has no call, and a thread with no call is idle.
LEMMA NoCall ==
    ASSUME IInv, NEW t \in Threads
    PROVE  /\ pc[t] = "idle" <=> loc[t].op = "none"
           /\ pc[t] = "idle" => loc[t] = Idle /\ loc[t].path = None
<1>1. CallShape(t) /\ pc[t] \in Locations
  BY DEF IInv, CallsShaped, TypeOK
<1>2. Idle.op = "none" /\ Idle.path = None
  BY DEF Idle
<1> QED
  BY <1>1, <1>2 DEF CallShape, Locations, Opening, Reading, LockingOut, Writing, Resizing, Closing,
                    Leaving

\* The handle of a call is a handle.
LEMMA HandleTyped ==
    ASSUME IInv, NEW t \in Threads, pc[t] \notin Leaving
    PROVE  loc[t].hd \in Handles
<1>1. CallShape(t) /\ loc[t] \in Local
  BY DEF IInv, CallsShaped, TypeOK
<1> QED
  BY <1>1, HandleTableAssumption DEF CallShape, Local, Handles

\* A call on an issued handle has the File of its path, open.
LEMMA UsesFile ==
    ASSUME IInv, DInv, NEW t \in Threads, OnIssued(t)
    PROVE  LET f == fileHandles[loc[t].hd]
           IN  /\ loc[t].hd \in Handles /\ issued[loc[t].hd] = loc[t].path
               /\ loc[t].path \in Paths /\ loc[t].path # None
               /\ f \in Objs /\ f # None /\ objects[f].path = loc[t].path
               /\ IsOpen(f) /\ FileOf(f) = loc[t].path /\ objects[f].fd \in Fds
               /\ ~LooksUp(t) => loc[t].file = f /\ loc[t].via = f
               /\ disk[loc[t].path] \in Content
<1>1. CallShape(t) /\ HandleUse(t) /\ TypeOK
  BY DEF IInv, DInv, CallsShaped
<1>2. pc[t] \notin Leaving
  BY <1>1 DEF OnIssued, CallShape
<1>3. loc[t].hd \in Handles
  BY <1>2, HandleTyped
<1>4. loc[t].path \in Paths /\ issued[loc[t].hd] = loc[t].path /\ loc[t].path # None
  BY <1>1, HandleTableAssumption DEF HandleUse
<1>5. HandlesStayValid
  BY DEF DInv, IssuedInv
<1>6. LET f == fileHandles[loc[t].hd]
      IN  f # None /\ objects[f].path = loc[t].path /\ IsOpen(f) /\ FileOf(f) = loc[t].path
  BY <1>3, <1>4, <1>5 DEF HandlesStayValid
<1>7. fileHandles[loc[t].hd] \in Objs
  BY <1>1, <1>3, <1>6 DEF TypeOK
<1>8. objects[fileHandles[loc[t].hd]].fd \in Fds
  BY <1>1, <1>6, <1>7 DEF TypeOK, IsOpen
<1>9. disk[loc[t].path] \in Content
  BY <1>1, <1>4 DEF TypeOK
<1>10. ~LooksUp(t) => loc[t].file = fileHandles[loc[t].hd] /\ loc[t].via = fileHandles[loc[t].hd]
  BY <1>1 DEF HandleUse
<1> QED
  BY <1>3, <1>4, <1>6, <1>7, <1>8, <1>9, <1>10

\* Where a thread is about to change its file, or relies on what it has read of it.
Changing == {"w_out", "t_grow", "t_cut"}
Relying  == {"w_out", "t_read", "t_cut", "t_again", "t_grow"}

\* Nobody changes a file while another thread relies on what it has read.
LEMMA Alone ==
    ASSUME IInv, DInv, NEW t \in Threads, NEW u \in Threads, t # u,
           pc[t] \in Changing, pc[u] \in Relying
    PROVE  loc[t].path # loc[u].path
<1> SUFFICES ASSUME loc[t].path = loc[u].path PROVE FALSE
  OBVIOUS
<1>1. CallShape(t) /\ CallShape(u) /\ Serial
  BY DEF IInv, DInv, CallsShaped
<1>2. loc[t].op \in {"write", "truncate"} /\ loc[u].op \in {"write", "truncate"}
  BY <1>1 DEF CallShape, Changing, Relying, Writing, Resizing
<1>3. loc[t].op = "write" /\ loc[u].op = "write"
  BY <1>1, <1>2 DEF Serial
<1>4. pc[t] = "w_out" /\ pc[u] = "w_out"
  BY <1>1, <1>3 DEF CallShape, Changing, Relying, Resizing
<1>5. OnIssued(t) /\ OnIssued(u) /\ ~LooksUp(t) /\ ~LooksUp(u)
  BY <1>3, <1>4 DEF OnIssued, LooksUp
<1>6. /\ loc[t].hd \in Handles /\ issued[loc[t].hd] = loc[t].path /\ loc[t].path # None
      /\ loc[u].hd \in Handles /\ issued[loc[u].hd] = loc[u].path
      /\ loc[t].file = fileHandles[loc[t].hd] /\ loc[u].file = fileHandles[loc[u].hd]
  BY <1>5, UsesFile
<1>7. loc[t].hd = loc[u].hd
  BY <1>6 DEF DInv, IssuedInv
<1>8. HoldsContentExclusive(t) /\ HoldsContentExclusive(u)
  BY <1>3, <1>4 DEF HoldsContentExclusive
<1> QED
  BY <1>6, <1>7, <1>8, ContentLockAlone DEF ContentLockExcludes

\* A call that works on a file is not one of closing it, nor of leaving.
LEMMA Excluded ==
    ASSUME IInv, DInv, Careful, NEW t \in Threads
    PROVE  /\ pc[t] \in {"w_out", "r_read", "w_readback", "t_read", "t_cut", "t_grow", "t_find"} => ~wiped
           /\ pc[t] = "t_find" => \A u \in Threads : pc[u] \notin {"o_insert", "c_delete"}
           /\ pc[t] \in {"r_fdlock", "w_fdlock", "t_fd"} => loc[t].file # None
           /\ pc[t] \in {"w_header", "t_grow", "c_fdlock"} => loc[t].via # None
<1>1. CallShape(t) /\ HandleUse(t) /\ CloseUse(t) /\ KeysInv /\ Serial
  BY DEF IInv, DInv, CallsShaped
<1>2. ASSUME pc[t] \in {"w_out", "r_read", "w_readback", "t_read", "t_cut", "t_grow", "t_find"}
      PROVE  ~wiped
  BY <1>1, <1>2 DEF CallShape, Reading, Writing, Resizing, KeysInv
<1>3. ASSUME pc[t] = "t_find", NEW u \in Threads PROVE pc[u] \notin {"o_insert", "c_delete"}
  <2>1. CallShape(u) /\ CloseUse(u)
    BY DEF IInv, DInv, CallsShaped
  <2> QED
    BY <1>1, <1>3, <2>1 DEF CallShape, Resizing, Opening, Closing, CloseUse, Serial
<1>4. ASSUME pc[t] \in {"r_fdlock", "w_fdlock", "t_fd", "w_header", "t_grow"}
      PROVE  loc[t].file # None /\ loc[t].via # None
  <2>1. OnIssued(t) /\ ~LooksUp(t)
    BY <1>1, <1>4 DEF CallShape, OnIssued, LooksUp, Reading, LockingOut, Writing, Resizing
  <2> QED
    BY <2>1, UsesFile
<1>5. ASSUME pc[t] = "c_fdlock" PROVE loc[t].via # None
  <2>1. ClosesHandle(t) /\ fileHandles[loc[t].hd] # None
    BY <1>1, <1>5 DEF CloseUse, Closing, ClosesHandle
  <2> QED
    BY <1>5, <2>1 DEF IInv, TableInv
<1> QED
  BY <1>2, <1>3, <1>4, <1>5

-----------------------------------------------------------------------------
(* Steps within a call                                                     *)

\* The step does not touch what all calls share, except the content of its own file.
SharedStays(t) ==
    /\ UNCHANGED <<fileHandles, objects, fdTable, opened, wiped, issued, alive>>
    /\ \/ UNCHANGED disk
       \/ /\ pc[t] \in Changing
          /\ \A p \in Paths : p # loc[t].path => disk'[p] = disk[p]

\* The call goes on, about the same handle.
GoesOn(t) ==
    /\ pc[t] # "idle" /\ pc'[t] # "idle"
    /\ loc'[t].op = loc[t].op /\ loc'[t].path = loc[t].path /\ loc'[t].hd = loc[t].hd
    /\ (ClosesHandle(t)' <=> ClosesHandle(t))

\* The call returns, and is not gcf_close.
Returns(t) ==
    /\ pc'[t] = "idle" /\ loc'[t] = Idle
    /\ ~ClosesHandle(t) /\ loc[t].op # "closeVolume"

\* An idle thread uses nothing.
LEMMA IdleUse ==
    ASSUME NEW t \in Threads, pc'[t] = "idle", loc'[t] = Idle
    PROVE  HandleUse(t)' /\ CloseUse(t)' /\ DataUse(t)' /\ ~ClosesHandle(t)'
<1>1. Idle.op = "none"
  BY DEF Idle
<1> QED
  BY <1>1 DEF HandleUse, CloseUse, DataUse, ClosesHandle, OnIssued, Opening, Closing, Resizing

\* What the others know stays true when a thread changes its own file only.
LEMMA OthersData ==
    ASSUME IInv, DInv, NEW t \in Threads, OthersStay(t), NEW u \in Threads \ {t},
           \/ UNCHANGED disk
           \/ /\ pc[t] \in Changing
              /\ \A p \in Paths : p # loc[t].path => disk'[p] = disk[p]
    PROVE  DataUse(u)'
<1>1. pc'[u] = pc[u] /\ loc'[u] = loc[u] /\ DataUse(u)
  BY DEF OthersStay, DInv
<1>2. CASE pc[u] \in Relying /\ disk' # disk
  <2>1. CallShape(u)
    BY DEF IInv, CallsShaped
  <2>2. OnIssued(u)
    BY <1>2, <2>1 DEF CallShape, OnIssued, Relying, Resizing, Writing
  <2>3. loc[u].path \in Paths /\ loc[u].path # loc[t].path
    BY <1>2, <2>2, UsesFile, Alone
  <2>4. disk'[loc[u].path] = disk[loc[u].path]
    BY <1>2, <2>3
  <2> QED
    BY <1>1, <2>4 DEF DataUse
<1>3. CASE pc[u] \notin Relying \/ disk' = disk
  BY <1>1, <1>3 DEF DataUse, Relying
<1> QED
  BY <1>2, <1>3

\* A step within a call, or to its end, keeps the invariant if the call's own part of it is kept.
LEMMA OwnStep ==
    ASSUME IInv, DInv, NEW t \in Threads, OthersStay(t), SharedStays(t),
           GoesOn(t) \/ Returns(t),
           GoesOn(t) => HandleUse(t)' /\ CloseUse(t)' /\ DataUse(t)'
    PROVE  DInv'
<1> USE DEF OthersStay, SharedStays
<1>1. Idle.op = "none" /\ Idle.path = None
  BY DEF Idle
<1>2. \A u \in Threads : \/ loc'[u].op = loc[u].op /\ loc'[u].path = loc[u].path
                         \/ loc'[u].op = "none" /\ loc'[u].path = None
  BY <1>1 DEF GoesOn, Returns
<1>3. Serial'
  <2>1. ASSUME NEW u \in Threads, NEW v \in Threads, u # v, loc'[u].op \in {"open", "truncate", "close"}
        PROVE  loc'[v].path # loc'[u].path
    <3>1. loc'[u].op = loc[u].op /\ loc'[u].path = loc[u].path
      BY <1>2, <2>1
    <3>2. loc[u].path \in Paths
      <4>1. CallShape(u) /\ HandleUse(u)
        BY DEF IInv, DInv, CallsShaped
      <4> QED
        BY <2>1, <3>1, <4>1 DEF CallShape, HandleUse
    <3> QED
      BY <1>2, <2>1, <3>1, <3>2, HandleTableAssumption DEF DInv, Serial
  <2>2. \A u, v \in Threads : u # v /\ loc'[u].op = "closeVolume" => loc'[v].op = "none"
    BY <1>2 DEF DInv, Serial
  <2>3. \A u, v \in Threads : loc'[u].op = "truncate" => loc'[v].op \notin {"open", "close"}
    BY <1>2 DEF DInv, Serial
  <2> QED
    BY <2>1, <2>2, <2>3 DEF Serial
<1>4. \A u \in Threads : /\ (ClosesHandle(u)' <=> ClosesHandle(u))
                         /\ ClosesHandle(u) => loc'[u].hd = loc[u].hd
  <2>1. (ClosesHandle(t)' <=> ClosesHandle(t)) /\ (ClosesHandle(t) => loc'[t].hd = loc[t].hd)
    BY <1>1, IdleUse DEF GoesOn, Returns
  <2>2. ASSUME NEW u \in Threads \ {t} PROVE (ClosesHandle(u)' <=> ClosesHandle(u))
    BY DEF ClosesHandle
  <2> QED
    BY <2>1, <2>2
<1>5. IssuedInv'
  BY <1>4 DEF DInv, IssuedInv, HandlesStayValid, IsOpen, FileOf
<1>6. ASSUME NEW u \in Threads PROVE HandleUse(u)' /\ CloseUse(u)' /\ DataUse(u)'
  <2>1. CASE u = t
    BY <2>1, IdleUse DEF GoesOn, Returns
  <2>2. CASE u # t
    <3>1. pc'[u] = pc[u] /\ loc'[u] = loc[u] /\ HandleUse(u) /\ CloseUse(u)
      BY <2>2 DEF DInv
    <3>2. HandleUse(u)'
      BY <3>1 DEF HandleUse, OnIssued, LooksUp, Opening
    <3>3. CloseUse(u)'
      BY <3>1 DEF CloseUse, ClosesHandle, Closing, Leaving
    <3>4. DataUse(u)'
      BY <2>2, OthersData
    <3> QED
      BY <3>2, <3>3, <3>4
  <2> QED
    BY <2>1, <2>2
<1>7. KeysInv'
  <2>1. ASSUME NEW u \in Threads, loc[u].op = "closeVolume" PROVE loc'[u].op = "closeVolume"
    BY <2>1 DEF GoesOn, Returns
  <2>2. wiped /\ opened => \E u \in Threads : loc'[u].op = "closeVolume"
    BY <2>1 DEF DInv, KeysInv
  <2> QED
    BY <1>2, <2>2 DEF DInv, KeysInv
<1> QED
  BY <1>3, <1>5, <1>6, <1>7 DEF DInv

\* Reading the whole of a content.
LEMMA WholeContent ==
    ASSUME NEW c \in Content
    PROVE  /\ SubSeq(c, 1, IF Len(c) < 2 THEN Len(c) ELSE 2) = c
           /\ \A n \in 1..2 : n < Len(c) => /\ SubSeq(c, 1, IF Len(c) < n THEN Len(c) ELSE n) = SubSeq(c, 1, n)
                                            /\ SubSeq(c, 1, n) # << >>
<1>0. c \in Seq(Values) /\ Len(c) <= 2
  BY DEF Content
<1>1. c \in Seq(Values) /\ Len(c) \in Nat /\ Len(c) <= 2
  BY <1>0, LenProperties
<1>2. (IF Len(c) < 2 THEN Len(c) ELSE 2) = Len(c)
  <2>1. CASE Len(c) < 2
    BY <2>1
  <2>2. CASE ~(Len(c) < 2)
    <3>1. Len(c) = 2
      BY <1>1, <2>2
    <3> QED
      BY <2>2, <3>1
  <2> QED
    BY <2>1, <2>2
<1>3. SubSeq(c, 1, Len(c)) = c
  BY <1>1
<1>4. ASSUME NEW n \in 1..2, n < Len(c)
      PROVE  /\ SubSeq(c, 1, IF Len(c) < n THEN Len(c) ELSE n) = SubSeq(c, 1, n)
             /\ SubSeq(c, 1, n) # << >>
  BY <1>1, <1>4
<1> QED
  BY <1>2, <1>3, <1>4

\* What doRead leaves in the buffer of a call.
LEMMA ReadsFile ==
    ASSUME IInv, DInv, NEW t \in Threads, NEW from, NEW to, NEW size, DoRead(t, from, to, size),
           from \in {"r_read", "w_readback", "t_read"}
    PROVE  LET c == disk[loc[t].path]
           IN  /\ c \in Content /\ loc[t] \in Local
               /\ loc'[t] = [loc[t] EXCEPT !.buf = SubSeq(c, 1, IF Len(c) < size THEN Len(c) ELSE size)]
<1>1. pc[t] = from /\ CallShape(t) /\ TypeOK
  BY DEF DoRead, Step, IInv, CallsShaped
<1>2. OnIssued(t) /\ ~LooksUp(t)
  BY <1>1 DEF CallShape, OnIssued, LooksUp, Reading, Writing, Resizing
<1>3. FileOf(loc[t].via) = loc[t].path /\ disk[loc[t].path] \in Content
  BY <1>2, UsesFile
<1> QED
  BY <1>1, <1>3 DEF DoRead, TypeOK

\* What the end of a call leaves behind.
LEMMA ReturnEnds ==
    ASSUME IInv, NEW t \in Threads, NEW from, Return(t, from), from # "c_lock", from # "c_fdlock",
           from # "c_close", from # "c_delete", loc[t].op # "closeVolume"
    PROVE  Returns(t)
<1>1. pc \in [Threads -> Locations] /\ loc \in [Threads -> Local]
  BY DEF IInv, TypeOK
<1> QED
  BY <1>1 DEF Return, Step, Returns, ClosesHandle

\* Every step within a call, but for those that touch the tables or end the volume.
LEMMA WithinCall ==
    ASSUME IInv, DInv, Careful, NEW t \in Threads, OthersStay(t),
           \/ RegisterLock(t)
           \/ LookupFile(t, "r_lookup", "r_fdlock") \/ LockFd(t, "r_fdlock", "r_contentlock")
           \/ LockContentShared(t) \/ DoRead(t, "r_read", "io_done", 2) \/ FinishIO(t)
           \/ LookupFile(t, "w_lookup", "w_fdlock") \/ LockFd(t, "w_fdlock", "w_contentlock")
           \/ AnnounceContent(t) \/ AcquireContent(t)
           \/ LookupAgain(t, "w_again", "w_header") \/ GetFileID(t)
           \/ DoRead(t, "w_readback", "w_out", 2)
           \/ CloseLockHandles(t) \/ CloseAnnounceFd(t) \/ CloseUnlockFd(t)
           \/ NotFoundByPath(t) \/ LookupFile(t, "t_lookup", "t_fd")
           \/ TakeRawFd(t) \/ CompareSize(t) \/ LookupAgain(t, "t_again", "t_grow")
           \/ DoRead(t, "t_read", "t_cut", loc[t].pos)
           \/ CutFails(t) \/ ListHandles(t) \/ CloseNext(t)
    PROVE  DInv'
<1> DEFINE Own == SharedStays(t) /\ (GoesOn(t) \/ Returns(t))
                  /\ (GoesOn(t) => HandleUse(t)' /\ CloseUse(t)' /\ DataUse(t)')
<1>0. /\ CallShape(t) /\ pc \in [Threads -> Locations] /\ loc \in [Threads -> Local] /\ TypeOK
      /\ HandleUse(t) /\ CloseUse(t) /\ DataUse(t)
  BY DEF IInv, DInv, CallsShaped, TypeOK
<1>1. Idle.op = "none" /\ Idle.path = None
  BY DEF Idle
<1> SUFFICES Own
  BY OwnStep
<1> USE DEF Step, Return, vars, threadVars, lockVars, tableVars, osVars, clientVars, SharedStays,
            GoesOn, Returns, ClosesHandle, HandleUse, CloseUse, DataUse, OnIssued, LooksUp, CallShape,
            Opening, Reading, LockingOut, Writing, Resizing, Closing, Leaving, Local
<1>2. CASE RegisterLock(t)
  BY <1>0, <1>2 DEF RegisterLock
<1>3. CASE LookupFile(t, "r_lookup", "r_fdlock")
  BY <1>0, <1>3 DEF LookupFile
<1>4. CASE LockFd(t, "r_fdlock", "r_contentlock")
  BY <1>0, <1>4 DEF LockFd
<1>5. CASE LockContentShared(t)
  BY <1>0, <1>5 DEF LockContentShared
<1>6. CASE DoRead(t, "r_read", "io_done", 2)
  BY <1>0, <1>6 DEF DoRead
<1>7. CASE FinishIO(t)
  BY <1>0, <1>7 DEF FinishIO
<1>8. CASE LookupFile(t, "w_lookup", "w_fdlock")
  BY <1>0, <1>8 DEF LookupFile
<1>9. CASE LockFd(t, "w_fdlock", "w_contentlock")
  BY <1>0, <1>9 DEF LockFd
<1>10. CASE AnnounceContent(t)
  BY <1>0, <1>10 DEF AnnounceContent
<1>11. CASE AcquireContent(t)
  BY <1>0, <1>11 DEF AcquireContent
<1>12. CASE LookupAgain(t, "w_again", "w_header")
  BY <1>0, <1>12 DEF LookupAgain
<1>13. CASE GetFileID(t)
  BY <1>0, <1>13 DEF GetFileID
<1>14. CASE DoRead(t, "w_readback", "w_out", 2)
  <2>1. /\ disk[loc[t].path] \in Content
        /\ loc'[t] = [loc[t] EXCEPT !.buf = SubSeq(disk[loc[t].path], 1,
                            IF Len(disk[loc[t].path]) < 2 THEN Len(disk[loc[t].path]) ELSE 2)]
    BY <1>14, ReadsFile
  <2>2. loc'[t] = [loc[t] EXCEPT !.buf = disk[loc[t].path]]
    BY <2>1, WholeContent
  <2>3. pc'[t] = "w_out" /\ pc[t] = "w_readback" /\ SharedStays(t) /\ disk' = disk
    BY <1>0, <1>14 DEF DoRead
  <2> QED
    BY <1>0, <2>2, <2>3
<1>15. CASE CloseLockHandles(t)
  BY <1>0, <1>15 DEF CloseLockHandles
<1>16. CASE CloseAnnounceFd(t)
  BY <1>0, <1>16 DEF CloseAnnounceFd
<1>17. CASE CloseUnlockFd(t)
  BY <1>0, <1>17 DEF CloseUnlockFd
<1>18. CASE NotFoundByPath(t)
  BY <1>0, <1>18 DEF NotFoundByPath
<1>19. CASE LookupFile(t, "t_lookup", "t_fd")
  BY <1>0, <1>19 DEF LookupFile
<1>20. CASE TakeRawFd(t)
  BY <1>0, <1>20, HandleTableAssumption DEF TakeRawFd
<1>21. CASE CompareSize(t)
  BY <1>0, <1>21 DEF CompareSize
<1>22. CASE LookupAgain(t, "t_again", "t_grow")
  BY <1>0, <1>22 DEF LookupAgain
<1>23. CASE DoRead(t, "t_read", "t_cut", loc[t].pos)
  <2>1. /\ disk[loc[t].path] \in Content
        /\ loc'[t] = [loc[t] EXCEPT !.buf = SubSeq(disk[loc[t].path], 1,
              IF Len(disk[loc[t].path]) < loc[t].pos THEN Len(disk[loc[t].path]) ELSE loc[t].pos)]
    BY <1>23, ReadsFile
  <2>2. pc'[t] = "t_cut" /\ pc[t] = "t_read" /\ SharedStays(t) /\ disk' = disk
    BY <1>0, <1>23 DEF DoRead
  <2>3. loc[t].pos \in 1..2 /\ loc[t].pos < Len(disk[loc[t].path])
    BY <1>0, <2>2
  <2>4. loc'[t] = [loc[t] EXCEPT !.buf = SubSeq(disk[loc[t].path], 1, loc[t].pos)]
    BY <2>1, <2>3, WholeContent
  <2> QED
    BY <1>0, <2>2, <2>3, <2>4
<1>24. CASE CutFails(t)
  BY <1>0, <1>24 DEF CutFails
<1>25. CASE ListHandles(t)
  <2>1. \A h \in Handles : fileHandles[h] = None
    BY <1>0, <1>25 DEF ListHandles
  <2>2. {h \in Handles : fileHandles[h] # None} = {}
    BY <2>1
  <2>3. Cardinality({h \in Handles : fileHandles[h] # None}) = 0
    BY <2>2, FS_EmptySet
  <2>4. pc[t] = "v_list" /\ pc'[t] = "v_next" /\ loc'[t] = [loc[t] EXCEPT !.pos = 0] /\ SharedStays(t)
    BY <1>0, <1>25, <2>3 DEF ListHandles
  <2> QED
    BY <1>0, <2>1, <2>4
<1>26. CASE CloseNext(t)
  BY <1>0, <1>26 DEF CloseNext
<1> QED
  BY <1>2, <1>3, <1>4, <1>5, <1>6, <1>7, <1>8, <1>9, <1>10, <1>11, <1>12, <1>13, <1>14, <1>15, <1>16,
     <1>17, <1>18, <1>19, <1>20, <1>21, <1>22, <1>23, <1>24, <1>25, <1>26

-----------------------------------------------------------------------------
(* Calls begin                                                             *)

\* A call begins only where it conflicts with none in progress.
LEMMA BeginStep ==
    ASSUME IInv, DInv, Careful, NEW t \in Threads, NEW call, NEW to, Begin(t, call, to),
           to # "idle", call.op \in AllOps,
           IF call.op = "closeVolume" THEN call.path = None ELSE call.path \in Paths,
           call.op \in {"read", "write", "close"} => \E h \in Handles : issued[h] = call.path
    PROVE  /\ Serial' /\ OthersStay(t)
           /\ pc[t] = "idle" /\ loc[t] = Idle /\ loc'[t] = call /\ pc'[t] = to
           /\ \A u \in Threads : loc[u].op # "closeVolume"
           /\ call.op \in {"open", "truncate", "close"} => \A u \in Threads : loc[u].path # call.path
           /\ call.op = "open" => \A h \in Handles : issued[h] # call.path
           /\ call.op = "closeVolume" =>
                /\ \A h \in Handles : issued[h] = None
                /\ \A u \in Threads : pc[u] = "idle"
           /\ opened /\ ~wiped /\ alive
<1> USE DEF AllOps
<1>1. /\ pc \in [Threads -> Locations] /\ loc \in [Threads -> Local]
      /\ pc[t] = "idle" /\ loc' = [loc EXCEPT ![t] = call] /\ pc' = [pc EXCEPT ![t] = to]
      /\ opened /\ alive /\ ~Conflicts(call.op, call.path)
  BY DEF Begin, IInv, TypeOK, Careful
<1>2. loc[t] = Idle /\ loc'[t] = call /\ pc'[t] = to /\ OthersStay(t)
  BY <1>1, NoCall DEF OthersStay
<1>3. \A u \in Threads : u \in Busy <=> loc[u].op # "none"
  BY NoCall DEF Busy
<1>4. \A u \in Threads : loc[u].op # "closeVolume"
  BY <1>1, <1>3 DEF Conflicts
<1>5. ASSUME call.op \in {"open", "truncate", "close"}, NEW u \in Threads
      PROVE  loc[u].path # call.path
  <2>1. call.path \in Paths /\ call.path # None
    BY <1>5, HandleTableAssumption
  <2>2. pc[u] = "idle" => loc[u].path # call.path
    BY <2>1, NoCall
  <2> QED
    BY <1>1, <1>5, <2>2 DEF Conflicts, Calling, Busy
<1>6. call.op = "open" => \A h \in Handles : issued[h] # call.path
  BY <1>1 DEF Conflicts
<1>7. call.op = "closeVolume" => /\ \A h \in Handles : issued[h] = None
                                 /\ \A u \in Threads : pc[u] = "idle"
  BY <1>1 DEF Conflicts, Busy
<1>8. ~wiped
  BY <1>1, <1>4 DEF DInv, KeysInv
<1>9. Serial'
  <2>1. ASSUME NEW u \in Threads, NEW v \in Threads, u # v, loc'[u].op = "closeVolume"
        PROVE  loc'[v].op = "none"
    <3>1. u = t
      BY <1>2, <1>4, <2>1 DEF OthersStay
    <3> QED
      BY <1>2, <1>7, <2>1, <3>1, NoCall DEF OthersStay
  <2>2. ASSUME NEW u \in Threads, NEW v \in Threads, u # v, loc'[u].op \in {"open", "truncate", "close"}
        PROVE  loc'[v].path # loc'[u].path
    <3>1. CASE u = t
      BY <1>2, <1>5, <2>2, <3>1 DEF OthersStay
    <3>2. CASE v = t
      <4>1. loc'[u] = loc[u] /\ loc'[v] = call /\ HandleUse(u) /\ CallShape(u)
        BY <1>2, <2>2, <3>2 DEF OthersStay, IInv, DInv, CallsShaped
      <4>2. loc[u].path \in Paths /\ loc[u].path # None
        BY <2>2, <4>1, HandleTableAssumption DEF HandleUse, CallShape
      <4>3. CASE call.op \in {"open", "truncate", "close"}
        BY <1>5, <4>1, <4>3
      <4>4. CASE call.op = "closeVolume"
        BY <4>1, <4>2, <4>4
      <4>5. CASE call.op \in {"read", "write"} /\ loc[u].op = "truncate"
        BY <1>1, <1>3, <4>1, <4>5 DEF Conflicts, Calling
      <4>6. CASE call.op \in {"read", "write"} /\ loc[u].op \in {"open", "close"}
        BY <4>1, <4>6 DEF HandleUse
      <4> QED
        BY <2>2, <4>1, <4>3, <4>4, <4>5, <4>6
    <3>3. CASE u # t /\ v # t
      BY <1>2, <2>2, <3>3 DEF OthersStay, DInv, Serial
    <3> QED
      BY <3>1, <3>2, <3>3
  <2>3. ASSUME NEW u \in Threads, NEW v \in Threads, loc'[u].op = "truncate"
        PROVE  loc'[v].op \notin {"open", "close"}
    <3>1. CASE u = t
      BY <1>1, <1>2, <1>3, <2>3, <3>1 DEF OthersStay, Conflicts
    <3>2. CASE v = t /\ u # t
      BY <1>1, <1>2, <1>3, <2>3, <3>2 DEF OthersStay, Conflicts
    <3>3. CASE u # t /\ v # t
      BY <1>2, <2>3, <3>3 DEF OthersStay, DInv, Serial
    <3> QED
      BY <3>1, <3>2, <3>3
  <2> QED
    BY <2>1, <2>2, <2>3 DEF Serial
<1> QED
  BY <1>1, <1>2, <1>4, <1>5, <1>6, <1>7, <1>8, <1>9

\* Reads, writes and truncates begin without touching anything shared.
LEMMA UseBegins ==
    ASSUME IInv, DInv, Careful, NEW t \in Threads, ReadFile(t) \/ WriteFile(t) \/ TruncateFile(t)
    PROVE  DInv'
<1>1. PICK call, to :
        /\ Begin(t, call, to)
        /\ UNCHANGED <<fileHandles, objects, fdTable, disk, opened, wiped, issued, alive>>
        /\ call.op \in {"read", "write", "truncate"} /\ call.path \in Paths
        /\ to = (IF call.op = "read" THEN "r_lookup" ELSE IF call.op = "write" THEN "w_lookup" ELSE "t_find")
        /\ call.op # "truncate" => call.hd \in Handles /\ issued[call.hd] = call.path
        /\ call.val = Zero <=> call.op # "write"
  <2> USE HandleTableAssumption DEF vars, threadVars, lockVars, tableVars, osVars, clientVars, OnHandle, Idle
  <2>0. issued \in [Handles -> Paths \cup {None}]
    BY DEF IInv, TypeOK
  <2>1. CASE ReadFile(t)
    <3>1. PICK h \in Handles : ReadFile(t)!(h)
      BY <2>1 DEF ReadFile
    <3> DEFINE call == OnHandle("read", h)
    <3>2. /\ call.op = "read" /\ call.path = issued[h] /\ call.hd = h /\ call.val = Zero
      OBVIOUS
    <3> QED
      BY <2>0, <3>1, <3>2
  <2>2. CASE WriteFile(t)
    <3>1. PICK h \in Handles, k \in Parts, v \in Values \ {Zero} : WriteFile(t)!(h, k, v)
      BY <2>2 DEF WriteFile
    <3> DEFINE call == [OnHandle("write", h) EXCEPT !.pos = k, !.val = v]
    <3>2. /\ call.op = "write" /\ call.path = issued[h] /\ call.hd = h /\ call.val = v
      OBVIOUS
    <3> QED
      BY <2>0, <3>1, <3>2
  <2>3. CASE TruncateFile(t)
    <3>1. PICK p \in Paths, n \in 0..2 : TruncateFile(t)!(p, n)
      BY <2>3 DEF TruncateFile
    <3> DEFINE call == [Idle EXCEPT !.op = "truncate", !.path = p, !.pos = n]
    <3>2. /\ call.op = "truncate" /\ call.path = p /\ call.val = Zero
      OBVIOUS
    <3> QED
      BY <3>1, <3>2
  <2> QED
    BY <2>1, <2>2, <2>3
<1>2. /\ Serial' /\ OthersStay(t) /\ loc'[t] = call /\ pc'[t] = to /\ pc[t] = "idle" /\ loc[t] = Idle
      /\ opened /\ ~wiped /\ alive
  BY <1>1, BeginStep DEF AllOps
<1>3. Idle.op = "none"
  BY DEF Idle
<1>4. ~ClosesHandle(t) /\ ~ClosesHandle(t)' /\ \A u \in Threads \ {t} : ClosesHandle(u)' <=> ClosesHandle(u)
  BY <1>1, <1>2, <1>3 DEF ClosesHandle, OthersStay
<1>5. IssuedInv'
  BY <1>1, <1>2, <1>4 DEF DInv, IssuedInv, HandlesStayValid, IsOpen, FileOf, OthersStay
<1>6. HandleUse(t)' /\ CloseUse(t)' /\ DataUse(t)'
  BY <1>1, <1>2 DEF HandleUse, CloseUse, DataUse, ClosesHandle, OnIssued, LooksUp, Opening, Closing, Resizing
<1>7. ASSUME NEW u \in Threads \ {t} PROVE HandleUse(u)' /\ CloseUse(u)' /\ DataUse(u)'
  <2>1. pc'[u] = pc[u] /\ loc'[u] = loc[u] /\ HandleUse(u) /\ CloseUse(u) /\ DataUse(u)
    BY <1>2 DEF DInv, OthersStay
  <2> QED
    BY <1>1, <2>1 DEF HandleUse, CloseUse, DataUse, ClosesHandle, OnIssued, LooksUp
<1>8. KeysInv'
  BY <1>1, <1>2 DEF KeysInv
<1> QED
  BY <1>1, <1>2, <1>5, <1>6, <1>7, <1>8 DEF DInv

\* gcf_open begins with a descriptor that nobody has.
LEMMA OpenFileDiscipline ==
    ASSUME IInv, DInv, Careful, NEW t \in Threads, OpenFile(t)
    PROVE  DInv'
<1>1. PICK p \in Paths : OpenFile(t)!(p)
  BY DEF OpenFile
<1> DEFINE d == Lowest(FreeFds)
           call == [Idle EXCEPT !.op = "open", !.path = p, !.rawFd = d]
<1>2. /\ Begin(t, call, "o_lock") /\ fdTable' = [fdTable EXCEPT ![d] = p]
      /\ UNCHANGED <<fileHandles, objects, disk, opened, wiped, issued, alive>>
      /\ d \in Fds /\ fdTable[d] = None /\ fdTable \in [Fds -> Paths \cup {None}]
  BY <1>1, LowestFd DEF lockVars, tableVars, clientVars, FreeFds, IInv, TypeOK
<1>3. call.op = "open" /\ call.path = p /\ call.rawFd = d
  BY DEF Idle
<1> HIDE DEF d, call
<1>4. /\ Serial' /\ OthersStay(t) /\ loc'[t] = call /\ pc'[t] = "o_lock" /\ pc[t] = "idle" /\ loc[t] = Idle
      /\ opened /\ ~wiped /\ alive /\ \A h \in Handles : issued[h] # p
      /\ \A u \in Threads : loc[u].op # "closeVolume"
  BY <1>2, <1>3, BeginStep DEF AllOps
<1>5. \A e \in Fds : fdTable[e] # None => fdTable'[e] = fdTable[e]
  BY <1>2
<1>6. \A o \in Objs : IsOpen(o)' = IsOpen(o) /\ (IsOpen(o) => FileOf(o)' = FileOf(o))
  <2>1. \A o \in Objs : IsOpen(o) => objects[o].fd \in Fds /\ fdTable[objects[o].fd] # None
    BY DEF IInv, TypeOK, FdInv, IsOpen, FileOf
  <2> QED
    BY <1>2, <1>5, <2>1 DEF IsOpen, FileOf
<1>7. Idle.op = "none"
  BY DEF Idle
<1>8. ~ClosesHandle(t) /\ ~ClosesHandle(t)' /\ \A u \in Threads \ {t} : ClosesHandle(u)' <=> ClosesHandle(u)
  BY <1>3, <1>4, <1>7 DEF ClosesHandle, OthersStay
<1>9. HandlesStayValid'
  <2>1. fileHandles \in [Handles -> Objs \cup {None}]
    BY DEF IInv, TypeOK
  <2> QED
    BY <1>2, <1>6, <2>1 DEF DInv, IssuedInv, HandlesStayValid
<1>10. IssuedInv'
  BY <1>2, <1>4, <1>8, <1>9 DEF DInv, IssuedInv, OthersStay
<1>11. HandleUse(t)' /\ CloseUse(t)' /\ DataUse(t)'
  <2>1. fdTable'[d] = p
    BY <1>2
  <2> QED
    BY <1>2, <1>3, <1>4, <2>1
       DEF HandleUse, CloseUse, DataUse, ClosesHandle, OnIssued, LooksUp, Opening, Closing, Resizing
<1>12. ASSUME NEW u \in Threads \ {t} PROVE HandleUse(u)' /\ CloseUse(u)' /\ DataUse(u)'
  <2>1. pc'[u] = pc[u] /\ loc'[u] = loc[u] /\ HandleUse(u) /\ CloseUse(u) /\ DataUse(u) /\ CallShape(u)
    BY <1>4 DEF DInv, IInv, CallsShaped, OthersStay
  <2>2. pc[u] \in Opening => fdTable'[loc[u].rawFd] = loc[u].path
    BY <1>5, <2>1 DEF IInv, FdInv, HandleUse, CallShape
  <2> QED
    BY <1>2, <2>1, <2>2 DEF HandleUse, CloseUse, DataUse, ClosesHandle, OnIssued, LooksUp
<1>13. KeysInv'
  BY <1>2, <1>4 DEF KeysInv
<1> QED
  BY <1>2, <1>4, <1>10, <1>11, <1>12, <1>13 DEF DInv

\* gcf_close_file begins: the client gives the handle up.
LEMMA CloseFileDiscipline ==
    ASSUME IInv, DInv, Careful, NEW t \in Threads, CloseFile(t)
    PROVE  DInv'
<1>1. PICK h \in Handles : CloseFile(t)!(h)
  BY DEF CloseFile
<1> DEFINE p == issued[h]
           call == OnHandle("close", h)
<1>2. /\ Begin(t, call, "c_lock") /\ p # None /\ issued' = [issued EXCEPT ![h] = None]
      /\ UNCHANGED <<fileHandles, objects, fdTable, disk, opened, wiped, alive>>
      /\ issued \in [Handles -> Paths \cup {None}] /\ p \in Paths
  BY <1>1 DEF lockVars, tableVars, osVars, IInv, TypeOK
<1>3. call.op = "close" /\ call.path = p /\ call.hd = h
  BY DEF Idle, OnHandle
<1> HIDE DEF call
<1>4. /\ Serial' /\ OthersStay(t) /\ loc'[t] = call /\ pc'[t] = "c_lock" /\ pc[t] = "idle" /\ loc[t] = Idle
      /\ opened /\ ~wiped /\ alive /\ \A u \in Threads : loc[u].path # p
      /\ \A u \in Threads : loc[u].op # "closeVolume"
  BY <1>2, <1>3, BeginStep DEF AllOps
<1>5. issued'[h] = None /\ (\A g \in Handles \ {h} : issued'[g] = issued[g] /\ issued[g] # p)
  BY <1>2 DEF DInv, IssuedInv
<1>6. fileHandles[h] # None
  BY <1>2 DEF DInv, IssuedInv, HandlesStayValid
<1>7. Idle.op = "none"
  BY DEF Idle
<1>8. ~ClosesHandle(t) /\ ClosesHandle(t)' /\ \A u \in Threads \ {t} : ClosesHandle(u)' <=> ClosesHandle(u)
  BY <1>3, <1>4, <1>7 DEF ClosesHandle, OthersStay
<1>9. \A u \in Threads \ {t} : ClosesHandle(u) => loc[u].hd # h
  BY <1>2 DEF DInv, CloseUse
<1>10. HandlesStayValid'
  BY <1>2, <1>5 DEF DInv, IssuedInv, HandlesStayValid, IsOpen, FileOf
<1>11. IssuedInv'
  <2>1. ASSUME NEW f \in Handles, NEW g \in Handles, issued'[f] # None, issued'[f] = issued'[g]
        PROVE  f = g
    BY <1>5, <2>1 DEF DInv, IssuedInv
  <2>2. ASSUME NEW g \in Handles, fileHandles'[g] # None
        PROVE  issued'[g] # None \/ \E u \in Threads : ClosesHandle(u)' /\ loc'[u].hd = g
    <3>1. CASE g = h
      BY <1>3, <1>4, <1>8, <3>1
    <3>2. CASE g # h
      <4>1. issued[g] # None \/ \E u \in Threads : ClosesHandle(u) /\ loc[u].hd = g
        BY <1>2, <2>2 DEF DInv, IssuedInv
      <4> QED
        BY <1>4, <1>5, <1>8, <3>2, <4>1 DEF OthersStay
    <3> QED
      BY <3>1, <3>2
  <2>3. ASSUME NEW u \in Threads, NEW v \in Threads, ClosesHandle(u)', ClosesHandle(v)', loc'[u].hd = loc'[v].hd
        PROVE  u = v
    BY <1>3, <1>4, <1>8, <1>9, <2>3 DEF DInv, IssuedInv, OthersStay
  <2>4. \A f, g \in Handles : fileHandles'[f] # None /\ fileHandles'[f] = fileHandles'[g] => f = g
    BY <1>2 DEF DInv, IssuedInv
  <2> QED
    BY <1>10, <2>1, <2>2, <2>3, <2>4 DEF IssuedInv
<1>12. HandleUse(t)' /\ CloseUse(t)' /\ DataUse(t)'
  <2>1. \A g \in Handles : issued'[g] # p
    BY <1>2, <1>5
  <2> QED
    BY <1>2, <1>3, <1>4, <1>5, <1>6, <2>1
       DEF HandleUse, CloseUse, DataUse, ClosesHandle, OnIssued, LooksUp, Opening, Closing, Resizing
<1>13. ASSUME NEW u \in Threads \ {t} PROVE HandleUse(u)' /\ CloseUse(u)' /\ DataUse(u)'
  <2>1. pc'[u] = pc[u] /\ loc'[u] = loc[u] /\ HandleUse(u) /\ CloseUse(u) /\ DataUse(u) /\ loc[u].path # p
    BY <1>4 DEF DInv, OthersStay
  <2>2. OnIssued(u) => loc[u].hd \in Handles \ {h}
    BY <2>1, UsesFile
  <2>3. loc[u].path \in Paths => \A g \in Handles : issued[g] # loc[u].path => issued'[g] # loc[u].path
    BY <1>5, HandleTableAssumption
  <2>4. HandleUse(u)'
    BY <1>2, <1>5, <2>1, <2>2, <2>3 DEF HandleUse, OnIssued, LooksUp
  <2>5. ClosesHandle(u) => loc[u].hd \in Handles /\ issued'[loc[u].hd] = None
    <3>1. ClosesHandle(u) => loc[u].hd \in Handles
      BY HandleTyped DEF ClosesHandle, Leaving
    <3> QED
      BY <1>5, <2>1, <3>1 DEF CloseUse
  <2>6. CloseUse(u)' /\ DataUse(u)'
    BY <1>2, <1>4, <2>1, <2>5 DEF CloseUse, DataUse, ClosesHandle
  <2> QED
    BY <2>4, <2>6
<1>14. KeysInv'
  BY <1>2, <1>4 DEF KeysInv
<1> QED
  BY <1>2, <1>4, <1>11, <1>12, <1>13, <1>14 DEF DInv

\* gcf_close begins: the library is idle and all files are closed.
LEMMA CloseVolumeDiscipline ==
    ASSUME IInv, DInv, Careful, NEW t \in Threads, CloseVolume(t)
    PROVE  DInv'
<1> DEFINE call == [Idle EXCEPT !.op = "closeVolume"]
<1>1. /\ Begin(t, call, "v_list") /\ wiped' = TRUE
      /\ UNCHANGED <<fileHandles, objects, fdTable, disk, opened, issued, alive>>
  BY DEF CloseVolume, lockVars, tableVars, osVars
<1>2. call.op = "closeVolume" /\ call.path = None /\ Idle.op = "none"
  BY DEF Idle
<1> HIDE DEF call
<1>3. /\ Serial' /\ OthersStay(t) /\ loc'[t] = call /\ pc'[t] = "v_list"
      /\ opened /\ alive /\ \A h \in Handles : issued[h] = None
      /\ \A u \in Threads : pc[u] = "idle"
  BY <1>1, <1>2, BeginStep DEF AllOps
<1>4. \A u \in Threads : loc[u] = Idle /\ ~ClosesHandle(u)
  BY <1>2, <1>3, NoCall DEF ClosesHandle
<1>5. \A u \in Threads \ {t} : loc'[u] = Idle /\ pc'[u] = "idle"
  BY <1>3, <1>4 DEF OthersStay
<1>6. \A u \in Threads : ~ClosesHandle(u)'
  BY <1>2, <1>3, <1>5 DEF ClosesHandle
<1>7. \A h \in Handles : fileHandles[h] = None
  BY <1>3, <1>4 DEF DInv, IssuedInv
<1>8. IssuedInv'
  BY <1>1, <1>3, <1>6, <1>7 DEF IssuedInv, HandlesStayValid
<1>9. HandleUse(t)' /\ CloseUse(t)' /\ DataUse(t)'
  BY <1>1, <1>2, <1>3, <1>6, <1>7
     DEF HandleUse, CloseUse, DataUse, OnIssued, Opening, Closing, Resizing, Leaving
<1>10. \A u \in Threads \ {t} : HandleUse(u)' /\ CloseUse(u)' /\ DataUse(u)'
  BY <1>5, IdleUse
<1>11. KeysInv'
  BY <1>1, <1>2, <1>3, <1>5 DEF KeysInv
<1> QED
  BY <1>1, <1>3, <1>8, <1>9, <1>10, <1>11 DEF DInv

-----------------------------------------------------------------------------
(* Steps on the tables                                                     *)

\* The new handle is the only one of its path, and its File is nobody else's.
LEMMA RegisterDiscipline ==
    ASSUME IInv, DInv, NEW t \in Threads, RegisterFileHandle(t), OthersStay(t)
    PROVE  DInv'
<1> DEFINE c == Lowest(FreeHandles)
           o == Lowest(FreeObjs)
           p == loc[t].path
           d == loc[t].rawFd
<1>0. TypeOK /\ CallShape(t) /\ HandleUse(t) /\ Serial /\ pc[t] = "o_insert"
  BY DEF IInv, DInv, CallsShaped, RegisterFileHandle, Return, Step
<1>1. /\ c \in Handles /\ fileHandles[c] = None /\ o \in Objs /\ \A h \in Handles : fileHandles[h] # o
  BY LowestHandle, LowestObj DEF RegisterFileHandle, FreeHandles, FreeObjs
<1>2. /\ fileHandles' = [fileHandles EXCEPT ![c] = o]
      /\ objects' = [objects EXCEPT ![o] = [path |-> p, fd |-> d]]
      /\ issued' = [issued EXCEPT ![c] = p]
      /\ pc' = [pc EXCEPT ![t] = "idle"] /\ loc' = [loc EXCEPT ![t] = Idle]
      /\ UNCHANGED <<fdTable, disk, opened, wiped, alive>>
  BY DEF RegisterFileHandle, Return, Step, osVars
<1> HIDE DEF c, o
<1>3. /\ loc[t].op = "open" /\ p \in Paths /\ p # None /\ d \in Fds /\ fdTable[d] = p
      /\ \A h \in Handles : issued[h] # p
  BY <1>0, HandleTableAssumption DEF CallShape, HandleUse, Opening
<1>4. issued[c] = None
  BY <1>1 DEF DInv, IssuedInv, HandlesStayValid
<1>5. /\ fileHandles'[c] = o /\ issued'[c] = p /\ objects'[o].path = p /\ objects'[o].fd = d
      /\ \A h \in Handles \ {c} : fileHandles'[h] = fileHandles[h] /\ issued'[h] = issued[h]
      /\ \A f \in Objs \ {o} : objects'[f] = objects[f]
  BY <1>0, <1>1, <1>2 DEF TypeOK
<1>6. loc'[t] = Idle /\ pc'[t] = "idle" /\ Idle.op = "none" /\ Idle.path = None
  BY <1>0, <1>2 DEF TypeOK, Idle
<1>7. ~ClosesHandle(t) /\ ~ClosesHandle(t)' /\ \A u \in Threads \ {t} : ClosesHandle(u)' <=> ClosesHandle(u)
  BY <1>3, <1>6 DEF ClosesHandle, OthersStay
<1>8. \A u \in Threads : loc[u].op # "closeVolume"
  BY <1>0, <1>3 DEF Serial
<1>9. ~wiped /\ opened
  BY <1>3, <1>8 DEF DInv, KeysInv
<1>10. Serial'
  <2>1. \A u \in Threads \ {t} : loc'[u] = loc[u]
    BY DEF OthersStay
  <2>2. ASSUME NEW u \in Threads \ {t}, loc[u].op \in {"open", "truncate", "close"} PROVE loc[u].path # None
    <3>1. CallShape(u) /\ HandleUse(u)
      BY DEF IInv, DInv, CallsShaped
    <3> QED
      BY <2>2, <3>1, HandleTableAssumption DEF CallShape, HandleUse
  <2> QED
    BY <1>0, <1>6, <2>1, <2>2 DEF Serial
<1>11. HandlesStayValid'
  <2>1. ASSUME NEW h \in Handles, issued'[h] # None
        PROVE  /\ fileHandles'[h] # None /\ objects'[fileHandles'[h]].path = issued'[h]
               /\ objects'[fileHandles'[h]].fd # None
               /\ fdTable'[objects'[fileHandles'[h]].fd] = issued'[h]
    <3>1. CASE h = c
      BY <1>1, <1>2, <1>3, <1>5, <3>1, HandleTableAssumption DEF Objs, Fds
    <3>2. CASE h # c
      <4>1. /\ issued[h] # None /\ fileHandles[h] # None /\ objects[fileHandles[h]].path = issued[h]
            /\ objects[fileHandles[h]].fd # None /\ fdTable[objects[fileHandles[h]].fd] = issued[h]
        BY <1>5, <2>1, <3>2 DEF DInv, IssuedInv, HandlesStayValid, IsOpen, FileOf
      <4>2. fileHandles[h] \in Objs \ {o}
        BY <1>0, <1>1, <4>1 DEF TypeOK
      <4> QED
        BY <1>2, <1>5, <3>2, <4>1, <4>2
    <3> QED
      BY <3>1, <3>2
  <2> QED
    BY <2>1 DEF HandlesStayValid, IsOpen, FileOf
<1>12. IssuedInv'
  <2>1. \A g, h \in Handles : issued'[g] # None /\ issued'[g] = issued'[h] => g = h
    BY <1>3, <1>5 DEF DInv, IssuedInv
  <2>2. \A g, h \in Handles : fileHandles'[g] # None /\ fileHandles'[g] = fileHandles'[h] => g = h
    BY <1>1, <1>5 DEF DInv, IssuedInv
  <2>3. ASSUME NEW h \in Handles, fileHandles'[h] # None
        PROVE  issued'[h] # None \/ \E u \in Threads : ClosesHandle(u)' /\ loc'[u].hd = h
    <3>1. CASE h = c
      BY <1>3, <1>5, <3>1
    <3>2. CASE h # c
      <4>1. issued[h] # None \/ \E u \in Threads : ClosesHandle(u) /\ loc[u].hd = h
        BY <1>5, <2>3, <3>2 DEF DInv, IssuedInv
      <4> QED
        BY <1>5, <1>7, <3>2, <4>1 DEF OthersStay
    <3> QED
      BY <3>1, <3>2
  <2>4. \A u, v \in Threads : ClosesHandle(u)' /\ ClosesHandle(v)' /\ loc'[u].hd = loc'[v].hd => u = v
    BY <1>7 DEF DInv, IssuedInv, OthersStay
  <2> QED
    BY <1>11, <2>1, <2>2, <2>3, <2>4 DEF IssuedInv
<1>13. HandleUse(t)' /\ CloseUse(t)' /\ DataUse(t)'
  BY <1>6, IdleUse
<1>14. ASSUME NEW u \in Threads \ {t} PROVE HandleUse(u)' /\ CloseUse(u)' /\ DataUse(u)'
  <2>1. pc'[u] = pc[u] /\ loc'[u] = loc[u] /\ HandleUse(u) /\ CloseUse(u) /\ DataUse(u) /\ CallShape(u)
    BY DEF DInv, IInv, CallsShaped, OthersStay
  <2>2. loc[u].path # p
    BY <1>0, <1>3 DEF Serial
  <2>3. OnIssued(u) => /\ loc[u].hd \in Handles \ {c} /\ fileHandles[loc[u].hd] \in Objs \ {o}
                       /\ ~LooksUp(u) => loc[u].via = fileHandles[loc[u].hd]
    BY <1>1, <1>4, UsesFile
  <2>4. pc[u] \in {"t_size", "t_read", "t_cut"} => OnIssued(u) /\ ~LooksUp(u)
    BY <2>1 DEF CallShape, OnIssued, LooksUp, Resizing
  <2>5. HandleUse(u)'
    <3>1. loc[u].op \in {"open", "close"} => \A h \in Handles : issued'[h] # loc[u].path
      BY <1>5, <2>1, <2>2 DEF HandleUse
    <3>2. OnIssued(u) => issued'[loc[u].hd] = loc[u].path /\ fileHandles'[loc[u].hd] = fileHandles[loc[u].hd]
      BY <1>5, <2>1, <2>3 DEF HandleUse
    <3>3. pc[u] \in {"t_size", "t_read", "t_cut"} => loc[u].rawFd = objects'[loc[u].via].fd
      BY <1>5, <2>1, <2>3, <2>4 DEF HandleUse
    <3> QED
      BY <1>2, <2>1, <3>1, <3>2, <3>3 DEF HandleUse, OnIssued, LooksUp, Opening
  <2>6. ClosesHandle(u) => loc[u].hd \in Handles \ {c}
    <3>1. ClosesHandle(u) => loc[u].hd \in Handles
      BY HandleTyped DEF ClosesHandle, Leaving
    <3> QED
      BY <1>1, <2>1, <3>1 DEF CloseUse
  <2>7. CloseUse(u)'
    BY <1>5, <1>8, <2>1, <2>6 DEF CloseUse, ClosesHandle
  <2>8. DataUse(u)'
    BY <1>2, <2>1 DEF DataUse
  <2> QED
    BY <2>5, <2>7, <2>8
<1>15. KeysInv'
  BY <1>2, <1>9 DEF KeysInv
<1> QED
  BY <1>2, <1>10, <1>12, <1>13, <1>14, <1>15 DEF DInv

\* The calls of all threads are of the same operations, paths and handles as before.
LEMMA SerialStays ==
    ASSUME DInv, \A u \in Threads : loc'[u].op = loc[u].op /\ loc'[u].path = loc[u].path
    PROVE  Serial'
BY DEF DInv, Serial

\* Closing a File that the client has given up leaves all others open.
LEMMA CloseFdDiscipline ==
    ASSUME IInv, DInv, NEW t \in Threads, CloseFd(t), OthersStay(t)
    PROVE  DInv'
<1> DEFINE f == loc[t].via
           hd == loc[t].hd
           d == objects[f].fd
<1>0. TypeOK /\ CallShape(t) /\ CloseUse(t) /\ pc[t] = "c_close"
  BY DEF IInv, DInv, CallsShaped, CloseFd, Step
<1>1. /\ ClosesHandle(t) /\ hd \in Handles /\ issued[hd] = None /\ f \in Objs /\ fileHandles[hd] = f
  <2>1. ClosesHandle(t)
    BY <1>0 DEF CloseUse, ClosesHandle, Closing
  <2>2. hd \in Handles
    BY <1>0, HandleTyped DEF Leaving
  <2> QED
    BY <1>0, <2>1, <2>2 DEF CloseUse, CallShape, HasFdWriter, IInv, TableInv
<1>2. /\ fdTable' = [e \in Fds |-> IF e = d THEN None ELSE fdTable[e]]
      /\ objects' = [objects EXCEPT ![f].fd = None]
      /\ pc' = [pc EXCEPT ![t] = "c_delete"]
      /\ UNCHANGED <<loc, fileHandles, disk, opened, wiped, issued, alive>>
  BY DEF CloseFd, Step, clientVars
<1>3. /\ \A g \in Objs \ {f} : objects'[g] = objects[g]
      /\ \A g \in Objs \ {f} : objects[g].fd # None => objects[g].fd \in Fds /\ objects[g].fd # d
  BY <1>0, <1>1, <1>2 DEF TypeOK, IInv, FdInv, IsOpen
<1>4. \A h \in Handles : issued[h] # None => fileHandles[h] \in Objs \ {f}
  <2>1. \A h \in Handles : issued[h] # None => h # hd /\ fileHandles[h] \in Objs
    BY <1>0, <1>1 DEF DInv, IssuedInv, HandlesStayValid, TypeOK
  <2>2. \A h \in Handles : fileHandles[h] # None /\ fileHandles[h] = fileHandles[hd] => h = hd
    BY <1>1 DEF DInv, IssuedInv
  <2> QED
    BY <1>1, <2>1, <2>2, HandleTableAssumption DEF Objs
<1>5. \A u \in Threads : ClosesHandle(u)' <=> ClosesHandle(u)
  <2>1. pc'[t] = "c_delete"
    BY <1>0, <1>2 DEF TypeOK
  <2> QED
    BY <1>0, <1>2, <2>1 DEF ClosesHandle, OthersStay
<1>6. HandlesStayValid'
  <2>1. ASSUME NEW h \in Handles, issued[h] # None
        PROVE  /\ fileHandles[h] # None /\ objects'[fileHandles[h]].path = issued[h]
               /\ objects'[fileHandles[h]].fd # None
               /\ fdTable'[objects'[fileHandles[h]].fd] = issued[h]
    <3>1. /\ fileHandles[h] # None /\ objects[fileHandles[h]].path = issued[h]
          /\ objects[fileHandles[h]].fd # None /\ fdTable[objects[fileHandles[h]].fd] = issued[h]
      BY <2>1 DEF DInv, IssuedInv, HandlesStayValid, IsOpen, FileOf
    <3>2. objects'[fileHandles[h]] = objects[fileHandles[h]]
      BY <1>3, <1>4, <2>1
    <3>3. objects[fileHandles[h]].fd \in Fds /\ objects[fileHandles[h]].fd # d
      BY <1>3, <1>4, <2>1, <3>1
    <3> QED
      BY <1>2, <3>1, <3>2, <3>3
  <2> QED
    BY <1>2, <2>1 DEF HandlesStayValid, IsOpen, FileOf
<1>7. IssuedInv'
  BY <1>2, <1>5, <1>6 DEF DInv, IssuedInv
<1>8. ASSUME NEW u \in Threads PROVE HandleUse(u)' /\ CloseUse(u)' /\ DataUse(u)'
  <2>1. /\ loc'[u] = loc[u] /\ HandleUse(u) /\ CloseUse(u) /\ DataUse(u) /\ CallShape(u)
        /\ \/ pc'[u] = pc[u]
           \/ u = t /\ pc[u] = "c_close" /\ pc'[u] = "c_delete"
    BY <1>0, <1>2 DEF DInv, IInv, CallsShaped, TypeOK
  <2>2. pc[u] \in {"t_size", "t_read", "t_cut"} => objects'[loc[u].via] = objects[loc[u].via]
    <3>1. ASSUME pc[u] \in {"t_size", "t_read", "t_cut"} PROVE loc[u].via \in Objs \ {f}
      <4>1. OnIssued(u) /\ ~LooksUp(u)
        BY <2>1, <3>1 DEF CallShape, OnIssued, LooksUp, Resizing
      <4> QED
        BY <4>1, <1>4, UsesFile
    <3> QED
      BY <1>3, <3>1
  <2>3. pc[u] \in Opening => fdTable'[loc[u].rawFd] = fdTable[loc[u].rawFd]
    BY <1>1, <1>2, <2>1 DEF IInv, FdInv, CallShape
  <2>4. HandleUse(u)'
    BY <1>2, <2>1, <2>2, <2>3 DEF HandleUse, OnIssued, LooksUp, Opening
  <2>5. CloseUse(u)' /\ DataUse(u)'
    BY <1>2, <1>5, <2>1 DEF CloseUse, DataUse, Closing, Leaving, Resizing, ClosesHandle
  <2> QED
    BY <2>4, <2>5
<1>9. KeysInv'
  BY <1>2 DEF DInv, KeysInv
<1>10. Serial'
  BY <1>2, SerialStays
<1> QED
  BY <1>2, <1>7, <1>8, <1>9, <1>10 DEF DInv

\* The handle of a closed File leaves the table; nobody else uses it.
LEMMA CloseDeleteDiscipline ==
    ASSUME IInv, DInv, NEW t \in Threads, CloseDelete(t), OthersStay(t)
    PROVE  DInv'
<1> DEFINE hd == loc[t].hd
<1>0. TypeOK /\ CallShape(t) /\ CloseUse(t) /\ pc[t] = "c_delete"
  BY DEF IInv, DInv, CallsShaped, CloseDelete, Step
<1>1. ClosesHandle(t) /\ hd \in Handles /\ issued[hd] = None /\ loc[t].op = "close"
  <2>1. ClosesHandle(t)
    BY <1>0 DEF CloseUse, ClosesHandle, Closing
  <2>2. hd \in Handles
    BY <1>0, HandleTyped DEF Leaving
  <2> QED
    BY <1>0, <2>1, <2>2 DEF CloseUse, ClosesHandle
<1>2. /\ fileHandles' = [fileHandles EXCEPT ![hd] = None]
      /\ pc' = [pc EXCEPT ![t] = "c_unlock"]
      /\ UNCHANGED <<loc, objects, fdTable, disk, opened, wiped, issued, alive>>
  BY DEF CloseDelete, Step, clientVars, osVars
<1>3. fileHandles'[hd] = None /\ \A h \in Handles \ {hd} : fileHandles'[h] = fileHandles[h]
  BY <1>0, <1>1, <1>2 DEF TypeOK
<1>4. pc'[t] = "c_unlock"
  BY <1>0, <1>2 DEF TypeOK
<1>5. ~ClosesHandle(t)' /\ \A u \in Threads \ {t} : ClosesHandle(u)' <=> ClosesHandle(u)
  BY <1>2, <1>4 DEF ClosesHandle, OthersStay
<1>6. HandlesStayValid'
  BY <1>1, <1>2, <1>3 DEF DInv, IssuedInv, HandlesStayValid, IsOpen, FileOf
<1>7. IssuedInv'
  <2>1. ASSUME NEW h \in Handles, fileHandles'[h] # None
        PROVE  issued'[h] # None \/ \E u \in Threads : ClosesHandle(u)' /\ loc'[u].hd = h
    <3>1. h # hd /\ (issued[h] # None \/ \E u \in Threads : ClosesHandle(u) /\ loc[u].hd = h)
      BY <1>3, <2>1 DEF DInv, IssuedInv
    <3> QED
      BY <1>2, <1>5, <3>1
  <2>2. \A g, h \in Handles : fileHandles'[g] # None /\ fileHandles'[g] = fileHandles'[h] => g = h
    BY <1>3 DEF DInv, IssuedInv
  <2>3. \A u, v \in Threads : ClosesHandle(u)' /\ ClosesHandle(v)' /\ loc'[u].hd = loc'[v].hd => u = v
    BY <1>2, <1>5 DEF DInv, IssuedInv
  <2>4. \A g, h \in Handles : issued'[g] # None /\ issued'[g] = issued'[h] => g = h
    BY <1>2 DEF DInv, IssuedInv
  <2> QED
    BY <1>6, <2>1, <2>2, <2>3, <2>4 DEF IssuedInv
<1>8. ASSUME NEW u \in Threads PROVE HandleUse(u)' /\ CloseUse(u)' /\ DataUse(u)'
  <2>1. /\ loc'[u] = loc[u] /\ HandleUse(u) /\ CloseUse(u) /\ DataUse(u) /\ CallShape(u)
        /\ \/ pc'[u] = pc[u] /\ u # t
           \/ u = t /\ pc[u] = "c_delete" /\ pc'[u] = "c_unlock"
    BY <1>0, <1>2, <1>4 DEF DInv, IInv, CallsShaped, TypeOK
  <2>2. OnIssued(u) => fileHandles'[loc[u].hd] = fileHandles[loc[u].hd]
    <3>1. OnIssued(u) => loc[u].hd \in Handles /\ loc[u].hd # hd
      BY <1>1, UsesFile
    <3> QED
      BY <1>3, <3>1
  <2>3. HandleUse(u)'
    BY <1>1, <1>2, <2>1, <2>2 DEF HandleUse, OnIssued, LooksUp, Opening
  <2>4. ClosesHandle(u)' => fileHandles'[loc[u].hd] = fileHandles[loc[u].hd]
    <3>1. ClosesHandle(u)' => ClosesHandle(u) /\ loc[u].hd \in Handles /\ loc[u].hd # hd
      <4>1. ClosesHandle(u) => loc[u].hd \in Handles
        BY HandleTyped DEF ClosesHandle, Leaving
      <4> QED
        BY <1>1, <1>5, <4>1 DEF DInv, IssuedInv
    <3> QED
      BY <1>3, <3>1
  <2>5. loc[u].op # "closeVolume"
    <3>1. u = t => loc[u].op # "closeVolume"
      BY <1>1
    <3> QED
      BY <1>1, <3>1 DEF DInv, Serial
  <2>6. CloseUse(u)'
    BY <1>2, <1>5, <2>1, <2>4, <2>5 DEF CloseUse, Closing, Leaving, ClosesHandle
  <2>7. DataUse(u)'
    BY <1>2, <2>1 DEF DataUse, Resizing
  <2> QED
    BY <2>3, <2>6, <2>7
<1>9. KeysInv'
  BY <1>2 DEF DInv, KeysInv
<1>10. Serial'
  BY <1>2, SerialStays
<1> QED
  BY <1>2, <1>7, <1>8, <1>9, <1>10 DEF DInv

\* A truncate finds the one handle that the client has of the path.
LEMMA FindDiscipline ==
    ASSUME IInv, DInv, NEW t \in Threads, FindByPath(t), OthersStay(t)
    PROVE  DInv'
<1>0. TypeOK /\ CallShape(t) /\ HandleUse(t) /\ CloseUse(t) /\ DataUse(t) /\ Serial /\ pc[t] = "t_find"
  BY DEF IInv, DInv, CallsShaped, FindByPath, Step
<1>1. PICK h \in Handles : /\ fileHandles[h] # None /\ objects[fileHandles[h]].path = loc[t].path
                           /\ loc' = [loc EXCEPT ![t].hd = h]
  BY DEF FindByPath
<1>2. /\ pc' = [pc EXCEPT ![t] = "t_lookup"]
      /\ UNCHANGED <<fileHandles, objects, fdTable, disk, opened, wiped, issued, alive>>
  BY DEF FindByPath, Step, tableVars, osVars, clientVars
<1>3. pc'[t] = "t_lookup" /\ loc'[t] = [loc[t] EXCEPT !.hd = h] /\ loc[t] \in Local
  BY <1>0, <1>1, <1>2 DEF TypeOK
<1>4. /\ loc'[t].hd = h /\ loc'[t].op = loc[t].op /\ loc'[t].path = loc[t].path /\ loc'[t].val = loc[t].val
      /\ loc[t].op = "truncate" /\ loc[t].path \in Paths
  BY <1>0, <1>3 DEF Local, CallShape, Resizing
<1>5. issued[h] = loc[t].path
  <2>1. \A u \in Threads : ~ClosesHandle(u)
    BY <1>0, <1>4 DEF Serial, ClosesHandle
  <2> QED
    BY <1>1, <2>1 DEF DInv, IssuedInv, HandlesStayValid
<1>6. \A u \in Threads : /\ loc'[u].op = loc[u].op /\ loc'[u].path = loc[u].path
                         /\ ClosesHandle(u)' <=> ClosesHandle(u)
                         /\ ClosesHandle(u) => loc'[u].hd = loc[u].hd
  BY <1>4 DEF OthersStay, ClosesHandle
<1>7. Serial'
  BY <1>6, SerialStays
<1>8. IssuedInv'
  BY <1>2, <1>6 DEF DInv, IssuedInv, HandlesStayValid, IsOpen, FileOf
<1>9. HandleUse(t)' /\ CloseUse(t)' /\ DataUse(t)'
  BY <1>0, <1>2, <1>3, <1>4, <1>5
     DEF HandleUse, CloseUse, DataUse, ClosesHandle, OnIssued, LooksUp, Opening, Closing, Resizing
<1>10. ASSUME NEW u \in Threads \ {t} PROVE HandleUse(u)' /\ CloseUse(u)' /\ DataUse(u)'
  <2>1. pc'[u] = pc[u] /\ loc'[u] = loc[u] /\ HandleUse(u) /\ CloseUse(u) /\ DataUse(u)
    BY DEF DInv, OthersStay
  <2> QED
    BY <1>2, <2>1 DEF HandleUse, CloseUse, DataUse, ClosesHandle, OnIssued, LooksUp
<1>11. KeysInv'
  BY <1>2, <1>6 DEF DInv, KeysInv
<1> QED
  BY <1>2, <1>7, <1>8, <1>9, <1>10, <1>11 DEF DInv

\* gcf_close ends, and with it every use of the volume.
LEMMA ForgetDiscipline ==
    ASSUME IInv, DInv, NEW t \in Threads, ForgetVolume(t), OthersStay(t)
    PROVE  DInv'
<1>0. TypeOK /\ CallShape(t) /\ CloseUse(t) /\ Serial /\ pc[t] = "v_end"
  BY DEF IInv, DInv, CallsShaped, ForgetVolume, Return, Step
<1>1. loc[t].op = "closeVolume" /\ wiped
  BY <1>0 DEF CallShape, CloseUse, Leaving
<1>2. /\ \A u \in Threads \ {t} : loc[u].op = "none"
      /\ \A h \in Handles : issued[h] = None /\ fileHandles[h] = None
  BY <1>0, <1>1 DEF Serial, CloseUse
<1>3. /\ pc' = [pc EXCEPT ![t] = "idle"] /\ loc' = [loc EXCEPT ![t] = Idle] /\ opened' = FALSE
      /\ UNCHANGED <<fileHandles, objects, fdTable, disk, wiped, issued, alive>>
  BY DEF ForgetVolume, Return, Step, tableVars, osVars
<1>4. \A u \in Threads : pc'[u] = "idle" /\ loc'[u] = Idle
  <2>1. \A u \in Threads \ {t} : pc'[u] = "idle" /\ loc'[u] = Idle
    BY <1>2, NoCall DEF OthersStay
  <2>2. pc'[t] = "idle" /\ loc'[t] = Idle
    BY <1>0, <1>3 DEF TypeOK
  <2> QED
    BY <2>1, <2>2
<1>5. \A u \in Threads : HandleUse(u)' /\ CloseUse(u)' /\ DataUse(u)' /\ ~ClosesHandle(u)'
  BY <1>4, IdleUse
<1>6. Idle.op = "none"
  BY DEF Idle
<1> QED
  BY <1>1, <1>2, <1>3, <1>4, <1>5, <1>6 DEF DInv, Serial, IssuedInv, HandlesStayValid, KeysInv

\* A thread that changes a file changes the one of its path.
LEMMA ChangesOwn ==
    ASSUME IInv, DInv, NEW t \in Threads, pc[t] \in Changing
    PROVE  /\ OnIssued(t) /\ loc[t].path \in Paths /\ loc[t].path # None
           /\ FileOf(loc[t].via) = loc[t].path /\ IsOpen(loc[t].via)
           /\ pc[t] = "t_cut" => RawFile(t) = loc[t].path
<1>1. CallShape(t) /\ HandleUse(t)
  BY DEF IInv, DInv, CallsShaped
<1>2. OnIssued(t) /\ ~LooksUp(t)
  BY <1>1 DEF CallShape, OnIssued, LooksUp, Changing, Writing, Resizing
<1>3. /\ loc[t].path \in Paths /\ loc[t].path # None
      /\ FileOf(loc[t].via) = loc[t].path /\ IsOpen(loc[t].via)
  BY <1>2, UsesFile
<1>4. pc[t] = "t_cut" => RawFile(t) = loc[t].path
  BY <1>1, <1>3 DEF HandleUse, RawFile, FileOf, IsOpen
<1> QED
  BY <1>2, <1>3, <1>4

\* The writes to a file, by doWrite and by truncate.
LEMMA ChangeDiscipline ==
    ASSUME IInv, DInv, NEW t \in Threads, OthersStay(t),
           WriteOut(t) \/ GrowByTruncate(t) \/ CutByRawFd(t)
    PROVE  DInv'
<1> DEFINE p == loc[t].path
<1>0. /\ CallShape(t) /\ HandleUse(t) /\ CloseUse(t) /\ DataUse(t) /\ TypeOK
      /\ pc \in [Threads -> Locations] /\ loc \in [Threads -> Local]
      /\ pc[t] \in Changing
  BY DEF IInv, DInv, CallsShaped, TypeOK, WriteOut, GrowByTruncate, CutByRawFd, Return, Step, Changing
<1>1. /\ OnIssued(t) /\ p \in Paths /\ FileOf(loc[t].via) = p
      /\ pc[t] = "t_cut" => RawFile(t) = p
  BY <1>0, ChangesOwn
<1>2. SharedStays(t)
  <2>1. \A q \in Paths : q # p => disk'[q] = disk[q]
    BY <1>0, <1>1 DEF WriteOut, GrowByTruncate, CutByRawFd, Return, Step, TypeOK
  <2> QED
    BY <1>0, <2>1 DEF SharedStays, WriteOut, GrowByTruncate, CutByRawFd, tableVars, clientVars
<1>3. CASE WriteOut(t)
  <2>1. pc'[t] = "io_done" /\ loc'[t] = loc[t] /\ pc[t] = "w_out"
    BY <1>0, <1>3 DEF WriteOut, Step
  <2>2. GoesOn(t)
    BY <2>1 DEF GoesOn, ClosesHandle
  <2>3. HandleUse(t)' /\ CloseUse(t)' /\ DataUse(t)'
    BY <1>0, <1>2, <2>1 DEF SharedStays, CallShape, Writing, HandleUse, CloseUse, DataUse, OnIssued,
                       LooksUp, ClosesHandle, Opening, Closing, Resizing
  <2> QED
    BY <1>2, <2>2, <2>3, OwnStep
<1>4. CASE GrowByTruncate(t)
  <2>1. loc[t].op = "truncate"
    BY <1>0, <1>4 DEF GrowByTruncate, Return, Step, CallShape, Resizing
  <2>2. Returns(t)
    BY <1>4, <2>1, ReturnEnds DEF GrowByTruncate
  <2> QED
    BY <1>2, <2>2, OwnStep DEF GoesOn, Returns
<1>5. CASE CutByRawFd(t)
  <2>1. loc[t].op = "truncate"
    BY <1>0, <1>5 DEF CutByRawFd, Return, Step, CallShape, Resizing
  <2>2. CASE Return(t, "t_cut")
    <3>1. Returns(t)
      BY <2>1, <2>2, ReturnEnds
    <3> QED
      BY <1>2, <3>1, OwnStep DEF GoesOn, Returns
  <2>3. CASE Step(t, "t_cut", "w_again") /\ loc' = [loc EXCEPT ![t].pos = 1, ![t].val = loc[t].buf[1]]
    <3>1. pc'[t] = "w_again" /\ loc'[t] = [loc[t] EXCEPT !.pos = 1, !.val = loc[t].buf[1]] /\ pc[t] = "t_cut"
      BY <1>0, <2>3 DEF Step
    <3>2. /\ loc'[t].op = loc[t].op /\ loc'[t].path = loc[t].path /\ loc'[t].hd = loc[t].hd
          /\ loc'[t].file = loc[t].file /\ loc'[t].via = loc[t].via
      BY <1>0, <3>1 DEF Local
    <3>3. GoesOn(t)
      BY <3>1, <3>2 DEF GoesOn, ClosesHandle
    <3>4. HandleUse(t)' /\ CloseUse(t)' /\ DataUse(t)'
      BY <1>0, <1>2, <2>1, <3>1, <3>2
         DEF SharedStays, HandleUse, CloseUse, DataUse, OnIssued, LooksUp, ClosesHandle, Opening,
             Closing, Resizing
    <3> QED
      BY <1>2, <3>3, <3>4, OwnStep
  <2> QED
    BY <1>5, <2>2, <2>3 DEF CutByRawFd
<1> QED
  BY <1>3, <1>4, <1>5

-----------------------------------------------------------------------------
(* Every step                                                              *)

\* The File of a call on an issued handle is open, whatever a UseClosedFile could meet.
LEMMA FileIsOpen ==
    ASSUME IInv, DInv, NEW t \in Threads
    PROVE  ~UseClosedFile(t)
<1> SUFFICES ASSUME UseClosedFile(t) PROVE FALSE
  OBVIOUS
<1>1. /\ pc[t] \in {"r_read", "w_header", "w_readback", "w_out", "t_read", "t_grow"}
      /\ ~IsOpen(loc[t].via) /\ CallShape(t)
  BY DEF UseClosedFile, IInv, CallsShaped
<1>2. OnIssued(t) /\ ~LooksUp(t)
  BY <1>1 DEF CallShape, OnIssued, LooksUp, Reading, Writing, Resizing
<1> QED
  BY <1>1, <1>2, UsesFile

\* What a disciplined client never meets.
LEMMA Never ==
    ASSUME IInv, DInv, Careful, NEW t \in Threads
    PROVE  /\ ~WriteNoSpace(t) /\ ~HeaderNoSpace(t)
           /\ ~NilFile(t) /\ ~NoKeys(t) /\ ~MapRace(t) /\ ~NoBlocks(t) /\ ~WipeTwice(t)
<1>1. ~WriteNoSpace(t) /\ ~HeaderNoSpace(t)
  BY DEF Careful, WriteNoSpace, HeaderNoSpace
<1>2. ~NilFile(t) /\ ~NoKeys(t) /\ ~MapRace(t)
  BY Excluded DEF NilFile, NoKeys, MapRace
<1>3. ~NoBlocks(t)
  <2> SUFFICES ASSUME pc[t] = "t_cut", loc[t].pos > 0, loc[t].buf = << >> PROVE FALSE
    BY DEF NoBlocks
  <2>1. CallShape(t) /\ DataUse(t) /\ loc[t] \in Local
    BY DEF IInv, DInv, CallsShaped, TypeOK
  <2>2. OnIssued(t)
    BY <2>1 DEF CallShape, OnIssued, Resizing
  <2>3. disk[loc[t].path] \in Content
    BY <2>2, UsesFile
  <2>4. loc[t].pos \in 1..2 /\ loc[t].pos < Len(disk[loc[t].path])
        /\ loc[t].buf = SubSeq(disk[loc[t].path], 1, loc[t].pos)
    BY <2>1, <2>2 DEF CallShape, DataUse, Local, Resizing
  <2> QED
    BY <2>3, <2>4, WholeContent
<1>4. ~WipeTwice(t)
  <2> SUFFICES ASSUME WipeTwice(t) PROVE FALSE
    OBVIOUS
  <2>1. opened /\ wiped /\ ~Conflicts("closeVolume", None)
    BY DEF WipeTwice, Careful
  <2>2. PICK u \in Threads : loc[u].op = "closeVolume"
    BY <2>1 DEF DInv, KeysInv
  <2>3. u \in Busy
    BY <2>2, NoCall DEF Busy
  <2> QED
    BY <2>1, <2>2, <2>3 DEF Conflicts
<1> QED
  BY <1>1, <1>2, <1>3, <1>4

\* One case per action.
LEMMA DInvStep ==
    ASSUME IInv, DInv, Careful, NEW t \in Threads, Call(t) \/ Continue(t), OthersStay(t)
    PROVE  DInv'
<1>1. CASE Call(t)
  BY <1>1, UseBegins, OpenFileDiscipline, CloseFileDiscipline, CloseVolumeDiscipline, Never DEF Call
<1>2. CASE RegisterFileHandle(t)
  BY <1>2, RegisterDiscipline
<1>3. CASE WriteOut(t) \/ GrowByTruncate(t) \/ CutByRawFd(t)
  BY <1>3, ChangeDiscipline
<1>4. CASE CloseFd(t)
  BY <1>4, CloseFdDiscipline
<1>5. CASE CloseDelete(t)
  BY <1>5, CloseDeleteDiscipline
<1>6. CASE FindByPath(t)
  BY <1>6, FindDiscipline
<1>7. CASE ForgetVolume(t)
  BY <1>7, ForgetDiscipline
<1>8. CASE \/ RegisterLock(t)
           \/ LookupFile(t, "r_lookup", "r_fdlock") \/ LockFd(t, "r_fdlock", "r_contentlock")
           \/ LockContentShared(t) \/ DoRead(t, "r_read", "io_done", 2) \/ FinishIO(t)
           \/ LookupFile(t, "w_lookup", "w_fdlock") \/ LockFd(t, "w_fdlock", "w_contentlock")
           \/ AnnounceContent(t) \/ AcquireContent(t)
           \/ LookupAgain(t, "w_again", "w_header") \/ GetFileID(t)
           \/ DoRead(t, "w_readback", "w_out", 2)
           \/ CloseLockHandles(t) \/ CloseAnnounceFd(t) \/ CloseUnlockFd(t)
           \/ NotFoundByPath(t) \/ LookupFile(t, "t_lookup", "t_fd")
           \/ TakeRawFd(t) \/ CompareSize(t) \/ LookupAgain(t, "t_again", "t_grow")
           \/ DoRead(t, "t_read", "t_cut", loc[t].pos)
           \/ CutFails(t) \/ ListHandles(t) \/ CloseNext(t)
  BY <1>8, WithinCall
<1> QED
  BY <1>1, <1>2, <1>3, <1>4, <1>5, <1>6, <1>7, <1>8, Never, FileIsOpen DEF Continue

\* The invariant holds of a volume that was just opened.
LEMMA DInvInit == Init => DInv
<1> SUFFICES ASSUME Init PROVE DInv
  OBVIOUS
<1>1. \A t \in Threads : pc[t] = "idle" /\ loc[t] = Idle
  BY DEF Init
<1>2. Idle.op = "none"
  BY DEF Idle
<1>3. \A h \in Handles : issued[h] = None /\ fileHandles[h] = None
  BY DEF Init
<1>4. \A t \in Threads : HandleUse(t) /\ CloseUse(t) /\ DataUse(t) /\ ~ClosesHandle(t)
  BY <1>1, <1>2 DEF HandleUse, CloseUse, DataUse, ClosesHandle, OnIssued, Opening, Closing, Resizing
<1> QED
  BY <1>1, <1>2, <1>3, <1>4 DEF Init, DInv, Serial, IssuedInv, HandlesStayValid, KeysInv

\* Both invariants together are inductive.
LEMMA DInvNext == ASSUME Careful PROVE IInv /\ DInv /\ [Next]_vars => IInv' /\ DInv'
<1> SUFFICES ASSUME IInv, DInv, [Next]_vars PROVE IInv' /\ DInv'
  OBVIOUS
<1>1. IInv'
  BY IInvNext
<1>2. CASE Next
  <2>1. PICK t \in Threads : Call(t) \/ Continue(t)
    BY <1>2 DEF Next
  <2>2. OthersStay(t)
    BY <2>1, IInvStep
  <2> QED
    BY <1>1, <2>1, <2>2, DInvStep
<1>3. CASE UNCHANGED vars
  <2> USE <1>3 DEF vars, threadVars, lockVars, tableVars, osVars, clientVars, DInv
  <2>1. Serial' /\ KeysInv'
    BY DEF Serial, KeysInv
  <2>2. IssuedInv'
    BY DEF IssuedInv, HandlesStayValid, IsOpen, FileOf, ClosesHandle
  <2>3. \A t \in Threads : HandleUse(t)' /\ CloseUse(t)' /\ DataUse(t)'
    BY DEF HandleUse, CloseUse, DataUse, ClosesHandle, OnIssued, LooksUp
  <2> QED
    BY <1>1, <2>1, <2>2, <2>3
<1> QED
  BY <1>2, <1>3

\* They hold in every state a disciplined client reaches.
LEMMA DInvAlways == ASSUME Careful PROVE Spec => [](IInv /\ DInv)
  BY IInvInit, DInvInit, DInvNext, PTL DEF Spec

\* The handle a disciplined client holds is the file it opened, and that file is open, until the
\* client closes it (registerFileHandle, gcf_close_file).
THEOREM HandlesAreValid == ASSUME Careful PROVE Spec => []HandlesStayValid
<1>1. IInv /\ DInv => HandlesStayValid
  BY DEF DInv, IssuedInv
<1> QED
  BY <1>1, DInvAlways, PTL

\* No call of a disciplined client panics: no lookup gives nil, no cipher is gone, no map is read
\* while it changes, and doWrite is never without data.
THEOREM NeverCrashes == ASSUME Careful PROVE Spec => []NoCrash
<1>1. IInv /\ DInv => NoCrash
  BY DEF DInv, NoCrash
<1> QED
  BY <1>1, DInvAlways, PTL

-----------------------------------------------------------------------------
(* The library is a FileStore                                              *)

\* Thread t is about to write the last block of a file that counts as resized.
IsTruncating(t, p) == pc[t] \in Writing /\ loc[t].op = "truncate" /\ loc[t].path = p

\* The content of each file as its readers and writers see it.
ContentIs ==
    /\ AbstractContent = [p \in Paths |-> AbstractContent[p]]
    /\ \A p \in Paths :
        /\ (\A t \in Threads : ~IsTruncating(t, p)) => AbstractContent[p] = disk[p]
        /\ \A t \in Threads : IsTruncating(t, p) =>
              AbstractContent[p] = Merge(disk[p], loc[t].pos, loc[t].val)

\* At most one call at a time truncates a file.
LEMMA ContentState == IInv /\ DInv => ContentIs
<1> SUFFICES ASSUME IInv, DInv PROVE ContentIs
  OBVIOUS
<1>1. \A p \in Paths, t \in Threads : t \in Truncating(p) <=> IsTruncating(t, p)
  BY DEF Truncating, Calling, Busy, IsTruncating, Writing
<1>2. ASSUME NEW p \in Paths, \A t \in Threads : ~IsTruncating(t, p) PROVE AbstractContent[p] = disk[p]
  <2>1. Truncating(p) \subseteq Threads
    BY DEF Truncating, Calling, Busy
  <2>2. Truncating(p) = {}
    BY <1>1, <1>2, <2>1
  <2> QED
    BY <2>2 DEF AbstractContent
<1>3. ASSUME NEW p \in Paths, NEW t \in Threads, IsTruncating(t, p)
      PROVE  AbstractContent[p] = Merge(disk[p], loc[t].pos, loc[t].val)
  <2>1. Truncating(p) \subseteq Threads
    BY DEF Truncating, Calling, Busy
  <2>2. \A u \in Threads : IsTruncating(u, p) => u = t
    BY <1>3 DEF DInv, Serial, IsTruncating
  <2>3. Truncating(p) = {t}
    BY <1>1, <1>3, <2>1, <2>2
  <2>4. (CHOOSE u \in Truncating(p) : TRUE) = t
    BY <2>3
  <2> QED
    BY <2>3, <2>4 DEF AbstractContent
<1>4. AbstractContent = [p \in Paths |-> AbstractContent[p]]
  BY DEF AbstractContent
<1> QED
  BY <1>2, <1>3, <1>4 DEF ContentIs

\* The same after a step.
LEMMA ContentPrimed == IInv' /\ DInv' => ContentIs'
  BY ContentState, PTL

\* A step of thread t leaves the content of a file alone that it does not write or truncate.
LEMMA ContentFrame ==
    ASSUME ContentIs, ContentIs', NEW t \in Threads, OthersStay(t), NEW p \in Paths,
           disk'[p] = disk[p],
           \/ ~IsTruncating(t, p) /\ ~IsTruncating(t, p)'
           \/ /\ IsTruncating(t, p) /\ IsTruncating(t, p)'
              /\ loc'[t].pos = loc[t].pos /\ loc'[t].val = loc[t].val
    PROVE  AbstractContent'[p] = AbstractContent[p]
<1>1. \A u \in Threads \ {t} : (IsTruncating(u, p)' <=> IsTruncating(u, p)) /\ loc'[u] = loc[u]
  BY DEF OthersStay, IsTruncating
<1>2. CASE \E u \in Threads : IsTruncating(u, p)
  <2>1. PICK u \in Threads : IsTruncating(u, p)
    BY <1>2
  <2>2. IsTruncating(u, p)' /\ loc'[u].pos = loc[u].pos /\ loc'[u].val = loc[u].val
    BY <1>1, <2>1
  <2>3. AbstractContent[p] = Merge(disk[p], loc[u].pos, loc[u].val)
    BY <2>1 DEF ContentIs
  <2>4. AbstractContent'[p] = Merge(disk'[p], loc'[u].pos, loc'[u].val)
    BY <2>2 DEF ContentIs, Merge
  <2> QED
    BY <2>2, <2>3, <2>4
<1>3. CASE \A u \in Threads : ~IsTruncating(u, p)
  <2>1. \A u \in Threads : ~IsTruncating(u, p)'
    BY <1>1, <1>3
  <2> QED
    BY <1>3, <2>1 DEF ContentIs
<1> QED
  BY <1>2, <1>3

\* A step that leaves the contents and the handles alone is none of the store.
LEMMA StoreStutter ==
    ASSUME ContentIs, ContentIs', NEW t \in Threads, OthersStay(t), UNCHANGED <<disk, issued>>,
           \A p \in Paths :
               \/ ~IsTruncating(t, p) /\ ~IsTruncating(t, p)'
               \/ /\ IsTruncating(t, p) /\ IsTruncating(t, p)'
                  /\ loc'[t].pos = loc[t].pos /\ loc'[t].val = loc[t].val
    PROVE  UNCHANGED Store!vars
<1>1. \A p \in Paths : AbstractContent'[p] = AbstractContent[p]
  BY ContentFrame
<1>2. AbstractContent' = AbstractContent
  BY <1>1 DEF ContentIs
<1> QED
  BY <1>2 DEF Store!vars

\* A step of thread t on the content of file p.
LEMMA ContentStep ==
    ASSUME ContentIs, ContentIs', NEW t \in Threads, OthersStay(t), NEW p \in Paths,
           loc[t].path = p, loc'[t].path \in {p, None},
           \A q \in Paths : q # p => disk'[q] = disk[q],
           NEW c, AbstractContent'[p] = c
    PROVE  AbstractContent' = [AbstractContent EXCEPT ![p] = c]
<1>1. ASSUME NEW q \in Paths, q # p PROVE AbstractContent'[q] = AbstractContent[q]
  <2>1. ~IsTruncating(t, q) /\ ~IsTruncating(t, q)'
    BY <1>1, HandleTableAssumption DEF IsTruncating
  <2> QED
    BY <1>1, <2>1, ContentFrame
<1> QED
  BY <1>1 DEF ContentIs

\* MergeBlocks is what a write, or a resize to a larger size, promises.
LEMMA MergeIsPut ==
    ASSUME NEW c \in Content, NEW k \in 1..2, NEW v \in Values
    PROVE  /\ Merge(c, k, v) = Store!Put(c, k, v)
           /\ k > Len(c) /\ v = Zero => Merge(c, k, v) = Store!Resized(c, k)
<1>1. c \in Seq(Values) /\ Len(c) \in Nat /\ DOMAIN c = 1..Len(c)
  <2>1. c \in Seq(Values)
    BY DEF Content
  <2> QED
    BY <2>1, LenProperties
<1>2. 1..(IF Len(c) < k THEN k ELSE Len(c)) = (DOMAIN c) \cup 1..k
  <2>1. CASE Len(c) < k
    BY <1>1, <2>1
  <2>2. CASE ~(Len(c) < k)
    BY <1>1, <2>2
  <2> QED
    BY <2>1, <2>2
<1>3. \A i \in (DOMAIN c) \cup 1..k : i \in DOMAIN c <=> i <= Len(c)
  BY <1>1
<1>4. Merge(c, k, v) = Store!Put(c, k, v)
  BY <1>2, <1>3 DEF Merge, Store!Put
<1>5. ASSUME k > Len(c), v = Zero PROVE Merge(c, k, v) = Store!Resized(c, k)
  <2>1. 1..(IF Len(c) < k THEN k ELSE Len(c)) = 1..k
    BY <1>1, <1>5
  <2>2. \A i \in 1..k : (i \in DOMAIN c <=> i <= Len(c)) /\ (i = k => i \notin DOMAIN c)
    BY <1>1, <1>5
  <2> QED
    BY <1>5, <2>1, <2>2 DEF Merge, Store!Resized
<1> QED
  BY <1>4, <1>5

\* What ftruncate makes of a file is what a resize promises.
LEMMA ResizedIs ==
    /\ <<Zero, Zero>> = Store!Resized(<< >>, 2)
    /\ \A c \in Content : /\ << >> = Store!Resized(c, 0)
                          /\ Len(c) = 2 => Merge(<< >>, 1, c[1]) = Store!Resized(c, 1)
<1>1. <<Zero, Zero>> = Store!Resized(<< >>, 2)
  BY DEF Store!Resized
<1>2. ASSUME NEW c \in Content PROVE << >> = Store!Resized(c, 0)
  BY DEF Store!Resized
<1>3. ASSUME NEW c \in Content, Len(c) = 2 PROVE Merge(<< >>, 1, c[1]) = Store!Resized(c, 1)
  <2>1. c \in Seq(Values) /\ DOMAIN c = 1..2
    <3>1. c \in Seq(Values)
      BY DEF Content
    <3> QED
      BY <1>3, <3>1, LenProperties
  <2>2. Merge(<< >>, 1, c[1]) = [i \in 1..1 |-> c[1]]
    BY DEF Merge
  <2>3. Store!Resized(c, 1) = [i \in 1..1 |-> c[1]]
    BY <2>1 DEF Store!Resized
  <2> QED
    BY <2>2, <2>3
<1> QED
  BY <1>1, <1>2, <1>3

\* A registered handle is an open one, which nobody had.
LEMMA RegisterStore ==
    ASSUME IInv, DInv, ContentIs, ContentIs', NEW t \in Threads, OthersStay(t), RegisterFileHandle(t)
    PROVE  Store!Next
<1> DEFINE c == Lowest(FreeHandles)
<1>1. /\ pc[t] = "o_insert" /\ loc'[t] = Idle /\ pc'[t] = "idle"
      /\ c \in Handles /\ fileHandles[c] = None
      /\ issued' = [issued EXCEPT ![c] = loc[t].path] /\ UNCHANGED disk
  BY LowestHandle DEF RegisterFileHandle, Return, Step, FreeHandles, IInv, TypeOK, osVars
<1>2. loc[t].path \in Paths
  BY <1>1 DEF IInv, CallsShaped, CallShape, Opening
<1>3. issued[c] = None
  BY <1>1 DEF DInv, IssuedInv, HandlesStayValid
<1>4. \A p \in Paths : AbstractContent'[p] = AbstractContent[p]
  BY <1>1, ContentFrame DEF IsTruncating, Writing
<1>5. AbstractContent' = AbstractContent
  BY <1>4 DEF ContentIs
<1> HIDE DEF c
<1>6. Store!Open(c, loc[t].path)
  BY <1>1, <1>3, <1>5 DEF Store!Open
<1> QED
  BY <1>1, <1>2, <1>6 DEF Store!Next

\* A handle that the client gives up is closed.
LEMMA CloseStore ==
    ASSUME IInv, DInv, ContentIs, ContentIs', NEW t \in Threads, OthersStay(t), CloseFile(t)
    PROVE  Store!Next
<1>1. PICK h \in Handles : CloseFile(t)!(h)
  BY DEF CloseFile
<1>2. /\ pc[t] = "idle" /\ pc'[t] = "c_lock" /\ issued[h] # None
      /\ issued' = [issued EXCEPT ![h] = None] /\ UNCHANGED disk
  BY <1>1 DEF Begin, IInv, TypeOK, osVars
<1>3. \A p \in Paths : AbstractContent'[p] = AbstractContent[p]
  BY <1>2, ContentFrame DEF IsTruncating, Writing
<1>4. AbstractContent' = AbstractContent
  BY <1>3 DEF ContentIs
<1>5. Store!Close(h)
  BY <1>2, <1>4 DEF Store!Close
<1>6. PICK p \in Paths : TRUE
  BY <1>2 DEF IInv, TypeOK
<1> QED
  BY <1>5, <1>6 DEF Store!Next

\* A write takes effect when its block goes out: what it merged with is what is on disk.
LEMMA WriteOutStore ==
    ASSUME IInv, DInv, ContentIs, ContentIs', NEW t \in Threads, OthersStay(t), WriteOut(t)
    PROVE  [Store!Next]_Store!vars
<1> DEFINE h == loc[t].hd
           k == loc[t].pos
           v == loc[t].val
<1>0. /\ CallShape(t) /\ DataUse(t) /\ TypeOK /\ loc[t] \in Local /\ Serial
      /\ pc[t] = "w_out" /\ pc'[t] = "io_done" /\ UNCHANGED <<loc, issued>>
  BY DEF IInv, DInv, CallsShaped, TypeOK, WriteOut, Step, clientVars
<1>1. PICK p \in Paths : p = loc[t].path /\ OnIssued(t) /\ p # None /\ FileOf(loc[t].via) = p
  BY <1>0, ChangesOwn DEF Changing
<1>2. h \in Handles /\ issued[h] = p /\ disk[p] \in Content
  BY <1>1, UsesFile
<1>3. disk' = [disk EXCEPT ![p] = Merge(disk[p], k, v)]
  BY <1>0, <1>1 DEF WriteOut, DataUse
<1>4. disk'[p] = Merge(disk[p], k, v) /\ \A q \in Paths : q # p => disk'[q] = disk[q]
  BY <1>0, <1>1, <1>3 DEF TypeOK
<1>5. k \in 1..2 /\ v \in Values
  BY <1>0 DEF CallShape, Local, Writing
<1>6. \A u \in Threads : ~IsTruncating(u, p)'
  <2>1. ~IsTruncating(t, p)'
    BY <1>0 DEF IsTruncating, Writing
  <2>2. ASSUME NEW u \in Threads \ {t}, IsTruncating(u, p) PROVE FALSE
    BY <1>0, <1>1, <2>2 DEF IsTruncating, Serial
  <2>3. \A u \in Threads \ {t} : IsTruncating(u, p)' <=> IsTruncating(u, p)
    BY DEF IsTruncating, OthersStay
  <2> QED
    BY <2>1, <2>2, <2>3
<1>7. AbstractContent'[p] = Merge(disk[p], k, v)
  BY <1>1, <1>4, <1>6 DEF ContentIs
<1>8. AbstractContent' = [AbstractContent EXCEPT ![p] = Merge(disk[p], k, v)]
  BY <1>0, <1>1, <1>4, <1>7, ContentStep
<1>9. CASE loc[t].op = "write"
  <2>1. AbstractContent[p] = disk[p]
    <3>1. \A u \in Threads : ~IsTruncating(u, p)
      BY <1>0, <1>1, <1>9 DEF IsTruncating, Serial, CallShape, Writing
    <3> QED
      BY <1>1, <3>1 DEF ContentIs
  <2>2. v \in Values \ {Zero}
    BY <1>0, <1>5, <1>9 DEF DataUse
  <2>3. AbstractContent' = [AbstractContent EXCEPT ![p] = Store!Put(AbstractContent[p], k, v)]
    BY <1>2, <1>5, <1>8, <2>1, MergeIsPut
  <2> HIDE DEF h, k, v
  <2>4. Store!Write(h, p, k, v)
    BY <1>0, <1>1, <1>2, <2>3 DEF Store!Write, Store!IsHandleOf
  <2> QED
    BY <1>1, <1>2, <1>5, <2>2, <2>4 DEF Store!Next
<1>10. CASE loc[t].op = "truncate"
  <2>1. AbstractContent[p] = Merge(disk[p], k, v)
    BY <1>0, <1>1, <1>10 DEF ContentIs, IsTruncating, Writing
  <2>2. AbstractContent' = AbstractContent
    BY <1>1, <1>8, <2>1 DEF ContentIs
  <2> QED
    BY <1>0, <2>2 DEF Store!vars
<1> QED
  BY <1>0, <1>9, <1>10 DEF CallShape, Writing

\* An empty file grows to a full block of zeros.
LEMMA GrowStore ==
    ASSUME IInv, DInv, ContentIs, ContentIs', NEW t \in Threads, OthersStay(t), GrowByTruncate(t)
    PROVE  Store!Next
<1> DEFINE h == loc[t].hd
<1>0. /\ DataUse(t) /\ TypeOK /\ Serial /\ CallShape(t)
      /\ pc[t] = "t_grow" /\ pc'[t] = "idle" /\ loc'[t] = Idle /\ UNCHANGED issued
  BY DEF IInv, DInv, CallsShaped, TypeOK, GrowByTruncate, Return, Step, clientVars
<1>1. PICK p \in Paths : /\ p = loc[t].path /\ OnIssued(t) /\ p # None /\ FileOf(loc[t].via) = p
                         /\ loc[t].op = "truncate"
  BY <1>0, ChangesOwn DEF Changing, CallShape, Resizing
<1>2. h \in Handles /\ issued[h] = p
  BY <1>1, UsesFile
<1>3. disk' = [disk EXCEPT ![p] = <<Zero, Zero>>]
  BY <1>1 DEF GrowByTruncate
<1>4. disk'[p] = <<Zero, Zero>> /\ \A q \in Paths : q # p => disk'[q] = disk[q]
  BY <1>0, <1>1, <1>3 DEF TypeOK
<1>5. \A u \in Threads : ~IsTruncating(u, p) /\ ~IsTruncating(u, p)'
  <2>1. ~IsTruncating(t, p) /\ ~IsTruncating(t, p)'
    BY <1>0 DEF IsTruncating, Writing
  <2>2. ASSUME NEW u \in Threads \ {t} PROVE ~IsTruncating(u, p) /\ ~IsTruncating(u, p)'
    BY <1>0, <1>1, <2>2 DEF IsTruncating, Serial, OthersStay
  <2> QED
    BY <2>1, <2>2
<1>6. AbstractContent[p] = << >> /\ AbstractContent'[p] = <<Zero, Zero>>
  BY <1>0, <1>1, <1>4, <1>5 DEF ContentIs, DataUse
<1>7. loc'[t].path = None
  BY <1>0 DEF Idle
<1>8. AbstractContent' = [AbstractContent EXCEPT ![p] = <<Zero, Zero>>]
  BY <1>1, <1>4, <1>6, <1>7, ContentStep
<1>9. AbstractContent' = [AbstractContent EXCEPT ![p] = Store!Resized(AbstractContent[p], 2)]
  BY <1>6, <1>8, ResizedIs
<1> HIDE DEF h
<1>10. Store!Resize(h, p, 2)
  BY <1>0, <1>1, <1>2, <1>9 DEF Store!Resize, Store!IsHandleOf
<1> QED
  BY <1>1, <1>2, <1>10 DEF Store!Next

\* A larger size takes effect when truncate has found that the file is smaller.
LEMMA CompareStore ==
    ASSUME IInv, DInv, ContentIs, ContentIs', NEW t \in Threads, OthersStay(t), CompareSize(t)
    PROVE  [Store!Next]_Store!vars
<1> DEFINE h == loc[t].hd
           n == loc[t].pos
<1>0. /\ DataUse(t) /\ TypeOK /\ Serial /\ CallShape(t) /\ loc[t] \in Local
      /\ pc[t] = "t_size" /\ UNCHANGED <<disk, issued>> /\ loc[t].op = "truncate" /\ OnIssued(t)
      /\ n \in 1..2 /\ loc[t].val = Zero
  <2>1. DataUse(t) /\ TypeOK /\ Serial /\ CallShape(t) /\ loc[t] \in Local /\ pc[t] = "t_size"
    BY DEF IInv, DInv, CallsShaped, TypeOK, CompareSize
  <2> QED
    BY <2>1 DEF CompareSize, clientVars, osVars, CallShape, OnIssued, Resizing, DataUse, Local
<1>1. PICK p \in Paths : /\ p = loc[t].path /\ p # None /\ h \in Handles /\ issued[h] = p
                         /\ disk[p] \in Content
  BY <1>0, UsesFile
<1>2. CASE pc'[t] \notin Writing
  <2>1. \A q \in Paths : ~IsTruncating(t, q) /\ ~IsTruncating(t, q)'
    BY <1>0, <1>2 DEF IsTruncating, Writing
  <2> QED
    BY <1>0, <2>1, StoreStutter
<1>3. CASE pc'[t] \in Writing
  <2>1. n > Len(disk[p]) /\ pc'[t] = "w_again" /\ loc'[t] = loc[t]
    BY <1>0, <1>1, <1>3 DEF CompareSize, Return, Step, TypeOK, Writing
  <2>2. IsTruncating(t, p)'
    BY <1>0, <1>1, <2>1 DEF IsTruncating, Writing
  <2>3. AbstractContent'[p] = Merge(disk[p], n, Zero)
    <3>1. AbstractContent'[p] = Merge(disk'[p], loc'[t].pos, loc'[t].val)
      BY <1>1, <2>2 DEF ContentIs, Merge
    <3> QED
      BY <1>0, <2>1, <3>1
  <2>4. AbstractContent[p] = disk[p]
    <3>1. \A u \in Threads : ~IsTruncating(u, p)
      BY <1>0, <1>1 DEF IsTruncating, Serial, Writing
    <3> QED
      BY <1>1, <3>1 DEF ContentIs
  <2>5. AbstractContent' = [AbstractContent EXCEPT ![p] = Merge(disk[p], n, Zero)]
    BY <1>0, <1>1, <2>1, <2>3, ContentStep
  <2>6. AbstractContent' = [AbstractContent EXCEPT ![p] = Store!Resized(AbstractContent[p], n)]
    BY <1>0, <1>1, <2>1, <2>4, <2>5, MergeIsPut, HandleTableAssumption
  <2> HIDE DEF h, n
  <2>7. Store!Resize(h, p, n)
    BY <1>0, <1>1, <2>6 DEF Store!Resize, Store!IsHandleOf
  <2> QED
    BY <1>0, <1>1, <2>7 DEF Store!Next
<1> QED
  BY <1>2, <1>3

\* A smaller size takes effect when the file is cut: the rest is still to be written back.
LEMMA CutStore ==
    ASSUME IInv, DInv, ContentIs, ContentIs', NEW t \in Threads, OthersStay(t), CutByRawFd(t)
    PROVE  Store!Next
<1> DEFINE h == loc[t].hd
           n == loc[t].pos
<1>0. /\ DataUse(t) /\ TypeOK /\ Serial /\ CallShape(t) /\ loc[t] \in Local
      /\ pc[t] = "t_cut" /\ UNCHANGED issued
  BY DEF IInv, DInv, CallsShaped, TypeOK, CutByRawFd, Return, Step, clientVars
<1>1. PICK p \in Paths : /\ p = loc[t].path /\ OnIssued(t) /\ p # None /\ RawFile(t) = p
                         /\ loc[t].op = "truncate"
  BY <1>0, ChangesOwn DEF Changing, CallShape, Resizing
<1>2. h \in Handles /\ issued[h] = p /\ disk[p] \in Content
  BY <1>1, UsesFile
<1>3. disk'[p] = << >> /\ \A q \in Paths : q # p => disk'[q] = disk[q]
  BY <1>0, <1>1 DEF CutByRawFd, TypeOK
<1>4. \A u \in Threads : ~IsTruncating(u, p)
  BY <1>0, <1>1 DEF IsTruncating, Serial, Writing
<1>5. \A u \in Threads \ {t} : ~IsTruncating(u, p)'
  BY <1>4 DEF IsTruncating, OthersStay
<1>6. AbstractContent[p] = disk[p]
  BY <1>1, <1>4 DEF ContentIs
<1>7. CASE n = 0 /\ Return(t, "t_cut")
  <2>1. loc'[t] = Idle /\ pc'[t] = "idle" /\ Idle.path = None
    BY <1>0, <1>7 DEF Return, Step, TypeOK, Idle
  <2>2. ~IsTruncating(t, p)'
    BY <2>1 DEF IsTruncating, Writing
  <2>3. AbstractContent'[p] = << >>
    BY <1>1, <1>3, <1>5, <2>2 DEF ContentIs
  <2>4. AbstractContent' = [AbstractContent EXCEPT ![p] = << >>]
    BY <1>1, <1>3, <2>1, <2>3, ContentStep
  <2>5. AbstractContent' = [AbstractContent EXCEPT ![p] = Store!Resized(AbstractContent[p], 0)]
    BY <1>2, <1>6, <2>4, ResizedIs
  <2> HIDE DEF h, n
  <2>6. Store!Resize(h, p, 0)
    BY <1>0, <1>1, <1>2, <2>5 DEF Store!Resize, Store!IsHandleOf
  <2> QED
    BY <1>1, <1>2, <2>6 DEF Store!Next
<1>8. CASE n > 0 /\ Step(t, "t_cut", "w_again") /\ loc' = [loc EXCEPT ![t].pos = 1, ![t].val = loc[t].buf[1]]
  <2>1. pc'[t] = "w_again" /\ loc'[t] = [loc[t] EXCEPT !.pos = 1, !.val = loc[t].buf[1]]
    BY <1>0, <1>8 DEF Step, TypeOK
  <2>2. /\ loc'[t].op = loc[t].op /\ loc'[t].path = p /\ loc'[t].pos = 1 /\ loc'[t].val = loc[t].buf[1]
    BY <1>0, <1>1, <2>1 DEF Local
  <2>3. n = 1 /\ Len(disk[p]) = 2 /\ loc[t].buf = SubSeq(disk[p], 1, 1) /\ disk[p] \in Seq(Values)
    <3>1. Len(disk[p]) \in Nat /\ Len(disk[p]) <= 2 /\ disk[p] \in Seq(Values)
      <4>1. disk[p] \in Seq(Values) /\ Len(disk[p]) <= 2
        BY <1>2 DEF Content
      <4> QED
        BY <4>1, LenProperties
    <3>2. n \in Nat /\ n > 0 /\ n < Len(disk[p]) /\ loc[t].buf = SubSeq(disk[p], 1, n)
      BY <1>0, <1>1, <1>8 DEF DataUse, Local
    <3>3. \A k, m \in Nat : k > 0 /\ k < m /\ m <= 2 => k = 1 /\ m = 2
      OBVIOUS
    <3>4. n = 1 /\ Len(disk[p]) = 2
      BY <3>1, <3>2, <3>3, Zenon
    <3> QED
      BY <3>1, <3>2, <3>4
  <2>4. loc[t].buf[1] = disk[p][1]
    BY <2>3
  <2>5. IsTruncating(t, p)'
    BY <1>1, <2>1, <2>2 DEF IsTruncating, Writing
  <2>6. AbstractContent'[p] = Merge(<< >>, 1, disk[p][1])
    <3>1. AbstractContent'[p] = Merge(disk'[p], loc'[t].pos, loc'[t].val)
      BY <1>1, <2>5 DEF ContentIs, Merge
    <3> QED
      BY <1>3, <2>2, <2>4, <3>1
  <2>7. AbstractContent' = [AbstractContent EXCEPT ![p] = Merge(<< >>, 1, disk[p][1])]
    BY <1>1, <1>3, <2>2, <2>6, ContentStep
  <2>8. AbstractContent' = [AbstractContent EXCEPT ![p] = Store!Resized(AbstractContent[p], 1)]
    BY <1>2, <1>6, <2>3, <2>7, ResizedIs
  <2> HIDE DEF h, n
  <2>9. Store!Resize(h, p, 1)
    BY <1>0, <1>1, <1>2, <2>8 DEF Store!Resize, Store!IsHandleOf
  <2> QED
    BY <1>1, <1>2, <2>9 DEF Store!Next
<1> QED
  BY <1>7, <1>8 DEF CutByRawFd


\* The step touches neither contents nor handles, and what is being truncated stays so.
KeepsStore(t) ==
    /\ UNCHANGED <<disk, issued>>
    /\ \/ /\ pc[t] \notin Writing \/ loc[t].op # "truncate"
          /\ pc'[t] \notin Writing \/ loc'[t].op # "truncate"
       \/ /\ pc[t] \in Writing /\ pc'[t] \in Writing
          /\ loc'[t].op = loc[t].op /\ loc'[t].path = loc[t].path
          /\ loc'[t].pos = loc[t].pos /\ loc'[t].val = loc[t].val

\* Such a step is none of the store.
LEMMA KeptIsStutter ==
    ASSUME ContentIs, ContentIs', NEW t \in Threads, OthersStay(t), KeepsStore(t)
    PROVE  UNCHANGED Store!vars
<1>1. ASSUME NEW p \in Paths
      PROVE  \/ ~IsTruncating(t, p) /\ ~IsTruncating(t, p)'
             \/ /\ IsTruncating(t, p) /\ IsTruncating(t, p)'
                /\ loc'[t].pos = loc[t].pos /\ loc'[t].val = loc[t].val
  BY DEF KeepsStore, IsTruncating
<1> QED
  BY <1>1, StoreStutter DEF KeepsStore

\* Every step that is not one of the six keeps the store as it is.
LEMMA OtherSteps ==
    ASSUME IInv, NEW t \in Threads,
           \/ OpenFile(t) \/ ReadFile(t) \/ WriteFile(t) \/ TruncateFile(t) \/ CloseVolume(t)
           \/ RegisterLock(t)
           \/ LookupFile(t, "r_lookup", "r_fdlock") \/ LockFd(t, "r_fdlock", "r_contentlock")
           \/ LockContentShared(t) \/ DoRead(t, "r_read", "io_done", 2) \/ FinishIO(t)
           \/ LookupFile(t, "w_lookup", "w_fdlock") \/ LockFd(t, "w_fdlock", "w_contentlock")
           \/ AnnounceContent(t) \/ AcquireContent(t)
           \/ LookupAgain(t, "w_again", "w_header") \/ GetFileID(t)
           \/ DoRead(t, "w_readback", "w_out", 2)
           \/ CloseLockHandles(t) \/ CloseAnnounceFd(t) \/ CloseFd(t) \/ CloseDelete(t)
           \/ CloseUnlockFd(t)
           \/ FindByPath(t) \/ NotFoundByPath(t) \/ LookupFile(t, "t_lookup", "t_fd")
           \/ TakeRawFd(t) \/ LookupAgain(t, "t_again", "t_grow")
           \/ DoRead(t, "t_read", "t_cut", loc[t].pos)
           \/ CutFails(t) \/ ListHandles(t) \/ CloseNext(t) \/ ForgetVolume(t)
    PROVE  KeepsStore(t)
<1>0. /\ CallShape(t) /\ pc \in [Threads -> Locations] /\ loc \in [Threads -> Local]
  BY DEF IInv, CallsShaped, TypeOK
<1> USE DEF Step, Return, Begin, lockVars, tableVars, osVars, clientVars, KeepsStore, CallShape, Writing,
            LockingOut
<1>1. CASE OpenFile(t) \/ ReadFile(t) \/ WriteFile(t) \/ TruncateFile(t) \/ CloseVolume(t)
  BY <1>0, <1>1 DEF OpenFile, ReadFile, WriteFile, TruncateFile, CloseVolume
<1>2. CASE \/ LookupFile(t, "r_lookup", "r_fdlock") \/ LookupFile(t, "w_lookup", "w_fdlock")
           \/ LookupFile(t, "t_lookup", "t_fd")
  BY <1>0, <1>2 DEF LookupFile
<1>3. CASE LockFd(t, "r_fdlock", "r_contentlock") \/ LockFd(t, "w_fdlock", "w_contentlock")
  BY <1>0, <1>3 DEF LockFd
<1>4. CASE RegisterLock(t) \/ LockContentShared(t) \/ AnnounceContent(t) \/ FinishIO(t)
  BY <1>0, <1>4 DEF RegisterLock, LockContentShared, AnnounceContent, FinishIO
<1>5. CASE AcquireContent(t)
  BY <1>0, <1>5 DEF AcquireContent
<1>6. CASE LookupAgain(t, "w_again", "w_header") \/ LookupAgain(t, "t_again", "t_grow")
  <2>1. /\ loc'[t].op = loc[t].op /\ loc'[t].path = loc[t].path
        /\ loc'[t].pos = loc[t].pos /\ loc'[t].val = loc[t].val
    BY <1>0, <1>6 DEF LookupAgain, Local
  <2> QED
    BY <1>0, <1>6, <2>1 DEF LookupAgain
<1>7. CASE GetFileID(t)
  <2>1. /\ loc'[t].op = loc[t].op /\ loc'[t].path = loc[t].path
        /\ loc'[t].pos = loc[t].pos /\ loc'[t].val = loc[t].val
    BY <1>0, <1>7 DEF GetFileID, Local
  <2> QED
    BY <1>0, <1>7, <2>1 DEF GetFileID
<1>8. ASSUME NEW from, NEW to, NEW size, DoRead(t, from, to, size),
             \/ from \notin Writing /\ to \notin Writing
             \/ from \in Writing /\ to \in Writing
      PROVE  KeepsStore(t)
  <2>1. /\ loc'[t].op = loc[t].op /\ loc'[t].path = loc[t].path
        /\ loc'[t].pos = loc[t].pos /\ loc'[t].val = loc[t].val
    BY <1>0, <1>8 DEF DoRead, Local
  <2> QED
    BY <1>0, <1>8, <2>1 DEF DoRead
<1>9. CASE \/ DoRead(t, "r_read", "io_done", 2) \/ DoRead(t, "w_readback", "w_out", 2)
           \/ DoRead(t, "t_read", "t_cut", loc[t].pos)
  BY <1>8, <1>9
<1>10. CASE \/ CloseLockHandles(t) \/ CloseAnnounceFd(t) \/ CloseFd(t) \/ CloseDelete(t)
            \/ CloseUnlockFd(t)
  BY <1>0, <1>10 DEF CloseLockHandles, CloseAnnounceFd, CloseFd, CloseDelete, CloseUnlockFd
<1>11. CASE FindByPath(t) \/ NotFoundByPath(t) \/ TakeRawFd(t) \/ CutFails(t)
  BY <1>0, <1>11 DEF FindByPath, NotFoundByPath, TakeRawFd, CutFails
<1>12. CASE ListHandles(t) \/ CloseNext(t) \/ ForgetVolume(t)
  BY <1>0, <1>12 DEF ListHandles, CloseNext, ForgetVolume
<1> QED
  BY <1>1, <1>2, <1>3, <1>4, <1>5, <1>6, <1>7, <1>9, <1>10, <1>11, <1>12

\* Every step is one of the store or none.
LEMMA StoreStep ==
    ASSUME Careful
    PROVE  IInv /\ DInv /\ IInv' /\ DInv' /\ [Next]_vars => [Store!Next]_Store!vars
<1> SUFFICES ASSUME IInv, DInv, IInv', DInv', [Next]_vars PROVE [Store!Next]_Store!vars
  OBVIOUS
<1>1. ContentIs /\ ContentIs'
  BY ContentState, ContentPrimed
<1>2. CASE Next
  <2>1. PICK t \in Threads : Call(t) \/ Continue(t)
    BY <1>2 DEF Next
  <2>2. OthersStay(t)
    BY <2>1, IInvStep
  <2>3. CASE RegisterFileHandle(t) \/ CloseFile(t) \/ GrowByTruncate(t) \/ CutByRawFd(t)
    BY <1>1, <2>2, <2>3, RegisterStore, CloseStore, GrowStore, CutStore
  <2>4. CASE WriteOut(t) \/ CompareSize(t)
    BY <1>1, <2>2, <2>4, WriteOutStore, CompareStore
  <2>5. CASE KeepsStore(t)
    BY <1>1, <2>2, <2>5, KeptIsStutter
  <2> QED
    BY <2>1, <2>3, <2>4, <2>5, OtherSteps, Never, FileIsOpen DEF Call, Continue
<1>3. CASE UNCHANGED vars
  <2>1. \A u \in Threads, p \in Paths : IsTruncating(u, p)' <=> IsTruncating(u, p)
    BY <1>3 DEF vars, threadVars, IsTruncating
  <2>2. ASSUME NEW p \in Paths PROVE AbstractContent'[p] = AbstractContent[p]
    <3>1. disk' = disk /\ loc' = loc
      BY <1>3 DEF vars, threadVars, osVars
    <3>2. CASE \E u \in Threads : IsTruncating(u, p)
      <4>1. PICK u \in Threads : IsTruncating(u, p)
        BY <3>2
      <4>2. AbstractContent[p] = Merge(disk[p], loc[u].pos, loc[u].val)
        BY <1>1, <4>1 DEF ContentIs
      <4>3. AbstractContent'[p] = Merge(disk'[p], loc'[u].pos, loc'[u].val)
        BY <1>1, <2>1, <4>1 DEF ContentIs, Merge
      <4> QED
        BY <3>1, <4>2, <4>3
    <3>3. CASE \A u \in Threads : ~IsTruncating(u, p)
      BY <1>1, <2>1, <3>1, <3>3 DEF ContentIs
    <3> QED
      BY <3>2, <3>3
  <2>3. AbstractContent' = AbstractContent
    BY <1>1, <2>2 DEF ContentIs
  <2> QED
    BY <1>3, <2>3 DEF Store!vars, vars, clientVars
<1> QED
  BY <1>2, <1>3

\* A volume that was just opened is an empty store.
LEMMA StoreInit == ASSUME Careful PROVE Init => Store!Init
<1> SUFFICES ASSUME Init PROVE Store!Init
  OBVIOUS
<1>1. ContentIs
  BY IInvInit, DInvInit, ContentState
<1>2. \A p \in Paths, t \in Threads : ~IsTruncating(t, p)
  BY DEF Init, IsTruncating, Writing
<1>3. \A p \in Paths : AbstractContent[p] = << >>
  BY <1>1, <1>2 DEF ContentIs, Init
<1>4. AbstractContent = [p \in Paths |-> << >>]
  BY <1>1, <1>3 DEF ContentIs
<1> QED
  BY <1>4 DEF Init, Store!Init

\* For a disciplined client the volume is a store whose reads, writes and resizes take effect at
\* once: no acknowledged write is lost, although each is a read, a merge and a write of a block
\* that other threads write too (gcf_write_file, gcf_truncate, doWrite).
THEOREM ImplementsFileStore == ASSUME Careful PROVE Spec => AtomicStore
<1>1. Init => Store!Init
  BY StoreInit
<1>2. IInv /\ DInv /\ IInv' /\ DInv' /\ [Next]_vars => [Store!Next]_Store!vars
  BY StoreStep
<1>3. Spec => [](IInv /\ DInv)
  BY DInvAlways
<1> QED
  BY <1>1, <1>2, <1>3, PTL DEF Spec, AtomicStore, Store!Spec

=============================================================================
