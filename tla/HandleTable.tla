----------------------------- MODULE HandleTable -----------------------------
(***************************************************************************)
(* The open-file table of one volume (file.go, volume.go) under concurrent *)
(* library calls.  Any thread of the host program may call gcf_open_*,     *)
(* gcf_read_file, gcf_write_file, gcf_truncate, gcf_close_file and         *)
(* gcf_close; the calls share Volume.fileHandles, the File objects with    *)
(* their two RWMutexes, the descriptors of the process and the backing     *)
(* files.                                                                  *)
(*                                                                         *)
(* One action is what a call does between two points where another thread  *)
(* can interfere.  A lookup between handlesLock.RLock and RUnlock is one   *)
(* action: nothing in it can block, so handlesLock only needs its writer.  *)
(*                                                                         *)
(* A backing file is one encryption block of two parts: its content is a   *)
(* sequence of at most two values, and writing one part is a read-modify-  *)
(* write of the block.  Headers, file IDs and block arithmetic are in      *)
(* FileContent and ContentOffsets.                                         *)
(***************************************************************************)
EXTENDS Naturals, Sequences, FiniteSets

CONSTANTS
    Threads,      \* threads of the host program
    None,         \* nil, no descriptor, no handle
    Paths,        \* volume paths, one backing file each
    Values,       \* what a part of a block can hold
    Zero,         \* the value of a part that was never written
    NumFiles,     \* bound: descriptors and handles in use
    NumObjs,      \* bound: File objects not yet reclaimed
    MaxCalls,     \* bound: calls the client makes
    Ops,          \* the calls the client uses
    DiskMayFill,  \* whether EnospcPrealloc may fail
    Disciplined   \* whether the client serialises the calls that conflict

AllOps == {"open", "read", "write", "truncate", "close", "closeVolume"}

ASSUME HandleTableAssumption ==
    /\ NumFiles \in Nat \ {0}
    /\ NumObjs \in Nat \ {0}
    /\ None \notin Threads /\ None \notin Paths /\ None \notin Nat
    /\ Zero \in Values
    /\ MaxCalls \in Nat
    /\ Ops \subseteq AllOps
    /\ DiskMayFill \in BOOLEAN
    /\ Disciplined \in BOOLEAN

Parts   == 1..2
Handles == 0..(NumFiles - 1)
Objs    == 1..NumObjs
Fds     == 1..NumFiles

Content == {c \in Seq(Values) : Len(c) <= 2}

VARIABLES
    pc,           \* where each thread is
    loc,          \* its call and the local variables of it
    calls,        \* number of calls the client has made
    handlesLock,  \* Volume.handlesLock: its writer
    fdLock,       \* File.fdLock
    contentLock,  \* File.contentLock
    fileHandles,  \* Volume.fileHandles
    objects,      \* the File objects: path and os.File
    fdTable,      \* the process's descriptors: the backing file of each
    disk,         \* the backing files
    opened,       \* the volume is in OpenedVolumes
    wiped,        \* its keys are gone
    issued,       \* the handles the client holds, with the path it opened
    alive         \* the process has not panicked

threadVars == <<pc, loc, calls>>
lockVars   == <<handlesLock, fdLock, contentLock>>
tableVars  == <<fileHandles, objects>>
osVars     == <<fdTable, disk>>
clientVars == <<opened, wiped, issued, alive>>

vars == <<threadVars, lockVars, tableVars, osVars, clientVars>>

-----------------------------------------------------------------------------
(* sync.RWMutex: Lock announces itself first, which keeps new readers out, *)
(* and then waits for the readers inside.                                  *)

RWMutex == [writer : Threads \cup {None}, readers : SUBSET Threads]

Unlocked       == [writer |-> None, readers |-> {}]
RLock(l, t)    == [l EXCEPT !.readers = @ \cup {t}]
RUnlock(l, t)  == [l EXCEPT !.readers = @ \ {t}]
Announce(l, t) == [l EXCEPT !.writer = t]
Unlock(l)      == [l EXCEPT !.writer = None]

NoWriter(l)  == l.writer = None
NoReaders(l) == l.readers = {}

-----------------------------------------------------------------------------
Locations ==
    {"idle", "o_lock", "o_insert",
     "r_lookup", "r_fdlock", "r_contentlock", "r_read",
     "w_lookup", "w_fdlock", "w_contentlock", "w_exclusive",
     "w_again", "w_header", "w_readback", "w_out", "io_done",
     "t_find", "t_lookup", "t_fd", "t_size", "t_read", "t_cut", "t_again", "t_grow",
     "c_lock", "c_fdlock", "c_close", "c_delete", "c_unlock",
     "v_list", "v_next", "v_end"}

Local ==
    [op    : AllOps \cup {"none"},   \* the library function
     path  : Paths \cup {None},      \* the path it is about
     hd    : 0..NumFiles,            \* handleID
     pos   : 0..(NumFiles + 2),      \* part to write, size to truncate to, or count
     val   : Values,                 \* data to write
     file  : Objs \cup {None},       \* the File looked up first: its locks are taken
     via   : Objs \cup {None},       \* the File looked up last: its fd is used
     rawFd : Fds \cup {None},        \* a descriptor number outside any os.File
     buf   : Content,                \* plaintext read back
     empty : BOOLEAN]                \* doWrite's fileWasEmpty

Idle ==
    [op |-> "none", path |-> None, hd |-> 0, pos |-> 0, val |-> Zero, file |-> None,
     via |-> None, rawFd |-> None, buf |-> << >>, empty |-> FALSE]

TypeOK ==
    /\ pc \in [Threads -> Locations]
    /\ loc \in [Threads -> Local]
    /\ calls \in 0..MaxCalls
    /\ handlesLock \in Threads \cup {None}
    /\ fdLock \in [Objs -> RWMutex]
    /\ contentLock \in [Objs -> RWMutex]
    /\ fileHandles \in [Handles -> Objs \cup {None}]
    /\ objects \in [Objs -> [path : Paths \cup {None}, fd : Fds \cup {None}]]
    /\ fdTable \in [Fds -> Paths \cup {None}]
    /\ disk \in [Paths -> Content]
    /\ opened \in BOOLEAN
    /\ wiped \in BOOLEAN
    /\ issued \in [Handles -> Paths \cup {None}]
    /\ alive \in BOOLEAN

Init ==
    /\ pc = [t \in Threads |-> "idle"]
    /\ loc = [t \in Threads |-> Idle]
    /\ calls = 0
    /\ handlesLock = None
    /\ fdLock = [o \in Objs |-> Unlocked]
    /\ contentLock = [o \in Objs |-> Unlocked]
    /\ fileHandles = [h \in Handles |-> None]
    /\ objects = [o \in Objs |-> [path |-> None, fd |-> None]]
    /\ fdTable = [d \in Fds |-> None]
    /\ disk = [p \in Paths |-> << >>]
    /\ opened = TRUE
    /\ wiped = FALSE
    /\ issued = [h \in Handles |-> None]
    /\ alive = TRUE

-----------------------------------------------------------------------------
(* Helpers                                                                 *)

\* Thread t goes on from one location to another.
Step(t, from, to) ==
    /\ alive
    /\ pc[t] = from
    /\ pc' = [pc EXCEPT ![t] = to]
    /\ UNCHANGED calls

\* The call returns; nothing of it stays behind in the thread.
Return(t, from) == Step(t, from, "idle") /\ loc' = [loc EXCEPT ![t] = Idle]

IsOpen(o) == objects[o].fd # None
FileOf(o) == fdTable[objects[o].fd]

\* MergeBlocks: part k of the block becomes v, a gap is filled with zero.
Merge(c, k, v) ==
    [i \in 1..(IF Len(c) < k THEN k ELSE Len(c)) |->
        IF i = k THEN v ELSE IF i <= Len(c) THEN c[i] ELSE Zero]

Lowest(S) == CHOOSE x \in S : \A y \in S : x <= y

FreeFds == {d \in Fds : fdTable[d] = None}

\* Deliberate faults, here and below, carry the name of the operator they
\* replace and of the mistake.
FreeHandlesAll == Handles

FreeHandles == {h \in Handles : fileHandles[h] = None}

\* File objects nothing refers to: the garbage collector gives them back.
FreeObjs ==
    {o \in Objs : /\ \A h \in Handles : fileHandles[h] # o
                  /\ \A t \in Threads : loc[t].file # o /\ loc[t].via # o}

-----------------------------------------------------------------------------
(* The client.  A disciplined one has one handle per path, lets the calls  *)
(* on a path end before it closes or truncates it, opens and closes        *)
(* nothing while it truncates, and closes the volume when it is idle and   *)
(* all its files are closed.                                               *)

Busy == {t \in Threads : pc[t] # "idle"}

Calling(p) == {t \in Busy : loc[t].path = p}

Conflicts(op, p) ==
    \/ \E t \in Busy : loc[t].op = "closeVolume"
    \/ op = "closeVolume" /\ (Busy # {} \/ \E h \in Handles : issued[h] # None)
    \/ op \in {"open", "truncate", "close"} /\ Calling(p) # {}
    \/ op = "open" /\ \E h \in Handles : issued[h] = p
    \/ op \in {"read", "write"} /\ \E t \in Calling(p) : loc[t].op = "truncate"
    \/ op = "truncate" /\ \E t \in Busy : loc[t].op \in {"open", "close"}
    \/ op \in {"open", "close"} /\ \E t \in Busy : loc[t].op = "truncate"

\* A thread enters the library; OpenedVolumes.Load finds the volume.
Begin(t, call, to) ==
    /\ alive /\ opened
    /\ pc[t] = "idle"
    /\ pc' = [pc EXCEPT ![t] = to]
    /\ call.op \in Ops
    /\ calls < MaxCalls
    /\ calls' = calls + 1
    /\ Disciplined => ~Conflicts(call.op, call.path)
    /\ loc' = [loc EXCEPT ![t] = call]

OnHandle(op, h) == [Idle EXCEPT !.op = op, !.hd = h, !.path = issued[h]]

\* gcf_open_read_mode and gcf_open_write_mode open the backing file first.
OpenFile(t) == \E p \in Paths :
    /\ FreeFds # {}
    /\ LET fd == Lowest(FreeFds)
       IN  /\ Begin(t, [Idle EXCEPT !.op = "open", !.path = p, !.rawFd = fd], "o_lock")
           /\ fdTable' = [fdTable EXCEPT ![fd] = p]
    /\ UNCHANGED <<lockVars, tableVars, disk, clientVars>>

ReadFile(t) == \E h \in Handles :
    /\ issued[h] # None
    /\ Begin(t, OnHandle("read", h), "r_lookup")
    /\ UNCHANGED <<lockVars, tableVars, osVars, clientVars>>

WriteFile(t) == \E h \in Handles, k \in Parts, v \in Values \ {Zero} :
    /\ issued[h] # None
    /\ Begin(t, [OnHandle("write", h) EXCEPT !.pos = k, !.val = v], "w_lookup")
    /\ UNCHANGED <<lockVars, tableVars, osVars, clientVars>>

TruncateFile(t) == \E p \in Paths, n \in 0..2 :
    /\ Begin(t, [Idle EXCEPT !.op = "truncate", !.path = p, !.pos = n], "t_find")
    /\ UNCHANGED <<lockVars, tableVars, osVars, clientVars>>

CloseFile(t) == \E h \in Handles :
    /\ issued[h] # None
    /\ Begin(t, OnHandle("close", h), "c_lock")
    /\ issued' = [issued EXCEPT ![h] = None]
    /\ UNCHANGED <<lockVars, tableVars, osVars, opened, wiped, alive>>

\* gcf_close wipes the keys before anything else, whether or not another
\* gcf_close has wiped them already.
CloseVolume(t) ==
    /\ Begin(t, [Idle EXCEPT !.op = "closeVolume"], "v_list")
    /\ wiped' = TRUE
    /\ UNCHANGED <<lockVars, tableVars, osVars, opened, issued, alive>>

-----------------------------------------------------------------------------
(* registerFileHandle                                                      *)

RegisterLock(t) ==
    /\ Step(t, "o_lock", "o_insert")
    /\ handlesLock = None
    /\ handlesLock' = t
    /\ UNCHANGED <<loc, fdLock, contentLock, tableVars, osVars, clientVars>>

\* The lowest unused handle gets a new File around the descriptor.
RegisterFileHandle(t) ==
    /\ Return(t, "o_insert")
    /\ FreeHandles # {} /\ FreeObjs # {}
    /\ LET c == Lowest(FreeHandles)
           o == Lowest(FreeObjs)
       IN  /\ fileHandles' = [fileHandles EXCEPT ![c] = o]
           /\ objects' = [objects EXCEPT ![o] = [path |-> loc[t].path, fd |-> loc[t].rawFd]]
           /\ issued' = [issued EXCEPT ![c] = loc[t].path]
    /\ handlesLock' = None
    /\ UNCHANGED <<fdLock, contentLock, osVars, opened, wiped, alive>>

-----------------------------------------------------------------------------
(* The common beginning of gcf_read_file, gcf_write_file and truncate, and *)
(* the common end of the first two.                                        *)

\* f := volume.fileHandles[handleID] under handlesLock.RLock.
LookupFile(t, from, to) ==
    /\ Step(t, from, to)
    /\ handlesLock = None
    /\ LET f == fileHandles[loc[t].hd]
       IN  loc' = [loc EXCEPT ![t].file = f, ![t].via = f]
    /\ UNCHANGED <<lockVars, tableVars, osVars, clientVars>>

\* f.fdLock.RLock()
LockFd(t, from, to) ==
    LET f == loc[t].file
    IN  /\ Step(t, from, to)
        /\ f # None
        /\ NoWriter(fdLock[f])
        /\ fdLock' = [fdLock EXCEPT ![f] = RLock(@, t)]
        /\ UNCHANGED <<loc, handlesLock, contentLock, tableVars, osVars, clientVars>>

\* The deferred unlock calls; a truncate took no lock.
FinishIO(t) ==
    LET f == loc[t].file
    IN  /\ Return(t, "io_done")
        /\ IF loc[t].op = "truncate"
           THEN UNCHANGED <<contentLock, fdLock>>
           ELSE /\ contentLock' = [contentLock EXCEPT ![f] =
                        IF loc[t].op = "write" THEN Unlock(@) ELSE RUnlock(@, t)]
                /\ fdLock' = [fdLock EXCEPT ![f] = RUnlock(@, t)]
        /\ UNCHANGED <<handlesLock, tableVars, osVars, clientVars>>

-----------------------------------------------------------------------------
(* gcf_read_file                                                           *)

LockContentShared(t) ==
    LET f == loc[t].file
    IN  /\ Step(t, "r_contentlock", "r_read")
        /\ NoWriter(contentLock[f])
        /\ contentLock' = [contentLock EXCEPT ![f] = RLock(@, t)]
        /\ UNCHANGED <<loc, handlesLock, fdLock, tableVars, osVars, clientVars>>

DoReadOneShort(t, from, to, size) ==
    LET c == disk[FileOf(loc[t].via)]
    IN  /\ Step(t, from, to)
        /\ IsOpen(loc[t].via)
        /\ wiped => c = << >>
        /\ loc' = [loc EXCEPT ![t].buf =
                SubSeq(c, 1, IF Len(c) < size - 1 THEN Len(c) ELSE size - 1)]
        /\ UNCHANGED <<lockVars, tableVars, osVars, clientVars>>

\* doRead: one ReadAt, then decryption, which needs keys unless it is empty.
DoRead(t, from, to, size) ==
    LET c == disk[FileOf(loc[t].via)]
    IN  /\ Step(t, from, to)
        /\ IsOpen(loc[t].via)
        /\ wiped => c = << >>
        /\ loc' = [loc EXCEPT ![t].buf = SubSeq(c, 1, IF Len(c) < size THEN Len(c) ELSE size)]
        /\ UNCHANGED <<lockVars, tableVars, osVars, clientVars>>

-----------------------------------------------------------------------------
(* gcf_write_file, then doWrite, which truncate calls too                  *)

AnnounceContentUnlocked(t) ==
    /\ Step(t, "w_contentlock", "w_exclusive")
    /\ UNCHANGED <<loc, lockVars, tableVars, osVars, clientVars>>

\* f.contentLock.Lock(), in its two steps.
AnnounceContent(t) ==
    LET f == loc[t].file
    IN  /\ Step(t, "w_contentlock", "w_exclusive")
        /\ NoWriter(contentLock[f])
        /\ contentLock' = [contentLock EXCEPT ![f] = Announce(@, t)]
        /\ UNCHANGED <<loc, handlesLock, fdLock, tableVars, osVars, clientVars>>

AcquireContent(t) ==
    /\ Step(t, "w_exclusive", "w_again")
    /\ NoReaders(contentLock[loc[t].file])
    /\ UNCHANGED <<loc, lockVars, tableVars, osVars, clientVars>>

\* doWrite and truncateGrowFile look the handle up again and use what they find.
LookupAgain(t, from, to) ==
    /\ Step(t, from, to)
    /\ handlesLock = None
    /\ loc' = [loc EXCEPT ![t].via = fileHandles[loc[t].hd]]
    /\ UNCHANGED <<lockVars, tableVars, osVars, clientVars>>

\* The file ID: cached, read from disk, or created for a file without content.
\* Whether an empty file's ID is still cached is left open.
GetFileID(t) ==
    /\ Step(t, "w_header", "w_readback")
    /\ loc[t].via # None
    /\ IsOpen(loc[t].via)
    /\ \E e \in BOOLEAN :
        /\ e => disk[FileOf(loc[t].via)] = << >>
        /\ loc' = [loc EXCEPT ![t].empty = e]
    /\ UNCHANGED <<lockVars, tableVars, osVars, clientVars>>

\* The merged block is encrypted and goes out in one WriteAt.
WriteOut(t) ==
    /\ Step(t, "w_out", "io_done")
    /\ ~wiped
    /\ IsOpen(loc[t].via)
    /\ disk' = [disk EXCEPT ![FileOf(loc[t].via)] = Merge(loc[t].buf, loc[t].pos, loc[t].val)]
    /\ UNCHANGED <<loc, lockVars, tableVars, fdTable, clientVars>>

\* EnospcPrealloc fails.  A file that was empty is cut back to nothing and its
\* handle closed, from inside the write.
WriteNoSpace(t) ==
    /\ DiskMayFill
    /\ Step(t, "w_out", IF loc[t].empty /\ opened THEN "c_lock" ELSE "io_done")
    /\ ~wiped
    /\ IsOpen(loc[t].via)
    /\ disk' = IF loc[t].empty THEN [disk EXCEPT ![FileOf(loc[t].via)] = << >>] ELSE disk
    /\ UNCHANGED <<loc, lockVars, tableVars, fdTable, clientVars>>

\* createHeader finds no space: the call fails and nothing was written.
HeaderNoSpace(t) ==
    /\ DiskMayFill
    /\ pc[t] \in {"w_header", "t_grow"}
    /\ Step(t, pc[t], "io_done")
    /\ loc[t].via # None
    /\ IsOpen(loc[t].via)
    /\ disk[FileOf(loc[t].via)] = << >>
    /\ UNCHANGED <<loc, lockVars, tableVars, osVars, clientVars>>

-----------------------------------------------------------------------------
(* gcf_close_file, called by the client, by a write that found the disk    *)
(* full, and by gcf_close                                                  *)

CloseLockHandles(t) ==
    /\ Step(t, "c_lock", "c_fdlock")
    /\ handlesLock = None
    /\ handlesLock' = t
    /\ loc' = [loc EXCEPT ![t].via = fileHandles[loc[t].hd]]
    /\ UNCHANGED <<fdLock, contentLock, tableVars, osVars, clientVars>>

\* f.fdLock.Lock(), in its two steps, still holding handlesLock.
CloseAnnounceFd(t) ==
    LET f == loc[t].via
    IN  /\ Step(t, "c_fdlock", "c_close")
        /\ f # None
        /\ NoWriter(fdLock[f])
        /\ fdLock' = [fdLock EXCEPT ![f] = Announce(@, t)]
        /\ UNCHANGED <<loc, handlesLock, contentLock, tableVars, osVars, clientVars>>

CloseFdInUse(t) ==
    LET f == loc[t].via
    IN  /\ Step(t, "c_close", "c_delete")
        /\ fdTable' = [d \in Fds |-> IF d = objects[f].fd THEN None ELSE fdTable[d]]
        /\ objects' = [objects EXCEPT ![f].fd = None]
        /\ UNCHANGED <<loc, lockVars, fileHandles, disk, clientVars>>

CloseFd(t) ==
    LET f == loc[t].via
    IN  /\ Step(t, "c_close", "c_delete")
        /\ NoReaders(fdLock[f])
        /\ fdTable' = [d \in Fds |-> IF d = objects[f].fd THEN None ELSE fdTable[d]]
        /\ objects' = [objects EXCEPT ![f].fd = None]
        /\ UNCHANGED <<loc, lockVars, fileHandles, disk, clientVars>>

CloseDeleteFirst(t) ==
    /\ Step(t, "c_delete", "c_unlock")
    /\ fileHandles' = [fileHandles EXCEPT ![0] = None]
    /\ handlesLock' = None
    /\ UNCHANGED <<loc, fdLock, contentLock, objects, osVars, clientVars>>

CloseDeleteKeepsLock(t) ==
    /\ Step(t, "c_delete", "c_unlock")
    /\ fileHandles' = [fileHandles EXCEPT ![loc[t].hd] = None]
    /\ UNCHANGED <<loc, lockVars, objects, osVars, clientVars>>

CloseDelete(t) ==
    /\ Step(t, "c_delete", "c_unlock")
    /\ fileHandles' = [fileHandles EXCEPT ![loc[t].hd] = None]
    /\ handlesLock' = None
    /\ UNCHANGED <<loc, fdLock, contentLock, objects, osVars, clientVars>>

CloseUnlockFd(t) ==
    LET f == loc[t].via
    IN  /\ \/ loc[t].op = "close" /\ Return(t, "c_unlock")
           \/ /\ loc[t].op = "closeVolume"
              /\ Step(t, "c_unlock", "v_next")
              /\ loc' = [loc EXCEPT ![t].hd = @ + 1, ![t].via = None]
           \/ /\ loc[t].op \in {"write", "truncate"}
              /\ Step(t, "c_unlock", "io_done")
              /\ UNCHANGED loc
        /\ fdLock' = [fdLock EXCEPT ![f] = Unlock(@)]
        /\ UNCHANGED <<handlesLock, contentLock, tableVars, osVars, clientVars>>

-----------------------------------------------------------------------------
(* gcf_truncate and truncate: no fdLock, no contentLock                    *)

\* The handles are searched for the path without handlesLock.
FindByPath(t) ==
    /\ Step(t, "t_find", "t_lookup")
    /\ \E h \in Handles :
        /\ fileHandles[h] # None
        /\ objects[fileHandles[h]].path = loc[t].path
        /\ loc' = [loc EXCEPT ![t].hd = h]
    /\ UNCHANGED <<lockVars, tableVars, osVars, clientVars>>

NotFoundByPath(t) ==
    /\ Return(t, "t_find")
    /\ \A h \in Handles :
        fileHandles[h] # None => objects[fileHandles[h]].path # loc[t].path
    /\ UNCHANGED <<lockVars, tableVars, osVars, clientVars>>

\* fileFD := int(f.fd.Fd()), from here on a bare number.
TakeRawFd(t) ==
    LET f == loc[t].file
    IN  /\ Step(t, "t_fd", IF loc[t].pos = 0 THEN "t_cut" ELSE "t_size")
        /\ f # None
        /\ loc' = [loc EXCEPT ![t].rawFd = objects[f].fd]
        /\ UNCHANGED <<lockVars, tableVars, osVars, clientVars>>

\* gcf_get_attrs gives the size of the path: there is nothing to do, or the
\* file grows (an empty file to a full block without writing it), or shrinks.
CompareSize(t) ==
    /\ pc[t] = "t_size"
    /\ LET old == Len(disk[loc[t].path])
           new == loc[t].pos
       IN  \/ (~opened \/ new = old) /\ Return(t, "t_size")
           \/ /\ opened /\ new > old
              /\ Step(t, "t_size", IF old = 0 /\ new = 2 THEN "t_again" ELSE "w_again")
              /\ UNCHANGED loc
           \/ opened /\ new < old /\ Step(t, "t_size", "t_read") /\ UNCHANGED loc
    /\ UNCHANGED <<lockVars, tableVars, osVars, clientVars>>

\* createHeader and Ftruncate make a block of zeros.
GrowByTruncate(t) ==
    /\ Return(t, "t_grow")
    /\ loc[t].via # None
    /\ IsOpen(loc[t].via)
    /\ disk' = [disk EXCEPT ![FileOf(loc[t].via)] = <<Zero, Zero>>]
    /\ UNCHANGED <<lockVars, tableVars, fdTable, clientVars>>

RawFile(t) == IF loc[t].rawFd = None THEN None ELSE fdTable[loc[t].rawFd]

\* Ftruncate on the bare number: by now it may be closed, or another file's.
\* To shrink, what was read of the last block is then written back by doWrite.
CutByRawFd(t) ==
    /\ RawFile(t) # None
    /\ disk' = [disk EXCEPT ![RawFile(t)] = << >>]
    /\ \/ loc[t].pos = 0 /\ Return(t, "t_cut")
       \/ /\ loc[t].pos > 0 /\ loc[t].buf # << >>
          /\ Step(t, "t_cut", "w_again")
          /\ loc' = [loc EXCEPT ![t].pos = 1, ![t].val = loc[t].buf[1]]
    /\ UNCHANGED <<lockVars, tableVars, fdTable, clientVars>>

CutFails(t) ==
    /\ Return(t, "t_cut")
    /\ RawFile(t) = None
    /\ UNCHANGED <<lockVars, tableVars, osVars, clientVars>>

-----------------------------------------------------------------------------
(* gcf_close                                                               *)

\* The handles are collected into a slice, of which only the length matters:
\* "for i := range fileHandles" closes 0, 1, ... whatever handles are open.
ListHandles(t) ==
    /\ Step(t, "v_list", "v_next")
    /\ handlesLock = None
    /\ loc' = [loc EXCEPT ![t].pos = Cardinality({h \in Handles : fileHandles[h] # None})]
    /\ UNCHANGED <<lockVars, tableVars, osVars, clientVars>>

\* Once another gcf_close has forgotten the volume, gcf_close_file returns at once.
CloseNext(t) ==
    /\ Step(t, "v_next", IF opened /\ loc[t].hd < loc[t].pos THEN "c_lock" ELSE "v_end")
    /\ UNCHANGED <<loc, lockVars, tableVars, osVars, clientVars>>

ForgetVolume(t) ==
    /\ Return(t, "v_end")
    /\ opened' = FALSE
    /\ UNCHANGED <<lockVars, tableVars, osVars, wiped, issued, alive>>

-----------------------------------------------------------------------------
(* What fails wherever it happens.                                         *)

\* Calls on an os.File that was closed return an error, and the entry point
\* returns; but doWrite takes the failed preallocation for a full disk, and for
\* a file that was empty it truncates nothing and closes the handle.
UseClosedFile(t) ==
    /\ pc[t] \in {"r_read", "w_header", "w_readback", "w_out", "t_read", "t_grow"}
    /\ Step(t, pc[t], IF pc[t] = "w_out" /\ loc[t].empty /\ opened THEN "c_lock" ELSE "io_done")
    /\ loc[t].via # None
    /\ ~IsOpen(loc[t].via)
    /\ pc[t] = "w_out" => ~wiped
    /\ UNCHANGED <<loc, lockVars, tableVars, osVars, clientVars>>

\* A panic or a fatal error of the runtime ends the process.
Crash(t) ==
    /\ alive
    /\ alive' = FALSE
    /\ UNCHANGED <<threadVars, lockVars, tableVars, osVars, opened, wiped, issued>>

\* The handle was not in the table: the lookup gave nil, and f.fd or f.fdLock
\* is used nevertheless.
NilFile(t) ==
    /\ \/ pc[t] \in {"r_fdlock", "w_fdlock", "t_fd"} /\ loc[t].file = None
       \/ pc[t] \in {"w_header", "t_grow", "c_fdlock"} /\ loc[t].via = None
    /\ Crash(t)

\* The AEAD cipher is nil after Wipe.
NoKeys(t) ==
    /\ wiped
    /\ \/ pc[t] = "w_out"
       \/ /\ pc[t] \in {"r_read", "w_readback", "t_read"}
          /\ IsOpen(loc[t].via)
          /\ disk[FileOf(loc[t].via)] # << >>
    /\ Crash(t)

\* Wiping keys that are gone: the OpenSSL and AES-SIV backends assert that the
\* cipher, now nil, can be wiped; the others do nothing.
WipeTwice(t) ==
    /\ pc[t] = "idle" /\ opened /\ wiped
    /\ "closeVolume" \in Ops /\ calls < MaxCalls
    /\ Disciplined => ~Conflicts("closeVolume", None)
    /\ Crash(t)

\* Iterating over a map that another thread is changing may be a fatal error.
MapRace(t) ==
    /\ pc[t] = "t_find"
    /\ \E u \in Threads : pc[u] \in {"o_insert", "c_delete"}
    /\ Crash(t)

\* doWrite of nothing indexes blocks[0]: truncate cut a file it had read
\* nothing from.
NoBlocks(t) ==
    /\ pc[t] = "t_cut" /\ loc[t].pos > 0 /\ loc[t].buf = << >>
    /\ RawFile(t) # None
    /\ Crash(t)

-----------------------------------------------------------------------------
Call(t) ==
    \/ OpenFile(t) \/ ReadFile(t) \/ WriteFile(t)
    \/ TruncateFile(t) \/ CloseFile(t) \/ CloseVolume(t) \/ WipeTwice(t)

Continue(t) ==
    \/ RegisterLock(t) \/ RegisterFileHandle(t)
    \/ LookupFile(t, "r_lookup", "r_fdlock") \/ LockFd(t, "r_fdlock", "r_contentlock")
    \/ LockContentShared(t) \/ DoRead(t, "r_read", "io_done", 2) \/ FinishIO(t)
    \/ LookupFile(t, "w_lookup", "w_fdlock") \/ LockFd(t, "w_fdlock", "w_contentlock")
    \/ AnnounceContent(t) \/ AcquireContent(t)
    \/ LookupAgain(t, "w_again", "w_header") \/ GetFileID(t)
    \/ DoRead(t, "w_readback", "w_out", 2) \/ WriteOut(t) \/ WriteNoSpace(t)
    \/ HeaderNoSpace(t)
    \/ CloseLockHandles(t) \/ CloseAnnounceFd(t) \/ CloseFd(t) \/ CloseDelete(t)
    \/ CloseUnlockFd(t)
    \/ FindByPath(t) \/ NotFoundByPath(t) \/ LookupFile(t, "t_lookup", "t_fd")
    \/ TakeRawFd(t) \/ CompareSize(t) \/ LookupAgain(t, "t_again", "t_grow")
    \/ GrowByTruncate(t) \/ DoRead(t, "t_read", "t_cut", loc[t].pos)
    \/ CutByRawFd(t) \/ CutFails(t)
    \/ ListHandles(t) \/ CloseNext(t) \/ ForgetVolume(t)
    \/ UseClosedFile(t) \/ NilFile(t) \/ NoKeys(t) \/ MapRace(t) \/ NoBlocks(t)

Next == \E t \in Threads : Call(t) \/ Continue(t)

Spec == Init /\ [][Next]_vars

\* The runtime schedules every thread that can run; nothing makes the client
\* call.  The calls are bounded in number, so the lock it waits for is contended
\* only so often, and weak fairness gives it what Go's fair RWMutex would.
FairSpec == Spec /\ \A t \in Threads : WF_vars(Continue(t))

-----------------------------------------------------------------------------
(* Properties that hold whatever the client does.                          *)

\* Every open descriptor has one owner, a File in the table or an open call in
\* progress: none leaks, none is closed twice (file.go:40-56, 384-425, 504-508).
FdsHaveOneOwner ==
    \A d \in Fds :
        LET files == {o \in Objs : objects[o].fd = d}
            calling == {t \in Threads : pc[t] \in {"o_lock", "o_insert"} /\ loc[t].rawFd = d}
        IN  /\ Cardinality(files) + Cardinality(calling) = (IF fdTable[d] = None THEN 0 ELSE 1)
            /\ \A o \in files : \E h \in Handles : fileHandles[h] = o

\* Thread t is inside gcf_read_file or gcf_write_file and holds its locks.
HoldsFdLock(t) ==
    /\ loc[t].op \in {"read", "write"}
    /\ pc[t] \notin {"r_lookup", "r_fdlock", "w_lookup", "w_fdlock"}

\* "fdLock prevents the fd to be closed while we are in the middle of an
\* operation" (volume.go:26-27), for the file whose fdLock the operation took.
LockedFileStaysOpen ==
    [][\A o \in Objs : IsOpen(o) /\ ~IsOpen(o)' =>
            \A t \in Threads : HoldsFdLock(t) => loc[t].file # o]_vars

-----------------------------------------------------------------------------
(* Properties of a disciplined client.                                     *)

\* The handle a client holds stays the file it opened until it closes it:
\* registerFileHandle never hands out a handle in use, and nobody closes the
\* file behind the client's back (file.go:40-56, 498-511).
HandlesStayValid ==
    \A h \in Handles : issued[h] # None =>
        LET f == fileHandles[h]
        IN  /\ f # None
            /\ objects[f].path = issued[h]
            /\ IsOpen(f) /\ FileOf(f) = issued[h]

\* No call of a disciplined client panics.
NoCrash == alive

\* Every call returns.
CallsReturn ==
    \A t \in Threads : (alive /\ pc[t] # "idle") ~> (~alive \/ pc[t] = "idle")

\* A truncate that is about to write the last block counts as done.
Truncating(p) ==
    {t \in Calling(p) : /\ loc[t].op = "truncate"
                        /\ pc[t] \in {"w_again", "w_header", "w_readback", "w_out"}}

AbstractContent ==
    [p \in Paths |->
        IF Truncating(p) = {} THEN disk[p]
        ELSE LET t == CHOOSE t \in Truncating(p) : TRUE
             IN  Merge(disk[p], loc[t].pos, loc[t].val)]

Store == INSTANCE FileStore WITH content <- AbstractContent, handles <- issued

\* For a disciplined client the volume is a store whose reads, writes and
\* resizes are atomic: no acknowledged write is lost, although each one is a
\* read, a merge and a write of a block that other threads write too.
AtomicStore == Store!Spec

-----------------------------------------------------------------------------
(* What comments of the code say and the code does not do.                 *)

\* "The only user of Lock() is Release(), which closes the fd" (volume.go:28-29):
\* a close gets the lock and closes the fd.
ReleaseCloses ==
    \A t \in Threads :
        (alive /\ loc[t].op = "close") ~> (~alive \/ loc[t].op # "close")
=============================================================================
