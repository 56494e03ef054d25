------------------------------- MODULE DirTree --------------------------------
(***************************************************************************)
(* The directories of an encrypted volume: gcf_mkdir, gcf_rmdir,           *)
(* gcf_rename, gcf_open_write_mode, gcf_remove_file and gcf_get_attrs, as  *)
(* the sequences of system calls they are, with                            *)
(*   - a gocryptfs.diriv file in every directory, which rmdir first moves  *)
(*     to the parent directory,                                            *)
(*   - a .name file beside every entry whose encrypted name is too long,   *)
(*   - the cache of directory descriptors by path (dircache.go), through   *)
(*     which every path is resolved (helpers.go).                          *)
(* Threads call concurrently, the disk may be full, the process may be     *)
(* killed between any two steps.                                           *)
(*                                                                         *)
(* A name stands for its encryption: the IV of a directory never changes   *)
(* while the directory exists, so what matters is only that it is there.   *)
(* A .name file is created in one step and filled in another; creating and *)
(* filling a gocryptfs.diriv is one step, as both empty and absent it      *)
(* cannot be read.                                                         *)
(*                                                                         *)
(* dirCache.Delete takes no lock.  What it does between the steps of other *)
(* threads is modelled; once its Clear overlaps an access of another       *)
(* goroutine to the entry itself (a descriptor closed twice, an entry half *)
(* overwritten) the model ends: what it shows holds up to this data race.  *)
(***************************************************************************)
EXTENDS Naturals, Sequences, FiniteSets

CONSTANTS
    Threads,
    None,         \* nothing, no directory
    File,         \* an entry that is a file
    ShortNames,
    LongNames,    \* names stored as gocryptfs.longname.[sha256]
    Paths,        \* the plaintext paths the client uses
    NumDirs,      \* bound: directories, the root included
    CacheSize,    \* dirCacheSize
    Ops,          \* the calls the client makes
    DiskMayFill,  \* whether creating, filling or opening something may fail
    Populated,    \* directories that exist at the start
    MaxCalls,     \* bound: calls the client makes, 0 for no bound
    MaxKills,     \* bound: how often the process is killed
    Disciplined   \* whether the client avoids the calls that conflict

Names  == ShortNames \cup LongNames
AllOps == {"stat", "mkdir", "create", "remove", "rmdir", "rename"}

ASSUME DirTreeAssumption ==
    /\ ShortNames \cap LongNames = {}
    /\ None \notin Names /\ None \notin Nat /\ File # None /\ File \notin Nat
    /\ None \notin Threads
    /\ Paths \subseteq Seq(Names) \ {<< >>} /\ Paths # {} /\ None \notin Paths
    /\ NumDirs \in Nat \ {0}
    /\ CacheSize \in Nat \ {0}
    /\ Ops \subseteq AllOps
    /\ Populated \subseteq ShortNames
    /\ IsFiniteSet(Populated) /\ Cardinality(Populated) < NumDirs
    /\ MaxCalls \in Nat
    /\ MaxKills \in Nat
    /\ {DiskMayFill, Disciplined} \subseteq BOOLEAN

Root  == 1
Dirs  == 1..NumDirs
Slots == 0..(CacheSize - 1)

Kinds == Dirs \cup {File, None}

VARIABLES
    pc,         \* where each thread is
    loc,        \* its call and the local variables of it
    dirs,       \* the directories on disk, by inode
    torn,       \* the .name files in them that a kill left empty
    cache,      \* dirCache.entries: path and directory
    nextIndex,  \* dirCache.nextIndex
    clearing,   \* the entry that dirCache.Delete is about to clear
    raced,      \* it was cleared while another goroutine used it
    dirIVLock,  \* Volume.dirIVLock: its writer (nothing locks it for reading)
    renamed,    \* a directory was renamed since the cache was last cleared
    answer,     \* what each thread's last call returned
    calls,      \* how many calls were made, if they are bounded
    kills       \* how often the process was killed

threadVars == <<pc, loc, answer, calls>>
cacheVars  == <<cache, nextIndex, clearing, raced>>

vars == <<threadVars, dirs, torn, cacheVars, dirIVLock, renamed, kills>>

Locations ==
    {"idle", "lookup", "read_iv", "store", "open_dir",
     "stat", "unlink", "drop_removed", "write_name", "fill_name", "open_create", "lock",
     "mkdirat", "write_iv", "reopen", "drop_name",
     "open_victim", "move_iv", "rmdirat", "drop_tmp", "drop_victim", "uncache", "clear",
     "write_target", "fill_target", "renameat", "rename_again", "drop_target", "drop_source"}

\* All paths from the root to where the client's paths are.
Prefixes == UNION {{SubSeq(p, 1, n) : n \in 0..Len(p)} : p \in Paths}

Local ==
    [op     : AllOps \cup {"none"},  \* the library function
     path   : Paths \cup {None},     \* its path
     to     : Paths \cup {None},     \* the new path of rename
     goal   : Paths \cup {None},     \* the path prepareAtSyscall is at work on
     at     : Prefixes,              \* how far it has come
     dirfd  : Dirs \cup {None},      \* the directory it is in, then the result
     source : Dirs \cup {None},      \* rename: dirfd
     target : Dirs \cup {None},      \* rename: dirfd2
     victim : Dirs \cup {None},      \* the directory made or removed
     had    : BOOLEAN,               \* nameFileAlreadyThere
     nested : BOOLEAN]               \* in the gcf_rmdir that gcf_rename calls

Idle ==
    [op |-> "none", path |-> None, to |-> None, goal |-> None, at |-> << >>, dirfd |-> None,
     source |-> None, target |-> None, victim |-> None, had |-> FALSE, nested |-> FALSE]

NoDir    == [iv |-> FALSE, entries |-> [n \in Names |-> None], names |-> {}, moved |-> {}]
NoEntry  == [path |-> << >>, dir |-> None]

TypeOK ==
    /\ pc \in [Threads -> Locations]
    /\ loc \in [Threads -> Local]
    /\ answer \in [Threads -> BOOLEAN]
    /\ dirs \in [Dirs -> [iv      : BOOLEAN,           \* gocryptfs.diriv
                          entries : [Names -> Kinds],  \* content
                          names   : SUBSET LongNames,  \* .name files
                          moved   : SUBSET Dirs]]      \* gocryptfs.diriv.rmdir.*
    /\ cache \in [Slots -> [path : Prefixes, dir : Dirs \cup {None}]]
    /\ nextIndex \in Slots
    /\ clearing \in Slots \cup {None}
    /\ raced \in BOOLEAN
    /\ torn \subseteq Dirs \X LongNames
    /\ dirIVLock \in Threads \cup {None}
    /\ renamed \in BOOLEAN
    /\ calls \in 0..MaxCalls
    /\ kills \in 0..MaxKills

\* The inodes of the directories an earlier run made.
PopulatedDirs ==
    CHOOSE f \in [Populated -> Dirs \ {Root}] : \A m, n \in Populated : m # n => f[m] # f[n]

Init ==
    /\ pc = [t \in Threads |-> "idle"]
    /\ loc = [t \in Threads |-> Idle]
    /\ answer = [t \in Threads |-> FALSE]
    /\ dirs = [d \in Dirs |->
                [NoDir EXCEPT !.iv = d = Root \/ \E n \in Populated : PopulatedDirs[n] = d,
                              !.entries = [n \in Names |->
                                IF d = Root /\ n \in Populated THEN PopulatedDirs[n] ELSE None]]]
    /\ cache = [i \in Slots |-> NoEntry]
    /\ torn = {}
    /\ nextIndex = 0
    /\ clearing = None
    /\ raced = FALSE
    /\ dirIVLock = None
    /\ renamed = FALSE
    /\ calls = 0
    /\ kills = 0

-----------------------------------------------------------------------------
(* Helpers.  Deliberate faults, here and below, carry the name of the       *)
(* operator they replace and of the mistake.                               *)

Parent(p)   == SubSeq(p, 1, Len(p) - 1)
Basename(p) == p[Len(p)]
Within(p, q) == Len(q) <= Len(p) /\ SubSeq(p, 1, Len(q)) = q
IsLong(p)   == Basename(p) \in LongNames

\* The plaintext tree: what the calls find that are given a path.  They hash a
\* long name and do not read its .name file; only gcf_list_dir does.
\* The ways down a path: from each directory, the root first, the next one.
Walks(p) ==
    {w \in [1..Len(p) -> Dirs] :
        \A i \in 1..Len(p) : dirs[IF i = 1 THEN Root ELSE w[i - 1]].entries[p[i]] = w[i]}

DirAt(p) ==
    IF p = << >> THEN Root
    ELSE IF Walks(p) = {} THEN None ELSE (CHOOSE w \in Walks(p) : TRUE)[Len(p)]

KindAt(p) ==
    LET d == DirAt(Parent(p))
        e == IF d = None THEN None ELSE dirs[d].entries[Basename(p)]
    IN  IF e \in Dirs THEN "dir" ELSE IF e = File THEN "file" ELSE None

Linked(d) == d = Root \/ \E e \in Dirs, n \in Names : dirs[e].entries[n] = d

\* rmdir(2) and rename(2) look at everything in the directory.
IsEmpty(d) == dirs[d] = NoDir

Children(d) ==
    Cardinality({n \in Names : dirs[d].entries[n] # None}) + Cardinality(dirs[d].names)
        + Cardinality(dirs[d].moved) + (IF dirs[d].iv THEN 1 ELSE 0)

\* Inodes neither linked nor held open by anybody.
FreeDirs ==
    {d \in Dirs : /\ ~Linked(d)
                  /\ \A i \in Slots : cache[i].dir # d
                  /\ \A e \in Dirs : d \notin dirs[e].moved
                  /\ \A t \in Threads :
                        d \notin {loc[t].dirfd, loc[t].source, loc[t].target, loc[t].victim}}

Lowest(S) == CHOOSE x \in S : \A y \in S : x <= y

\* The library function returns to the client.
Return(t, result) ==
    /\ pc' = [pc EXCEPT ![t] = "idle"]
    /\ loc' = [loc EXCEPT ![t] = Idle]
    /\ answer' = [answer EXCEPT ![t] = result]
    /\ UNCHANGED calls

\* It goes on; local variables may change, the answer does not.
GoOn(t, to, local) ==
    /\ pc' = [pc EXCEPT ![t] = to]
    /\ loc' = [loc EXCEPT ![t] = local]
    /\ UNCHANGED <<answer, calls>>

\* gcf_rename fails once its .name file may exist: it undoes it.
Undo(t) ==
    IF IsLong(loc[t].to) /\ ~loc[t].had
    THEN GoOn(t, "drop_target", loc[t])
    ELSE Return(t, FALSE)

\* A path cannot be resolved or a directory removed: to gcf_rename the latter
\* is the failure of the gcf_rmdir it called.
Fail(t) == IF loc[t].nested THEN Undo(t) ELSE Return(t, FALSE)

-----------------------------------------------------------------------------
(* The client.  A disciplined one makes no two calls on one path at a      *)
(* time, renames directories while nothing else goes on and lets the cache *)
(* expire before its next call; it renames nothing to itself or over a     *)
(* directory with a long name.  None moves content to where the model has  *)
(* no paths.                                                               *)

Busy == {t \in Threads : pc[t] # "idle"}

PathsOf(t) == {loc[t].path, loc[t].to} \ {None}

Begin(t, op, p, q) ==
    /\ pc[t] = "idle"
    /\ pc' = [pc EXCEPT ![t] = "lookup"]
    /\ op \in Ops
    /\ \/ MaxCalls = 0 /\ UNCHANGED calls
       \/ calls < MaxCalls /\ calls' = calls + 1
    /\ Disciplined => ~renamed /\ \A u \in Busy : PathsOf(u) \cap {p, q} = {}
    /\ loc' = [loc EXCEPT ![t] =
                [Idle EXCEPT !.op = op, !.path = p, !.to = q, !.goal = p, !.at = Parent(p)]]
    /\ UNCHANGED <<answer, dirs, torn, cacheVars, dirIVLock, renamed, kills>>

RenamesDir(u) == loc[u].op = "rename" /\ KindAt(loc[u].path) = "dir"

Call(t) == \E op \in AllOps \ {"rename"}, p \in Paths :
    /\ Begin(t, op, p, None)
    /\ Disciplined => \A u \in Busy : ~RenamesDir(u)

Rename(t) == \E p, q \in Paths :
    /\ Begin(t, "rename", p, q)
    /\ \A x \in Paths :
        Within(x, p) /\ KindAt(x) # None => q \o SubSeq(x, Len(p) + 1, Len(x)) \in Paths
    /\ Disciplined =>
        /\ p # q
        /\ KindAt(p) = "dir" => Busy = {}
        /\ \A u \in Busy : ~RenamesDir(u)
        /\ ~(KindAt(q) = "dir" /\ IsLong(q))

-----------------------------------------------------------------------------
(* prepareAtSyscall: the cached directory that is the longest prefix of    *)
(* the parent path, and from there each directory is opened, its IV read   *)
(* and the descriptor cached.                                              *)

\* Where a call goes on when the parent of its path is open.
AfterResolve(t) ==
    CASE loc[t].op = "stat"   -> "stat"
      [] loc[t].op = "remove" -> "unlink"
      [] loc[t].op = "rmdir" \/ loc[t].nested -> "open_victim"
      [] loc[t].op = "create" -> IF IsLong(loc[t].path) THEN "write_name" ELSE "open_create"
      [] loc[t].op = "mkdir"  -> IF IsLong(loc[t].path) THEN "write_name" ELSE "lock"
      [] OTHER -> IF IsLong(loc[t].to) THEN "write_target" ELSE "renameat"

\* Directory d is the one at path loc[t].at.
Entered(t, d) ==
    LET call == [loc[t] EXCEPT !.dirfd = d]
    IN  IF call.at # Parent(call.goal) THEN GoOn(t, "open_dir", call)
        ELSE IF call.op = "rename" /\ call.goal = call.path /\ call.source = None
        THEN GoOn(t, "lookup",
                  [call EXCEPT !.source = d, !.goal = call.to, !.at = Parent(call.to), !.dirfd = None])
        ELSE IF call.op = "rename" /\ ~call.nested
        THEN GoOn(t, AfterResolve(t), [call EXCEPT !.target = d, !.dirfd = None])
        ELSE GoOn(t, AfterResolve(t), call)

Hits(p) == {i \in Slots : cache[i].dir # None /\ cache[i].path = p}

LookupHit(t) ==
    /\ pc[t] = "lookup"
    /\ Hits(loc[t].at) # {}
    /\ Entered(t, cache[Lowest(Hits(loc[t].at))].dir)
    /\ UNCHANGED <<dirs, torn, cacheVars, dirIVLock, renamed, kills>>

\* Try the parent; the root directory can always be opened.
LookupMiss(t) ==
    /\ pc[t] = "lookup"
    /\ Hits(loc[t].at) = {}
    /\ IF loc[t].at = << >>
       THEN GoOn(t, "read_iv", [loc[t] EXCEPT !.dirfd = Root])
       ELSE GoOn(t, "lookup", [loc[t] EXCEPT !.at = Parent(@)])
    /\ UNCHANGED <<dirs, torn, cacheVars, dirIVLock, renamed, kills>>

OpenDir(t) ==
    LET name  == loc[t].goal[Len(loc[t].at) + 1]
        entry == dirs[loc[t].dirfd].entries[name]
    IN  /\ pc[t] = "open_dir"
        /\ IF entry \in Dirs
           THEN GoOn(t, "read_iv",
                     [loc[t] EXCEPT !.dirfd = entry, !.at = Append(@, name)])
           ELSE Fail(t)
        /\ UNCHANGED <<dirs, torn, cacheVars, dirIVLock, renamed, kills>>

ReadDirIV(t) ==
    /\ pc[t] = "read_iv"
    /\ IF dirs[loc[t].dirfd].iv
       THEN GoOn(t, "store", loc[t])
       ELSE Fail(t)
    /\ UNCHANGED <<dirs, torn, cacheVars, dirIVLock, renamed, kills>>

StoreUnderGoal(t) ==
    /\ pc[t] = "store"
    /\ Entered(t, loc[t].dirfd)
    /\ cache' = [cache EXCEPT ![nextIndex] = [path |-> Parent(loc[t].goal), dir |-> loc[t].dirfd]]
    /\ nextIndex' = (nextIndex + 1) % CacheSize
    /\ UNCHANGED <<dirs, torn, clearing, raced, dirIVLock, renamed, kills>>

StoreCacheNoWrap(t) ==
    /\ pc[t] = "store"
    /\ Entered(t, loc[t].dirfd)
    /\ cache' = [cache EXCEPT ![nextIndex] = [path |-> loc[t].at, dir |-> loc[t].dirfd]]
    /\ nextIndex' = nextIndex + 1
    /\ UNCHANGED <<dirs, torn, clearing, raced, dirIVLock, renamed, kills>>

StoreCache(t) ==
    /\ pc[t] = "store"
    /\ Entered(t, loc[t].dirfd)
    /\ cache' = [cache EXCEPT ![nextIndex] = [path |-> loc[t].at, dir |-> loc[t].dirfd]]
    /\ nextIndex' = (nextIndex + 1) % CacheSize
    /\ UNCHANGED <<dirs, torn, clearing, raced, dirIVLock, renamed, kills>>

\* expireThread clears the cache every 60 seconds.
Expire ==
    /\ renamed \/ \E i \in Slots : cache[i] # NoEntry
    /\ cache' = [i \in Slots |-> NoEntry]
    /\ renamed' = FALSE
    /\ UNCHANGED <<threadVars, dirs, torn, nextIndex, clearing, raced, dirIVLock, kills>>

-----------------------------------------------------------------------------
(* The calls, from the open parent directory on.                           *)

Name(t)  == Basename(loc[t].goal)
Entry(t) == dirs[loc[t].dirfd].entries[Name(t)]

Put(d, n, e) == [dirs EXCEPT ![d].entries[n] = e]

Stat(t) ==
    /\ pc[t] = "stat"
    /\ Return(t, Entry(t) # None)
    /\ UNCHANGED <<dirs, torn, cacheVars, dirIVLock, renamed, kills>>

\* The .name files that are gone with their directory entry.
NameGone(d, n) == torn' = torn \ {<<d, n>>}

\* WriteLongNameAt for mkdir and create: it reads the IV of the directory
\* again, and the .name file must be new.
WriteLongName(t) ==
    LET d == dirs[loc[t].dirfd]
    IN  /\ pc[t] = "write_name"
        /\ d.iv /\ Name(t) \notin d.names
        /\ GoOn(t, "fill_name", loc[t])
        /\ dirs' = [dirs EXCEPT ![loc[t].dirfd].names = @ \cup {Name(t)}]
        /\ UNCHANGED <<torn, cacheVars, dirIVLock, renamed, kills>>

WriteLongNameFails(t) ==
    LET d == dirs[loc[t].dirfd]
    IN  /\ pc[t] = "write_name"
        /\ ~d.iv \/ Name(t) \in d.names \/ DiskMayFill
        /\ Return(t, FALSE)
        /\ UNCHANGED <<dirs, torn, cacheVars, dirIVLock, renamed, kills>>

AfterName(t) == IF loc[t].op = "mkdir" THEN "lock" ELSE "open_create"

FillName(t) ==
    /\ pc[t] = "fill_name"
    /\ GoOn(t, AfterName(t), loc[t])
    /\ UNCHANGED <<dirs, torn, cacheVars, dirIVLock, renamed, kills>>

\* "Delete incomplete longname file".
FillNameFails(t) ==
    /\ pc[t] = "fill_name"
    /\ DiskMayFill
    /\ GoOn(t, "drop_name", loc[t])
    /\ UNCHANGED <<dirs, torn, cacheVars, dirIVLock, renamed, kills>>

GiveUpKeepsName(t) == Return(t, FALSE)

\* The content was not created: DeleteLongNameAt, then failure.
GiveUp(t) == IF IsLong(loc[t].path) THEN GoOn(t, "drop_name", loc[t])
             ELSE Return(t, FALSE)

DropName(t) ==
    /\ pc[t] = "drop_name"
    /\ Return(t, FALSE)
    /\ dirs' = [dirs EXCEPT ![loc[t].dirfd].names = @ \ {Name(t)}]
    /\ NameGone(loc[t].dirfd, Name(t))
    /\ UNCHANGED <<cacheVars, dirIVLock, renamed, kills>>

\* openat(2) with O_CREAT: what gcf_open_write_mode does with the file then is
\* HandleTable's.
OpenCreate(t) ==
    /\ pc[t] = "open_create"
    /\ Linked(loc[t].dirfd)
    /\ Entry(t) \in {None, File}
    /\ Return(t, TRUE)
    /\ dirs' = Put(loc[t].dirfd, Name(t), File)
    /\ UNCHANGED <<torn, cacheVars, dirIVLock, renamed, kills>>

OpenCreateFails(t) ==
    /\ pc[t] = "open_create"
    /\ \/ ~Linked(loc[t].dirfd)
       \/ Entry(t) \in Dirs
       \/ DiskMayFill /\ Entry(t) = None
    /\ GiveUp(t)
    /\ UNCHANGED <<dirs, torn, cacheVars, dirIVLock, renamed, kills>>

Unlink(t) ==
    /\ pc[t] = "unlink"
    /\ Entry(t) = File
    /\ IF IsLong(loc[t].path) THEN GoOn(t, "drop_removed", loc[t])
       ELSE Return(t, TRUE)
    /\ dirs' = Put(loc[t].dirfd, Name(t), None)
    /\ UNCHANGED <<torn, cacheVars, dirIVLock, renamed, kills>>

UnlinkFails(t) ==
    /\ pc[t] = "unlink"
    /\ Entry(t) # File
    /\ Return(t, FALSE)
    /\ UNCHANGED <<dirs, torn, cacheVars, dirIVLock, renamed, kills>>

DropRemovedName(t) ==
    /\ pc[t] = "drop_removed"
    /\ Return(t, Name(t) \in dirs[loc[t].dirfd].names)
    /\ dirs' = [dirs EXCEPT ![loc[t].dirfd].names = @ \ {Name(t)}]
    /\ NameGone(loc[t].dirfd, Name(t))
    /\ UNCHANGED <<cacheVars, dirIVLock, renamed, kills>>

-----------------------------------------------------------------------------
(* mkdirWithIv                                                             *)

LockDirIV(t) ==
    /\ pc[t] = "lock"
    /\ dirIVLock = None
    /\ dirIVLock' = t
    /\ GoOn(t, IF loc[t].op = "mkdir" THEN "mkdirat" ELSE "move_iv", loc[t])
    /\ UNCHANGED <<dirs, torn, cacheVars, renamed, kills>>

Mkdirat(t) ==
    /\ pc[t] = "mkdirat"
    /\ Linked(loc[t].dirfd)
    /\ Entry(t) = None
    /\ FreeDirs # {}
    /\ LET d == Lowest(FreeDirs)
       IN  /\ dirs' = Put(loc[t].dirfd, Name(t), d)
           /\ GoOn(t, "write_iv", [loc[t] EXCEPT !.victim = d])
    /\ UNCHANGED <<torn, cacheVars, dirIVLock, renamed, kills>>

MkdiratFails(t) ==
    /\ pc[t] = "mkdirat"
    /\ ~Linked(loc[t].dirfd) \/ Entry(t) # None \/ FreeDirs = {} \/ DiskMayFill
    /\ GiveUp(t)
    /\ dirIVLock' = None
    /\ UNCHANGED <<dirs, torn, cacheVars, renamed, kills>>

WriteDirIV(t) ==
    /\ pc[t] = "write_iv"
    /\ GoOn(t, "reopen", loc[t])
    /\ dirs' = [dirs EXCEPT ![loc[t].victim].iv = TRUE]
    /\ dirIVLock' = None
    /\ UNCHANGED <<torn, cacheVars, renamed, kills>>

\* "Delete inconsistent directory".
WriteDirIVFails(t) ==
    /\ pc[t] = "write_iv"
    /\ DiskMayFill
    /\ GiveUp(t)
    /\ dirs' = IF Entry(t) \in Dirs /\ IsEmpty(Entry(t)) THEN Put(loc[t].dirfd, Name(t), None)
               ELSE dirs
    /\ dirIVLock' = None
    /\ UNCHANGED <<torn, cacheVars, renamed, kills>>

\* gcf_mkdir opens the directory to fix its permissions; if it cannot it reports
\* failure, but leaves the directory.
Reopen(t) ==
    /\ pc[t] = "reopen"
    /\ \/ Return(t, Entry(t) \in Dirs)
       \/ DiskMayFill /\ Return(t, FALSE)
    /\ UNCHANGED <<dirs, torn, cacheVars, dirIVLock, renamed, kills>>

-----------------------------------------------------------------------------
(* gcf_rmdir, called by the client or by gcf_rename                        *)

OpenVictim(t) ==
    /\ pc[t] = "open_victim"
    /\ IF Entry(t) \in Dirs /\ Children(Entry(t)) <= 1
       THEN GoOn(t, "lock", [loc[t] EXCEPT !.victim = Entry(t)])
       ELSE Fail(t)
    /\ UNCHANGED <<dirs, torn, cacheVars, dirIVLock, renamed, kills>>

\* rename gocryptfs.diriv to gocryptfs.diriv.rmdir.[random] one level up.
MoveIV(t) ==
    LET v == loc[t].victim
    IN  /\ pc[t] = "move_iv"
        /\ dirs[v].iv /\ Linked(loc[t].dirfd)
        /\ GoOn(t, "rmdirat", loc[t])
        /\ dirs' = [dirs EXCEPT ![v].iv = FALSE, ![loc[t].dirfd].moved = @ \cup {v}]
        /\ UNCHANGED <<torn, cacheVars, dirIVLock, renamed, kills>>

MoveIVFails(t) ==
    /\ pc[t] = "move_iv"
    /\ ~(dirs[loc[t].victim].iv /\ Linked(loc[t].dirfd))
    /\ Fail(t)
    /\ dirIVLock' = None
    /\ UNCHANGED <<dirs, torn, cacheVars, renamed, kills>>

Rmdirat(t) ==
    /\ pc[t] = "rmdirat"
    /\ Entry(t) \in Dirs /\ IsEmpty(Entry(t))
    /\ GoOn(t, "drop_tmp", loc[t])
    /\ dirs' = Put(loc[t].dirfd, Name(t), None)
    /\ UNCHANGED <<torn, cacheVars, dirIVLock, renamed, kills>>

RmdiratNoUndo(t) ==
    /\ pc[t] = "rmdirat"
    /\ ~(Entry(t) \in Dirs /\ IsEmpty(Entry(t)))
    /\ Fail(t)
    /\ dirIVLock' = None
    /\ UNCHANGED <<dirs, torn, cacheVars, renamed, kills>>

\* Something was created in the directory in the meantime: move the IV back.
RmdiratFails(t) ==
    LET v == loc[t].victim
    IN  /\ pc[t] = "rmdirat"
        /\ ~(Entry(t) \in Dirs /\ IsEmpty(Entry(t)))
        /\ Fail(t)
        /\ dirs' = [dirs EXCEPT ![v].iv = TRUE, ![loc[t].dirfd].moved = @ \ {v}]
        /\ dirIVLock' = None
        /\ UNCHANGED <<torn, cacheVars, renamed, kills>>

DropTmp(t) ==
    /\ pc[t] = "drop_tmp"
    /\ GoOn(t, IF Name(t) \in LongNames THEN "drop_victim" ELSE "uncache", loc[t])
    /\ dirs' = [dirs EXCEPT ![loc[t].dirfd].moved = @ \ {loc[t].victim}]
    /\ UNCHANGED <<torn, cacheVars, dirIVLock, renamed, kills>>

DropVictimName(t) ==
    /\ pc[t] = "drop_victim"
    /\ GoOn(t, "uncache", loc[t])
    /\ dirs' = [dirs EXCEPT ![loc[t].dirfd].names = @ \ {Name(t)}]
    /\ NameGone(loc[t].dirfd, Name(t))
    /\ UNCHANGED <<cacheVars, dirIVLock, renamed, kills>>

RmdirReturns(t) ==
    IF loc[t].nested THEN GoOn(t, "rename_again", loc[t])
    ELSE Return(t, TRUE)

UncacheNothing(t) ==
    /\ pc[t] = "uncache"
    /\ RmdirReturns(t)
    /\ dirIVLock' = None
    /\ UNCHANGED <<dirs, torn, cacheVars, renamed, kills>>

\* dirCache.Delete, without its lock, finds the first entry of the path ...
Uncache(t) ==
    /\ pc[t] = "uncache"
    /\ IF Hits(loc[t].goal) = {}
       THEN RmdirReturns(t) /\ dirIVLock' = None /\ UNCHANGED clearing
       ELSE GoOn(t, "clear", loc[t]) /\ clearing' = Lowest(Hits(loc[t].goal)) /\ UNCHANGED dirIVLock
    /\ UNCHANGED <<dirs, torn, cache, nextIndex, raced, renamed, kills>>

\* ... and clears what is in it by then.
ClearCached(t) ==
    /\ pc[t] = "clear"
    /\ RmdirReturns(t)
    /\ cache' = [cache EXCEPT ![clearing] = NoEntry]
    /\ clearing' = None
    /\ dirIVLock' = None
    /\ UNCHANGED <<dirs, torn, nextIndex, raced, renamed, kills>>

\* Meanwhile Lookup or Store of another call or expireThread is at the entry.
Race(t) ==
    /\ pc[t] = "clear"
    /\ raced' = TRUE
    /\ UNCHANGED <<threadVars, dirs, torn, cache, nextIndex, clearing, dirIVLock, renamed, kills>>

-----------------------------------------------------------------------------
(* gcf_rename, from its two open directories on                            *)

NewName(t) == Basename(loc[t].to)
OldName(t) == Basename(loc[t].path)

OldEntry(t) == dirs[loc[t].source].entries[OldName(t)]
NewEntry(t) == dirs[loc[t].target].entries[NewName(t)]

WriteTargetNameForgets(t) ==
    /\ pc[t] = "write_target"
    /\ dirs[loc[t].target].iv
    /\ GoOn(t, IF NewName(t) \in dirs[loc[t].target].names THEN "renameat" ELSE "fill_target", loc[t])
    /\ dirs' = [dirs EXCEPT ![loc[t].target].names = @ \cup {NewName(t)}]
    /\ UNCHANGED <<torn, cacheVars, dirIVLock, renamed, kills>>

\* An existing .name file of the target is kept, and not removed on failure.
WriteTargetName(t) ==
    LET d == dirs[loc[t].target]
    IN  /\ pc[t] = "write_target"
        /\ d.iv
        /\ IF NewName(t) \in d.names
           THEN GoOn(t, "renameat", [loc[t] EXCEPT !.had = TRUE])
           ELSE GoOn(t, "fill_target", [loc[t] EXCEPT !.had = FALSE])
        /\ dirs' = [dirs EXCEPT ![loc[t].target].names = @ \cup {NewName(t)}]
        /\ UNCHANGED <<torn, cacheVars, dirIVLock, renamed, kills>>

WriteTargetNameFails(t) ==
    LET d == dirs[loc[t].target]
    IN  /\ pc[t] = "write_target"
        /\ ~d.iv \/ (DiskMayFill /\ NewName(t) \notin d.names)
        /\ Return(t, FALSE)
        /\ UNCHANGED <<dirs, torn, cacheVars, dirIVLock, renamed, kills>>

FillTarget(t) ==
    /\ pc[t] = "fill_target"
    /\ GoOn(t, "renameat", loc[t])
    /\ UNCHANGED <<dirs, torn, cacheVars, dirIVLock, renamed, kills>>

FillTargetFails(t) ==
    /\ pc[t] = "fill_target"
    /\ DiskMayFill
    /\ GoOn(t, "drop_target", loc[t])
    /\ UNCHANGED <<dirs, torn, cacheVars, dirIVLock, renamed, kills>>

\* Directory d is e or below it: in every set that has e and what is in its directories.
Below(d, e) ==
    \A S \in SUBSET Dirs :
        /\ e \in S
        /\ \A f \in S, n \in Names : dirs[f].entries[n] \in Dirs => dirs[f].entries[n] \in S
        => d \in S

\* rename(2)
CanRename(t) ==
    LET old == OldEntry(t)
        new == NewEntry(t)
    IN  /\ old # None
        /\ Linked(loc[t].target)
        /\ \/ new = old
           \/ old = File /\ new \in {None, File}
           \/ /\ old \in Dirs /\ ~Below(loc[t].target, old)
              /\ new = None \/ (new \in Dirs /\ IsEmpty(new))

\* It fails with ENOTEMPTY: every directory holds its gocryptfs.diriv.
InTheWay(t) ==
    /\ OldEntry(t) \in Dirs /\ NewEntry(t) \in Dirs
    /\ Linked(loc[t].target)
    /\ ~Below(loc[t].target, OldEntry(t))
    /\ NewEntry(t) # OldEntry(t)
    /\ ~IsEmpty(NewEntry(t))

RenameatShadowsErr(t, from) ==
    /\ pc[t] = from
    /\ CanRename(t)
    /\ IF from = "rename_again" THEN Undo(t)
       ELSE IF IsLong(loc[t].path) THEN GoOn(t, "drop_source", loc[t])
       ELSE Return(t, TRUE)
    /\ dirs' = IF loc[t].source = loc[t].target /\ OldName(t) = NewName(t) THEN dirs
               ELSE [Put(loc[t].target, NewName(t), OldEntry(t))
                        EXCEPT ![loc[t].source].entries[OldName(t)] = None]
    /\ renamed' = (renamed \/ OldEntry(t) \in Dirs)
    /\ UNCHANGED <<torn, cacheVars, dirIVLock, kills>>

Renameat(t, from) ==
    /\ pc[t] = from
    /\ CanRename(t)
    /\ IF IsLong(loc[t].path) THEN GoOn(t, "drop_source", loc[t])
       ELSE Return(t, TRUE)
    /\ dirs' = IF loc[t].source = loc[t].target /\ OldName(t) = NewName(t) THEN dirs
               ELSE [Put(loc[t].target, NewName(t), OldEntry(t))
                        EXCEPT ![loc[t].source].entries[OldName(t)] = None]
    /\ renamed' = (renamed \/ OldEntry(t) \in Dirs)
    /\ UNCHANGED <<torn, cacheVars, dirIVLock, kills>>

\* gcf_rmdir(newPath), which resolves the path anew.
RemoveTarget(t) ==
    /\ pc[t] = "renameat"
    /\ InTheWay(t)
    /\ GoOn(t, "lookup",
            [loc[t] EXCEPT !.nested = TRUE, !.goal = loc[t].to, !.at = Parent(loc[t].to)])
    /\ UNCHANGED <<dirs, torn, cacheVars, dirIVLock, renamed, kills>>

RenameatFails(t, from) ==
    /\ pc[t] = from
    /\ ~CanRename(t)
    /\ from = "renameat" => ~InTheWay(t)
    /\ Undo(t)
    /\ UNCHANGED <<dirs, torn, cacheVars, dirIVLock, renamed, kills>>

DropTargetName(t) ==
    /\ pc[t] = "drop_target"
    /\ Return(t, FALSE)
    /\ dirs' = [dirs EXCEPT ![loc[t].target].names = @ \ {NewName(t)}]
    /\ NameGone(loc[t].target, NewName(t))
    /\ UNCHANGED <<cacheVars, dirIVLock, renamed, kills>>

DropSourceName(t) ==
    /\ pc[t] = "drop_source"
    /\ Return(t, TRUE)
    /\ dirs' = [dirs EXCEPT ![loc[t].source].names = @ \ {OldName(t)}]
    /\ NameGone(loc[t].source, OldName(t))
    /\ UNCHANGED <<cacheVars, dirIVLock, renamed, kills>>

-----------------------------------------------------------------------------
\* The .name file n of directory d is created and not yet filled.
Fills(t, d, n) ==
    \/ pc[t] = "fill_name" /\ loc[t].dirfd = d /\ Name(t) = n
    \/ pc[t] = "fill_target" /\ loc[t].target = d /\ NewName(t) = n

\* The process is killed and started again.
Die ==
    /\ kills < MaxKills
    /\ kills' = kills + 1
    /\ pc' = [t \in Threads |-> "idle"]
    /\ loc' = [t \in Threads |-> Idle]
    /\ cache' = [i \in Slots |-> NoEntry]
    /\ nextIndex' = 0
    /\ clearing' = None
    /\ torn' = torn \cup {f \in Dirs \X LongNames : \E t \in Threads : Fills(t, f[1], f[2])}
    /\ dirIVLock' = None
    /\ renamed' = FALSE
    /\ UNCHANGED <<answer, calls, dirs, raced>>

\* The client has made all its calls, and all of them returned.
Finished == calls = MaxCalls /\ MaxCalls > 0 /\ Busy = {}

Resolve(t) ==
    \/ LookupHit(t) \/ LookupMiss(t) \/ OpenDir(t) \/ ReadDirIV(t) \/ StoreCache(t)

CreateRemove(t) ==
    \/ Stat(t) \/ Unlink(t) \/ UnlinkFails(t) \/ DropRemovedName(t)
    \/ WriteLongName(t) \/ WriteLongNameFails(t) \/ FillName(t) \/ FillNameFails(t)
    \/ OpenCreate(t) \/ OpenCreateFails(t) \/ DropName(t)

MkdirRmdir(t) ==
    \/ LockDirIV(t)
    \/ Mkdirat(t) \/ MkdiratFails(t) \/ WriteDirIV(t) \/ WriteDirIVFails(t) \/ Reopen(t)
    \/ OpenVictim(t) \/ MoveIV(t) \/ MoveIVFails(t)
    \/ Rmdirat(t) \/ RmdiratFails(t) \/ DropTmp(t) \/ DropVictimName(t)
    \/ Uncache(t) \/ ClearCached(t)

RenameSteps(t) ==
    \/ WriteTargetName(t) \/ WriteTargetNameFails(t) \/ FillTarget(t) \/ FillTargetFails(t)
    \/ RemoveTarget(t)
    \/ \E from \in {"renameat", "rename_again"} : Renameat(t, from) \/ RenameatFails(t, from)
    \/ DropTargetName(t) \/ DropSourceName(t)

Steps(t) == Resolve(t) \/ CreateRemove(t) \/ MkdirRmdir(t) \/ RenameSteps(t)

Next ==
    \/ /\ ~raced
       /\ \/ \E t \in Threads : Call(t) \/ Rename(t) \/ Steps(t) \/ Race(t)
          \/ Expire
          \/ Die
    \/ (Finished \/ raced) /\ UNCHANGED vars

Spec == Init /\ [][Next]_vars

-----------------------------------------------------------------------------
(* Properties                                                              *)

\* "Files with long names are stored in two files" (longnames.go:16-18): at
\* every moment, and so after a kill at any moment, content with a long name
\* has the .name file without which nobody finds it again, and no call has
\* still to fill it.  Only the .name file may be empty that a kill left so
\* (torn): create and mkdir then fail, but gcf_rename takes it for one
\* that is in use (common_ops.go:89).
ContentHasName ==
    \A d \in Dirs, n \in LongNames : dirs[d].entries[n] # None =>
        n \in dirs[d].names /\ \A t \in Threads : ~Fills(t, d, n)

\* Every directory is complete while nobody holds dirIVLock (volume.go:40-42):
\* without its gocryptfs.diriv it can neither be used nor be removed.
DirsHaveIV ==
    kills = 0 /\ dirIVLock = None => \A d \in Dirs : Linked(d) => dirs[d].iv

\* No call leaves a .name file without content or a moved diriv behind, whether
\* it succeeds or fails: either would make later calls fail (WriteLongNameAt
\* wants a new file, rmdir an empty directory).
NothingLeftBehind ==
    kills = 0 /\ Busy = {} =>
        \A d \in Dirs :
            /\ dirs[d].moved = {}
            /\ \A n \in dirs[d].names : dirs[d].entries[n] # None

\* For one thread that waits after renaming a directory, the cache has for
\* each path the directory that is there, and so no call ends up in another.
CacheIsExact ==
    ~renamed /\ dirIVLock = None =>
        \A i \in Slots : cache[i].dir # None => cache[i].dir = DirAt(cache[i].path)

\* A call took effect on the tree and has still to return.
Committed(t) ==
    \/ pc[t] \in {"write_iv", "reopen", "drop_removed", "drop_source"}
    \/ pc[t] \in {"drop_tmp", "drop_victim", "uncache", "clear"} /\ ~loc[t].nested

CallOf(t) ==
    [op |-> loc[t].op, path |-> loc[t].path, to |-> loc[t].to, done |-> Committed(t)]

Tree == INSTANCE PlainTree
    WITH tree <- [p \in Paths |-> KindAt(p)],
         calls <- [t \in Threads |-> CallOf(t)],
         Reliable <- Cardinality(Threads) = 1 /\ ~DiskMayFill /\ MaxKills = 0

\* The volume is a plain tree: each call takes effect as a whole or fails
\* without effect, and without other threads, a full disk or a kill it fails
\* only if it cannot be done.
ImplementsPlainTree == Tree!Spec
=============================================================================
