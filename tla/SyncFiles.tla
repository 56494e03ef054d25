------------------------------ MODULE SyncFiles -------------------------------
(***************************************************************************)
(* gcfs sync (sync.go): the one-way mirror between a plaintext directory   *)
(* and a volume.  A sync walks the source, copies each file whose size or  *)
(* modification time differs, gives the copy the time of the original, and *)
(* with -delete removes from the target what it did not see in the source. *)
(* It stops in the middle when the process is killed or a call fails, and  *)
(* the next sync has to put right what it left.  The user changes files    *)
(* between two syncs, and those of the source also during one.             *)
(*                                                                         *)
(* The volume is the plain tree of PlainTree with the files of PlainFile.  *)
(* A file's content is a sequence of chunks, one gcf_write_file each.      *)
(* Both sides are rooted where -base says.  Entries of a directory come in *)
(* any order.                                                              *)
(*                                                                         *)
(* Calls whose result nobody looks at always work here: gcf_truncate of    *)
(* the copy (sync.go:188), gcf_set_mtime and os.Chtimes (sync.go:161, 310).*)
(* A listing of the volume is complete or fails: entries whose name cannot *)
(* be read or decrypted, which listDir passes over without a word          *)
(* (cli.go:104-117), do not occur.                                         *)
(***************************************************************************)
EXTENDS Naturals, Sequences

CONSTANTS
    Names,
    Paths,           \* non-empty sequences of names
    LongPaths,       \* those whose last name is long
    DirPaths,        \* those that are directories at the start
    Values,          \* what a chunk can hold
    MaxChunks,       \* bound: chunks of a file
    Window,          \* syncOpts.window, in seconds
    Options,         \* the sets of options syncs are started with
    UnreadableDirs,  \* whether reading a directory of the plaintext side may fail
    ReadErrors,      \* whether reading a file of the volume may fail
    MaxTime,         \* bound: seconds that pass
    MaxSyncs,        \* bound: syncs started
    MaxKills,        \* bound: syncs that are killed or stop at an error
    MaxChanges,      \* bound: changes the user makes
    Disciplined      \* whether the user avoids the changes a sync cannot see

AllOptions == {"delete", "checksum", "dryRun"}

ASSUME SyncAssumption ==
    /\ Paths \subseteq Seq(Names) \ {<< >>}
    /\ LongPaths \subseteq Paths /\ DirPaths \subseteq Paths
    /\ MaxChunks \in Nat \ {0}
    /\ {Window, MaxTime, MaxSyncs, MaxKills, MaxChanges} \subseteq Nat
    /\ Options \subseteq SUBSET AllOptions
    /\ {UnreadableDirs, ReadErrors, Disciplined} \subseteq BOOLEAN

VARIABLES
    plain,    \* the plaintext directory: what is at each path
    vol,      \* the volume, likewise
    now,      \* the clock, in seconds
    pc,       \* where the sync is
    way,      \* encryptSync or decryptSync
    opts,     \* syncOpts
    todo,     \* entries that directory listings returned and that wait their turn
    seen,     \* seen
    cur,      \* the entry at work, with the time its source had when it was looked at
    off,      \* offset of the next chunk
    result,   \* how the last sync ended
    touched,  \* paths the user changed since the last sync began
    counts    \* syncs, kills and changes so far

trees   == <<plain, vol>>
syncing == <<way, opts>>
copying == <<cur, off>>
found   == <<todo, seen>>

vars == <<trees, now, pc, syncing, found, copying, result, touched, counts>>

Root     == << >>
Contents == UNION {[1..n -> Values] : n \in 0..MaxChunks}
Times    == 0..MaxTime

Nothing       == [kind |-> "none", data |-> << >>, mtime |-> 0]
Directory     == [kind |-> "dir", data |-> << >>, mtime |-> 0]
FileOf(d, t)  == [kind |-> "file", data |-> d, mtime |-> t]

Nodes   == {Nothing, Directory} \cup {FileOf(d, t) : d \in Contents, t \in Times}
Entries == [path : Paths, isDir : BOOLEAN]
NoEntry == [path |-> Root, mtime |-> 0]

TypeOK ==
    /\ plain \in [Paths -> Nodes]
    /\ vol \in [Paths -> Nodes]
    /\ now \in Times
    /\ pc \in {"idle", "walk", "open", "copy", "prune"}
    /\ way \in {"encrypt", "decrypt"}
    /\ opts \in SUBSET AllOptions
    /\ todo \in SUBSET Entries
    /\ seen \in SUBSET Paths
    /\ cur \in [path : Paths \cup {Root}, mtime : Times]
    /\ off \in 0..MaxChunks
    /\ result \in {"none", "success", "failed"}
    /\ touched \in SUBSET Paths
    /\ counts \in [syncs : 0..MaxSyncs, kills : 0..MaxKills, changes : 0..MaxChanges]

Parent(p) == SubSeq(p, 1, Len(p) - 1)

\* What is there at the start is a tree.
ASSUME TreeAssumption == \A p \in Paths : Parent(p) \in {Root} \cup DirPaths

HasParent(tree, p) == Parent(p) \in {Root} \cup {q \in Paths : tree[q].kind = "dir"}

\* The volume is new or holds what the directory has.
Init ==
    /\ \E v \in Values :
        plain = [p \in Paths |-> IF p \in DirPaths THEN Directory ELSE FileOf(<<v>>, 0)]
    /\ vol \in {plain, [p \in Paths |-> Nothing]}
    /\ now = 0
    /\ pc = "idle"
    /\ way = "encrypt"
    /\ opts = {}
    /\ todo = {}
    /\ seen = {}
    /\ cur = NoEntry
    /\ off = 0
    /\ result = "none"
    /\ touched = {}
    /\ counts = [syncs |-> 0, kills |-> 0, changes |-> 0]

-----------------------------------------------------------------------------
(* The two sides of a sync.  Deliberate faults, here and below, carry the   *)
(* name of the operator they replace and of the mistake.                   *)

Source == IF way = "encrypt" THEN plain ELSE vol
Target == IF way = "encrypt" THEN vol ELSE plain

\* The target has node x at path p.
Put(p, x) ==
    IF way = "encrypt" THEN vol' = [vol EXCEPT ![p] = x] /\ UNCHANGED plain
    ELSE plain' = [plain EXCEPT ![p] = x] /\ UNCHANGED vol

Listing(tree, d) ==
    {[path |-> p, isDir |-> tree[p].kind = "dir"] :
        p \in {q \in Paths : Parent(q) = d /\ tree[q].kind # "none"}}

\* WalkDir passes a directory it cannot read to a callback that goes on; a
\* directory of the volume that cannot be listed ends the sync.
Listings(w, d) ==
    IF w = "encrypt"
    THEN {Listing(plain, d)} \cup (IF UnreadableDirs THEN {{}} ELSE {})
    ELSE {Listing(vol, d)}

Abs(a, b) == IF a < b THEN b - a ELSE a - b

withinWindow(a, b) == Abs(a, b) <= Window

LooksSame(x, y) ==
    /\ x.kind = "file" /\ y.kind = "file"
    /\ Len(x.data) = Len(y.data)
    /\ withinWindow(x.mtime, y.mtime)

NeedsBySize(p) ==
    ~(Target[p].kind = "file" /\ Len(Source[p].data) = Len(Target[p].data))

\* sha256File and sha256Vol agree.
SameContent(x, y) == y.kind = "file" /\ x.data = y.data

\* need: by size and time, or with -checksum by content.
Needs(p) ==
    IF "checksum" \in opts
    THEN ~SameContent(Source[p], Target[p])
    ELSE ~LooksSame(Source[p], Target[p])

\* The sync returns, dies or is killed.
Stop(how) ==
    /\ pc' = "idle"
    /\ result' = how
    /\ todo' = {}
    /\ seen' = {}
    /\ cur' = NoEntry
    /\ off' = 0
    /\ UNCHANGED <<now, syncing, touched>>

-----------------------------------------------------------------------------
(* The user.  A disciplined one changes a file only when Window seconds    *)
(* have passed since either side of it was written, and puts no directory  *)
(* where the other side has a file, nor the reverse.  None changes a file  *)
(* while it is being copied, or a path twice during one sync.              *)

MayChange(side, p) ==
    /\ counts.changes < MaxChanges
    /\ counts' = [counts EXCEPT !.changes = @ + 1]
    /\ pc # "idle" => side = (IF way = "encrypt" THEN "plain" ELSE "vol") /\ p \notin touched
    /\ pc = "copy" => p # cur.path
    /\ touched' = touched \cup {p}
    /\ UNCHANGED <<now, pc, syncing, found, copying, result>>

Settled(p) == now > plain[p].mtime + Window /\ now > vol[p].mtime + Window

\* What the user can put at path p of a tree.
Changes(tree, other, p) ==
    LET agree(k) == Disciplined => other[p].kind \in {"none", k}
        hasChildren == \E q \in Paths : Parent(q) = p /\ tree[q].kind # "none"
    IN  {x \in {FileOf(d, now) : d \in Contents} :
            /\ tree[p].kind # "dir" /\ HasParent(tree, p) /\ agree("file")
            /\ x.data # tree[p].data \/ tree[p].kind = "none"
            /\ Disciplined => Settled(p)}
        \cup {x \in {Directory} : tree[p].kind = "none" /\ HasParent(tree, p) /\ agree("dir")}
        \cup {x \in {Nothing} : tree[p].kind # "none" /\ ~hasChildren}

ChangePlain == \E p \in Paths :
    /\ MayChange("plain", p)
    /\ \E x \in Changes(plain, vol, p) : plain' = [plain EXCEPT ![p] = x]
    /\ UNCHANGED vol

ChangeVolume == \E p \in Paths :
    /\ MayChange("vol", p)
    /\ \E x \in Changes(vol, plain, p) : vol' = [vol EXCEPT ![p] = x]
    /\ UNCHANGED plain

Tick ==
    /\ now < MaxTime
    /\ now' = now + 1
    /\ UNCHANGED <<trees, pc, syncing, found, copying, result, touched, counts>>

-----------------------------------------------------------------------------
(* The walk through the source                                             *)

Start(w, o) ==
    /\ pc = "idle"
    /\ counts.syncs < MaxSyncs
    /\ counts' = [counts EXCEPT !.syncs = @ + 1]
    /\ pc' = "walk"
    /\ way' = w
    /\ opts' = o
    /\ todo' \in Listings(w, Root)
    /\ seen' = {}
    /\ result' = "none"
    /\ touched' = {}
    /\ UNCHANGED <<trees, now, copying>>

\* mkdirAll takes whatever is at the path for a directory, os.MkdirAll fails
\* and is not asked; where nothing can be made, mkdirAll dies.
VisitDir(e) ==
    LET p == e.path
        makes == Target[p].kind = "none" /\ "dryRun" \notin opts
    IN  /\ pc = "walk" /\ e \in todo /\ e.isDir
        /\ makes /\ way = "encrypt" => HasParent(Target, p)
        /\ way = "decrypt" => Source[p].kind = "dir"
        /\ IF makes /\ HasParent(Target, p) THEN Put(p, Directory) ELSE UNCHANGED trees
        /\ \E entries \in Listings(way, p) : todo' = (todo \ {e}) \cup entries
        /\ seen' = seen \cup {p}
        /\ UNCHANGED <<now, pc, syncing, copying, result, touched, counts>>

VisitDirDies(e) ==
    LET p == e.path
    IN  /\ pc = "walk" /\ e \in todo /\ e.isDir
        /\ \/ /\ way = "encrypt" /\ "dryRun" \notin opts
              /\ Target[p].kind = "none" /\ ~HasParent(Target, p)
           \/ way = "decrypt" /\ Source[p].kind # "dir"
        /\ Stop("failed")
        /\ UNCHANGED <<trees, counts>>

VisitFileSeenIfNeeded(e) ==
    LET p == e.path
    IN  /\ pc = "walk" /\ e \in todo /\ ~e.isDir
        /\ Source[p].kind = "file" \/ way = "encrypt" \/ "dryRun" \in opts
        /\ todo' = todo \ {e}
        /\ IF Source[p].kind = "file" /\ Needs(p) /\ "dryRun" \notin opts
           THEN pc' = "open" /\ cur' = [path |-> p, mtime |-> Source[p].mtime] /\ seen' = seen \cup {p}
           ELSE UNCHANGED <<pc, cur, seen>>
        /\ UNCHANGED <<trees, now, syncing, off, result, touched, counts>>

\* A file that is not there any more is passed over when encrypting.
VisitFile(e) ==
    LET p == e.path
    IN  /\ pc = "walk" /\ e \in todo /\ ~e.isDir
        /\ Source[p].kind = "file" \/ way = "encrypt" \/ "dryRun" \in opts
        /\ todo' = todo \ {e}
        /\ seen' = seen \cup {p}
        /\ IF Source[p].kind = "file" /\ Needs(p) /\ "dryRun" \notin opts
           THEN pc' = "open" /\ cur' = [path |-> p, mtime |-> Source[p].mtime]
           ELSE UNCHANGED <<pc, cur>>
        /\ UNCHANGED <<trees, now, syncing, off, result, touched, counts>>

\* gcf_get_attrs is not asked whether it failed, gcf_open_read_mode is.
VisitFileDies(e) ==
    /\ pc = "walk" /\ e \in todo /\ ~e.isDir
    /\ way = "decrypt" /\ Source[e.path].kind # "file" /\ "dryRun" \notin opts
    /\ Stop("failed")
    /\ UNCHANGED <<trees, counts>>

-----------------------------------------------------------------------------
(* encryptFile and decryptFileToDisk                                       *)

\* gcf_open_write_mode wants a new .name file for a long name.
CanOpen(p) ==
    /\ Source[p].kind = "file"
    /\ HasParent(Target, p) /\ Target[p].kind # "dir"
    /\ ~(way = "encrypt" /\ p \in LongPaths /\ Target[p].kind = "file")

OpenKeepsTail ==
    LET p == cur.path
    IN  /\ pc = "open" /\ CanOpen(p)
        /\ Put(p, FileOf(Target[p].data, now))
        /\ pc' = "copy"
        /\ UNCHANGED <<now, syncing, found, copying, result, touched, counts>>

\* Both files are opened; the target is cut to zero ("drop any stale tail").
Open ==
    LET p == cur.path
    IN  /\ pc = "open" /\ CanOpen(p)
        /\ Put(p, FileOf(<< >>, now))
        /\ pc' = "copy"
        /\ UNCHANGED <<now, syncing, found, copying, result, touched, counts>>

OpenDies ==
    /\ pc = "open" /\ ~CanOpen(cur.path)
    /\ Stop("failed")
    /\ UNCHANGED <<trees, counts>>

\* Chunk c written at offset o of data d.
Written(d, o, c) == IF o < Len(d) THEN [d EXCEPT ![o + 1] = c] ELSE Append(d, c)

CopyChunk ==
    LET p == cur.path
    IN  /\ pc = "copy" /\ off < Len(Source[p].data)
        /\ Put(p, FileOf(Written(Target[p].data, off, Source[p].data[off + 1]), now))
        /\ off' = off + 1
        /\ UNCHANGED <<now, pc, syncing, found, cur, result, touched, counts>>

EndCopyRoundsUp ==
    LET p == cur.path
    IN  /\ pc = "copy"
        /\ off = Len(Source[p].data) \/ (way = "decrypt" /\ ReadErrors)
        /\ Put(p, FileOf(Target[p].data, cur.mtime + 1))
        /\ pc' = "walk"
        /\ cur' = NoEntry
        /\ off' = 0
        /\ UNCHANGED <<now, syncing, found, result, touched, counts>>

EndCopyKeepsTime ==
    /\ pc = "copy"
    /\ off = Len(Source[cur.path].data) \/ (way = "decrypt" /\ ReadErrors)
    /\ pc' = "walk"
    /\ cur' = NoEntry
    /\ off' = 0
    /\ UNCHANGED <<trees, now, syncing, found, result, touched, counts>>

\* The end of the file, or a read of the volume that failed and returned 0;
\* then gcf_set_mtime or os.Chtimes.
EndCopy ==
    LET p == cur.path
    IN  /\ pc = "copy"
        /\ off = Len(Source[p].data) \/ (way = "decrypt" /\ ReadErrors)
        /\ Put(p, FileOf(Target[p].data, cur.mtime))
        /\ pc' = "walk"
        /\ cur' = NoEntry
        /\ off' = 0
        /\ UNCHANGED <<now, syncing, found, result, touched, counts>>

-----------------------------------------------------------------------------
(* pruneVolume and pruneDisk                                               *)

EndWalk ==
    /\ pc = "walk" /\ todo = {} /\ "delete" \in opts
    /\ pc' = "prune"
    /\ todo' = UNION {Listing(Target, d) : d \in Paths \cup {Root}}
    /\ UNCHANGED <<trees, now, syncing, seen, copying, result, touched, counts>>

\* What is in a directory comes before the directory, which is removed only if
\* it is empty then.
Prune(e) ==
    LET p == e.path
        isEmpty == \A q \in Paths : Parent(q) = p => Target[q].kind = "none"
    IN  /\ pc = "prune" /\ e \in todo
        /\ \A f \in todo : Parent(f.path) # p
        /\ todo' = todo \ {e}
        /\ IF p \notin seen /\ "dryRun" \notin opts /\ (e.isDir => isEmpty)
           THEN Put(p, Nothing) ELSE UNCHANGED trees
        /\ UNCHANGED <<now, pc, syncing, seen, copying, result, touched, counts>>

Finish ==
    /\ todo = {}
    /\ pc = "prune" \/ (pc = "walk" /\ "delete" \notin opts)
    /\ Stop("success")
    /\ UNCHANGED <<trees, counts>>

-----------------------------------------------------------------------------
\* The process is killed, or dies of an error that can come at any time: a
\* directory of the volume that cannot be listed, a plaintext file that cannot
\* be read, a full disk.
Interrupt ==
    /\ pc # "idle"
    /\ counts.kills < MaxKills
    /\ counts' = [counts EXCEPT !.kills = @ + 1]
    /\ Stop("failed")
    /\ UNCHANGED trees

\* The user has no more to do, and no sync is in the way.
Rest == pc = "idle" /\ UNCHANGED vars

Next ==
    \/ ChangePlain \/ ChangeVolume \/ Tick
    \/ \E w \in {"encrypt", "decrypt"}, o \in Options : Start(w, o)
    \/ \E e \in todo : \/ VisitDir(e) \/ VisitDirDies(e)
                       \/ VisitFile(e) \/ VisitFileDies(e)
                       \/ Prune(e)
    \/ Open \/ OpenDies \/ CopyChunk \/ EndCopy
    \/ EndWalk \/ Finish
    \/ Interrupt \/ Rest

Spec == Init /\ [][Next]_vars

-----------------------------------------------------------------------------
(* Properties                                                              *)

\* No torn file is kept: wherever syncs were killed or failed, two files that
\* the comparison by size and time takes for the same (sync.go:137, 285) are
\* the same.  Otherwise no later sync would repair them.  It holds for a
\* Disciplined user, who changes no file within the window or during its copy.
LooksSameIsSame ==
    \A p \in Paths : LooksSame(plain[p], vol[p]) => plain[p].data = vol[p].data

Succeeded == result = "success" /\ "dryRun" \notin opts

\* "incremental one-way mirror" (sync.go:3): a sync that reports success leaves
\* a target that has what the source has, and with -delete nothing else, but
\* for the paths changed since it began.
MirrorWhenDone ==
    Succeeded => \A p \in Paths \ touched :
        /\ Source[p].kind # "none" =>
            Target[p].kind = Source[p].kind /\ Target[p].data = Source[p].data
        /\ Source[p].kind = "none" /\ "delete" \in opts => Target[p].kind = "none"

\* The next sync with the same options copies none of these files again: the
\* copies have the times of the originals (sync.go:10-12).
ResyncCopiesNothing ==
    Succeeded => \A p \in Paths \ touched : Source[p].kind = "file" => ~Needs(p)

\* "-delete prunes extraneous destination entries" (sync.go:14-15): what the
\* source has is not extraneous, unless it came after its directory was read.
PrunesOnlyExtraneous ==
    [][\A p \in Paths \ touched :
        pc = "prune" /\ Target[p].kind # "none" /\ Source[p].kind # "none"
            => (Target[p].kind)' # "none"]_vars
=============================================================================
