--------------------------- MODULE SyncFilesProofs ----------------------------
(***************************************************************************)
(* Theorems about SyncFiles, for any trees, contents, windows, times and   *)
(* numbers of syncs.                                                       *)
(*                                                                         *)
(* IInv holds whatever the user does and whatever fails: both sides are    *)
(* trees, a copy at work is the beginning of its original, and what the    *)
(* walk has seen or has still to visit agrees with the source but for what *)
(* the user changes.  The other invariants rest on it: SameInv on a user   *)
(* who waits out the window, SeenInv on directories that can be read, and  *)
(* MirrorInv on both and on files that can be read.                        *)
(***************************************************************************)
EXTENDS SyncFiles, WellFoundedInduction, SequenceTheorems, TLAPS

\* The sync is between its start and the pruning.
Walking == pc \in {"walk", "open", "copy"}

\* The sync has a file in hand.
Copying == pc \in {"open", "copy"}

Exists(tree, p) == tree[p].kind # "none"

IsTree(tree) == \A p \in Paths : Exists(tree, p) => HasParent(tree, p)

\* p is in the root or in a directory of S.
Under(p, S) == Parent(p) \in {Root} \cup S

-----------------------------------------------------------------------------
(* What holds for every user and every failure                             *)

\* What each part of a sync leaves in its variables.
Shape ==
    /\ pc = "idle" => todo = {} /\ seen = {}
    /\ ~Copying => cur = NoEntry
    /\ pc # "copy" => off = 0
    /\ Copying => cur.path \in seen /\ "dryRun" \notin opts
    /\ pc = "prune" => "delete" \in opts
    /\ pc # "idle" => result = "none"

\* The copy at work is the beginning of its original.
CopyInv ==
    pc = "copy" =>
        /\ Source[cur.path].kind = "file" /\ Target[cur.path].kind = "file"
        /\ Len(Target[cur.path].data) = off
        /\ off <= Len(Source[cur.path].data)
        /\ \A i \in 1..off : Target[cur.path].data[i] = Source[cur.path].data[i]

\* What the sync has seen, and what it is still to visit, is in the source as
\* it was listed, but for what the user changed.
WalkInv ==
    /\ \A p \in seen : (p \in touched \/ Exists(Source, p)) /\ Under(p, seen)
    /\ Walking => \A e \in todo :
        /\ Source[e.path].kind \in {IF e.isDir THEN "dir" ELSE "file", "none"}
        /\ e.path \in touched \/ Exists(Source, e.path)
        /\ Under(e.path, seen)
    /\ pc # "idle" => \A p \in Paths \ touched : Exists(Source, p) => Parent(p) \notin touched

\* What is still to be looked at in the pruning is in the target.
PruneInv ==
    pc = "prune" =>
        /\ \A e \in todo : Exists(Target, e.path) /\ (e.isDir <=> Target[e.path].kind = "dir")
        /\ "dryRun" \notin opts =>
              \A p \in Paths : Exists(Target, p) => p \in seen \/ \E e \in todo : e.path = p

IInv == TypeOK /\ Shape /\ IsTree(Source) /\ IsTree(Target) /\ CopyInv /\ WalkInv /\ PruneInv

-----------------------------------------------------------------------------
(* What holds where directories can be read                                *)

\* What is in a directory that was visited was seen or is still to be visited; after the walk
\* everything was seen.
SeenInv ==
    /\ Walking => \A p \in Paths \ touched :
          Exists(Source, p) /\ Under(p, seen) => p \in seen \/ \E e \in todo : e.path = p
    /\ pc = "prune" => \A p \in Paths \ touched : Exists(Source, p) => p \in seen

-----------------------------------------------------------------------------
(* What holds for a user who waits and files that can be read              *)

KindsAgree ==
    \A p \in Paths : Exists(Source, p) /\ Exists(Target, p) => Source[p].kind = Target[p].kind

\* The target has at path p what the source has, and another sync would not copy it.
Mirrored(p) ==
    /\ Target[p].kind = Source[p].kind
    /\ Target[p].data = Source[p].data
    /\ Source[p].kind = "file" => ~Needs(p)

\* What was seen is mirrored, but for the file at work, whose original is as it was looked at.
SyncInv ==
    /\ "dryRun" \notin opts => \A p \in seen \ touched : p # cur.path => Mirrored(p)
    /\ Copying /\ cur.path \notin touched =>
          Source[cur.path].kind = "file" /\ Source[cur.path].mtime = cur.mtime

\* After a sync that succeeded.
DoneInv ==
    Succeeded => \A p \in Paths \ touched :
        /\ Exists(Source, p) => Mirrored(p)
        /\ ~Exists(Source, p) /\ "delete" \in opts => ~Exists(Target, p)

MirrorInv == KindsAgree /\ SyncInv /\ DoneInv

-----------------------------------------------------------------------------
(* Contents, nodes and paths                                               *)

\* The bounds are numbers.
LEMMA Bounds ==
    /\ MaxChunks \in Nat /\ MaxChunks > 0 /\ Window \in Nat /\ MaxTime \in Nat
    /\ MaxSyncs \in Nat /\ MaxKills \in Nat /\ MaxChanges \in Nat
    /\ << >> \in Contents /\ 0 \in Times
<1>1. /\ MaxChunks \in Nat /\ MaxChunks > 0 /\ Window \in Nat /\ MaxTime \in Nat
      /\ MaxSyncs \in Nat /\ MaxKills \in Nat /\ MaxChanges \in Nat
  BY SyncAssumption
<1>2. << >> \in [1..0 -> Values] /\ 0 \in 0..MaxChunks
  BY <1>1
<1>3. << >> \in Contents
  BY <1>2 DEF Contents
<1> QED
  BY <1>1, <1>3 DEF Times

\* The contents are the sequences of chunks up to the bound.
LEMMA ContentsAre ==
    /\ \A c \in Contents : c \in Seq(Values) /\ Len(c) \in Nat /\ Len(c) <= MaxChunks
    /\ \A c \in Seq(Values) : Len(c) <= MaxChunks => c \in Contents
<1>1. MaxChunks \in Nat
  BY SyncAssumption
<1>2. ASSUME NEW c \in Contents PROVE c \in Seq(Values) /\ Len(c) \in Nat /\ Len(c) <= MaxChunks
  <2>1. PICK n \in 0..MaxChunks : c \in [1..n -> Values]
    BY <1>2 DEF Contents
  <2>2. n \in Nat /\ n <= MaxChunks
    BY <1>1, <2>1
  <2>3. c \in Seq(Values) /\ Len(c) = n
    BY <2>1, <2>2, IsASeq
  <2> QED
    BY <2>2, <2>3
<1>3. ASSUME NEW c \in Seq(Values), Len(c) <= MaxChunks PROVE c \in Contents
  <2>1. Len(c) \in 0..MaxChunks /\ c \in [1..Len(c) -> Values]
    BY <1>1, <1>3, LenProperties, SeqDef
  <2> QED
    BY <2>1 DEF Contents
<1> QED
  BY <1>2, <1>3

\* The three kinds of nodes.
LEMMA NodeIs ==
    ASSUME NEW x \in Nodes
    PROVE  /\ x.kind \in {"none", "dir", "file"} /\ x.data \in Contents /\ x.mtime \in Times
           /\ x.kind = "none" => x = Nothing
           /\ x.kind = "dir" => x = Directory
  BY Bounds DEF Nodes, Nothing, Directory, FileOf

\* Nothing, a directory and a file are nodes of their kinds.
LEMMA NodesAre ==
    /\ Nothing \in Nodes /\ Nothing.kind = "none"
    /\ Directory \in Nodes /\ Directory.kind = "dir"
    /\ \A c \in Contents, t \in Times :
          /\ FileOf(c, t) \in Nodes /\ FileOf(c, t).kind = "file"
          /\ FileOf(c, t).data = c /\ FileOf(c, t).mtime = t
<1>1. ASSUME NEW c \in Contents, NEW t \in Times PROVE FileOf(c, t) \in Nodes
  BY DEF Nodes
<1>2. Nothing \in Nodes /\ Directory \in Nodes
  BY DEF Nodes
<1> QED
  BY <1>1, <1>2 DEF Nothing, Directory, FileOf

\* A path is not the root, and longer than the path it is in.
LEMMA PathIs ==
    ASSUME NEW p \in Paths
    PROVE  p # Root /\ Len(p) \in Nat /\ Len(p) > 0 /\ Len(Parent(p)) = Len(p) - 1
<1>1. p \in Seq(Names) /\ p # << >>
  BY SyncAssumption
<1>2. Len(p) \in Nat /\ Len(p) # 0
  BY <1>1, LenProperties, EmptySeq
<1>3. Len(SubSeq(p, 1, Len(p) - 1)) = IF 1 <= Len(p) - 1 THEN Len(p) - 1 - 1 + 1 ELSE 0
  <2>1. \A i \in 1..(Len(p) - 1) : p[i] \in Names
    BY <1>1, <1>2, ElementOfSeq
  <2> QED
    BY <1>2, <2>1, SubSeqProperties
<1>4. Len(SubSeq(p, 1, Len(p) - 1)) = Len(p) - 1
  <2>1. CASE Len(p) = 1
    BY <1>3, <2>1
  <2>2. CASE Len(p) > 1
    BY <1>2, <1>3, <2>2
  <2>3. Len(p) = 1 \/ Len(p) > 1
    BY <1>2
  <2> QED
    BY <2>1, <2>2, <2>3, Zenon
<1>5. Len(Parent(p)) = Len(p) - 1 /\ p # Root
  BY <1>1, <1>4, Zenon DEF Parent, Root
<1> QED
  BY <1>2, <1>5

\* Something is in a directory: in the root, or in a path that is one.
LEMMA HasParentIs ==
    ASSUME NEW tree, NEW p
    PROVE  HasParent(tree, p) <=> \/ Parent(p) = Root
                                  \/ Parent(p) \in Paths /\ tree[Parent(p)].kind = "dir"
  BY DEF HasParent

-----------------------------------------------------------------------------
(* Both sides                                                              *)

\* The sides are trees of nodes.
LEMMA Sides ==
    ASSUME TypeOK
    PROVE  Source \in [Paths -> Nodes] /\ Target \in [Paths -> Nodes]
  BY DEF TypeOK, Source, Target

\* A step that changes neither side.
LEMMA SidesStay == UNCHANGED <<trees, way>> => UNCHANGED <<Source, Target>>
  BY DEF trees, Source, Target

\* A write to the target.
LEMMA PutIs ==
    ASSUME TypeOK, NEW p \in Paths, NEW x \in Nodes, Put(p, x), way' = way
    PROVE  /\ Source' = Source /\ Target' = [Target EXCEPT ![p] = x]
           /\ Target'[p] = x /\ \A q \in Paths : q # p => Target'[q] = Target[q]
           /\ plain' \in [Paths -> Nodes] /\ vol' \in [Paths -> Nodes]
  BY DEF TypeOK, Put, Source, Target

\* A change by the user: of the source, or of the target while no sync runs.
LEMMA UserChanges ==
    ASSUME TypeOK, ChangePlain \/ ChangeVolume
    PROVE  \E p \in Paths, x \in Nodes :
              /\ touched' = touched \cup {p}
              /\ pc # "idle" => p \notin touched
              /\ pc = "copy" => p # cur.path
              /\ UNCHANGED <<now, pc, way, opts, todo, seen, cur, off, result>>
              /\ counts' \in [syncs : 0..MaxSyncs, kills : 0..MaxKills, changes : 0..MaxChanges]
              /\ plain' \in [Paths -> Nodes] /\ vol' \in [Paths -> Nodes]
              /\ \/ /\ x \in Changes(Source, Target, p)
                    /\ Source' = [Source EXCEPT ![p] = x] /\ Target' = Target
                 \/ /\ pc = "idle"
                    /\ x \in Changes(Target, Source, p)
                    /\ Target' = [Target EXCEPT ![p] = x] /\ Source' = Source
<1>1. ASSUME NEW tree, NEW other, NEW p, NEW x \in Changes(tree, other, p) PROVE x \in Nodes
  BY <1>1, NodesAre DEF Changes, TypeOK
<1>2. ASSUME NEW side, NEW p \in Paths, MayChange(side, p)
      PROVE  /\ touched' = touched \cup {p}
             /\ pc # "idle" => p \notin touched
             /\ pc = "copy" => p # cur.path
             /\ UNCHANGED <<now, pc, way, opts, todo, seen, cur, off, result>>
             /\ counts' \in [syncs : 0..MaxSyncs, kills : 0..MaxKills, changes : 0..MaxChanges]
             /\ pc # "idle" => side = (IF way = "encrypt" THEN "plain" ELSE "vol")
  <2>1. counts.changes < MaxChanges /\ counts' = [counts EXCEPT !.changes = @ + 1]
    BY <1>2 DEF MayChange
  <2>2. counts' \in [syncs : 0..MaxSyncs, kills : 0..MaxKills, changes : 0..MaxChanges]
    <3>1. counts.changes \in 0..MaxChanges /\ counts.changes + 1 \in 0..MaxChanges
      BY <2>1, Bounds DEF TypeOK
    <3> QED
      BY <2>1, <3>1 DEF TypeOK
  <2> QED
    BY <1>2, <2>2 DEF MayChange, syncing, found, copying
<1>3. CASE ChangePlain
  <2>1. PICK p \in Paths : MayChange("plain", p) /\ (\E x \in Changes(plain, vol, p) : plain' = [plain EXCEPT ![p] = x])
                           /\ vol' = vol
    BY <1>3 DEF ChangePlain
  <2>2. PICK x \in Changes(plain, vol, p) : plain' = [plain EXCEPT ![p] = x]
    BY <2>1
  <2>3. x \in Nodes /\ plain' \in [Paths -> Nodes] /\ vol' \in [Paths -> Nodes]
    BY <1>1, <2>1, <2>2 DEF TypeOK
  <2>4. way' = way
    BY <1>2, <2>1
  <2>5. CASE way = "encrypt"
    <3>1. Source = plain /\ Target = vol /\ Source' = plain' /\ Target' = vol'
      BY <2>4, <2>5 DEF Source, Target
    <3> QED
      BY <1>2, <2>1, <2>2, <2>3, <2>5, <3>1
  <2>6. CASE way # "encrypt"
    <3>1. Source = vol /\ Target = plain /\ Source' = vol' /\ Target' = plain'
      BY <2>4, <2>6 DEF Source, Target
    <3>2. pc = "idle"
      BY <1>2, <2>1, <2>6
    <3> QED
      BY <1>2, <2>1, <2>2, <2>3, <3>1, <3>2
  <2> QED
    BY <2>5, <2>6
<1>4. CASE ChangeVolume
  <2>1. PICK p \in Paths : MayChange("vol", p) /\ (\E x \in Changes(vol, plain, p) : vol' = [vol EXCEPT ![p] = x])
                           /\ plain' = plain
    BY <1>4 DEF ChangeVolume
  <2>2. PICK x \in Changes(vol, plain, p) : vol' = [vol EXCEPT ![p] = x]
    BY <2>1
  <2>3. x \in Nodes /\ plain' \in [Paths -> Nodes] /\ vol' \in [Paths -> Nodes]
    BY <1>1, <2>1, <2>2 DEF TypeOK
  <2>4. way' = way
    BY <1>2, <2>1
  <2>5. CASE way = "encrypt"
    <3>1. Source = plain /\ Target = vol /\ Source' = plain' /\ Target' = vol'
      BY <2>4, <2>5 DEF Source, Target
    <3>2. pc = "idle"
      BY <1>2, <2>1, <2>5
    <3> QED
      BY <1>2, <2>1, <2>2, <2>3, <3>1, <3>2
  <2>6. CASE way # "encrypt"
    <3>1. Source = vol /\ Target = plain /\ Source' = vol' /\ Target' = plain'
      BY <2>4, <2>6 DEF Source, Target
    <3> QED
      BY <1>2, <2>1, <2>2, <2>3, <2>6, <3>1
  <2> QED
    BY <2>5, <2>6
<1> QED
  BY <1>3, <1>4

\* What the user can put at a path.
LEMMA ChangeIs ==
    ASSUME TypeOK, NEW tree, NEW other, NEW p \in Paths, NEW x \in Changes(tree, other, p)
    PROVE  /\ x.kind \in {"file", "dir"} => HasParent(tree, p) /\ tree[p].kind # "dir"
           /\ x.kind = "dir" => tree[p].kind = "none"
           /\ x.kind = "none" => \A q \in Paths : Parent(q) = p => ~Exists(tree, q)
           /\ Disciplined /\ x.kind # "none" => other[p].kind \in {"none", x.kind}
           /\ Disciplined /\ x.kind = "file" => x.mtime = now /\ Settled(p)
<1>1. CASE \E d \in Contents : x = FileOf(d, now)
  BY <1>1, NodesAre DEF Changes, TypeOK, Directory, Nothing, FileOf
<1>2. CASE x \in {Directory, Nothing}
  BY <1>2, NodesAre DEF Changes, Exists, FileOf, Directory, Nothing
<1> QED
  BY <1>1, <1>2 DEF Changes

-----------------------------------------------------------------------------
(* Trees and listings                                                      *)

\* What can be put at a path of a tree.
LEMMA TreePut ==
    ASSUME NEW tree \in [Paths -> Nodes], IsTree(tree), NEW p \in Paths, NEW x \in Nodes,
           x.kind # "none" => HasParent(tree, p),
           x.kind # "dir" => \A q \in Paths : Parent(q) = p => ~Exists(tree, q)
    PROVE  IsTree([tree EXCEPT ![p] = x])
<1> DEFINE new == [tree EXCEPT ![p] = x]
<1> SUFFICES ASSUME NEW q \in Paths, Exists(new, q) PROVE HasParent(new, q)
  BY DEF IsTree
<1>1. new[p] = x /\ \A r \in Paths : r # p => new[r] = tree[r]
  OBVIOUS
<1>2. Parent(p) # p
  BY PathIs
<1>3. HasParent(tree, q)
  BY <1>1 DEF Exists, IsTree
<1>4. Parent(q) = p => x.kind = "dir"
  BY <1>1, <1>2 DEF Exists
<1>5. CASE Parent(q) = Root
  BY <1>5, HasParentIs
<1>6. CASE Parent(q) \in Paths /\ tree[Parent(q)].kind = "dir"
  <2>1. new[Parent(q)].kind = "dir"
    BY <1>1, <1>4, <1>6
  <2> QED
    BY <1>6, <2>1, HasParentIs
<1> QED
  BY <1>3, <1>5, <1>6, HasParentIs

\* Nothing is in a path that is no directory.
LEMMA NoChildren ==
    ASSUME NEW tree, IsTree(tree), NEW p \in Paths, tree[p].kind # "dir"
    PROVE  \A q \in Paths : Parent(q) = p => ~Exists(tree, q)
<1> SUFFICES ASSUME NEW q \in Paths, Parent(q) = p, Exists(tree, q) PROVE FALSE
  OBVIOUS
<1>1. HasParent(tree, q)
  BY DEF IsTree
<1> QED
  BY <1>1, PathIs, HasParentIs

\* What a listing returns.
LEMMA ListingIs ==
    ASSUME NEW tree, NEW d
    PROVE  /\ \A e \in Listing(tree, d) :
                /\ e \in Entries /\ Parent(e.path) = d /\ Exists(tree, e.path)
                /\ e.isDir <=> tree[e.path].kind = "dir"
           /\ \A p \in Paths : Parent(p) = d /\ Exists(tree, p) =>
                \E e \in Listing(tree, d) : e.path = p
<1>1. ASSUME NEW e \in Listing(tree, d)
      PROVE  /\ e \in Entries /\ Parent(e.path) = d /\ Exists(tree, e.path)
             /\ e.isDir <=> tree[e.path].kind = "dir"
  <2>1. PICK p \in Paths : /\ Parent(p) = d /\ tree[p].kind # "none"
                           /\ e = [path |-> p, isDir |-> tree[p].kind = "dir"]
    BY DEF Listing
  <2> QED
    BY <2>1 DEF Entries, Exists
<1>2. ASSUME NEW p \in Paths, Parent(p) = d, Exists(tree, p) PROVE \E e \in Listing(tree, d) : e.path = p
  <2>1. [path |-> p, isDir |-> tree[p].kind = "dir"] \in Listing(tree, d)
    BY <1>2 DEF Listing, Exists
  <2> QED
    BY <2>1
<1> QED
  BY <1>1, <1>2

\* What the walk gets of a directory: what is in it, or nothing if it cannot be read.
LEMMA ListingsAre ==
    ASSUME NEW w, NEW d, NEW entries \in Listings(w, d)
    PROVE  /\ w = "encrypt" => entries = Listing(plain, d) \/ (entries = {} /\ UnreadableDirs)
           /\ w # "encrypt" => entries = Listing(vol, d)
<1>1. ASSUME w = "encrypt", UnreadableDirs PROVE entries \in {Listing(plain, d), {}}
  BY <1>1 DEF Listings
<1>2. ASSUME w = "encrypt", ~UnreadableDirs PROVE entries = Listing(plain, d)
  BY <1>2 DEF Listings
<1>3. ASSUME w # "encrypt" PROVE entries = Listing(vol, d)
  BY <1>3 DEF Listings
<1> QED
  BY <1>1, <1>2, <1>3

-----------------------------------------------------------------------------
(* The inductive invariant                                                 *)

\* The counters' bounds.
Counts == [syncs : 0..MaxSyncs, kills : 0..MaxKills, changes : 0..MaxChanges]

\* The end of a sync.
LEMMA StopStep ==
    ASSUME IInv, NEW how \in {"success", "failed"}, Stop(how), UNCHANGED trees, counts' \in Counts
    PROVE  IInv'
<1>1. UNCHANGED <<plain, vol, Source, Target>>
  BY SidesStay DEF trees, Stop, syncing
<1>2. NoEntry \in [path : Paths \cup {Root}, mtime : Times] /\ 0 \in 0..MaxChunks
  BY Bounds DEF NoEntry
<1>3. TypeOK'
  BY <1>1, <1>2 DEF IInv, TypeOK, Stop, syncing, Counts
<1>4. Shape' /\ CopyInv' /\ WalkInv' /\ PruneInv'
  BY DEF Stop, Shape, CopyInv, WalkInv, PruneInv, Walking, Copying
<1>5. IsTree(Source)' /\ IsTree(Target)'
  BY <1>1 DEF IInv, IsTree, Exists, HasParent
<1> QED
  BY <1>3, <1>4, <1>5 DEF IInv

\* Time passes, or nothing happens.
LEMMA WaitStep ==
    ASSUME IInv, now' \in Times,
           UNCHANGED <<trees, pc, syncing, found, copying, result, touched, counts>>
    PROVE  IInv'
<1>1. /\ UNCHANGED <<plain, vol, Source, Target>>
      /\ UNCHANGED <<pc, way, opts, todo, seen, cur, off, result, touched, counts>>
  BY SidesStay DEF trees, syncing, found, copying
<1>2. TypeOK'
  BY <1>1 DEF IInv, TypeOK
<1>3. Shape' /\ CopyInv' /\ WalkInv' /\ PruneInv'
  BY <1>1 DEF IInv, Shape, CopyInv, WalkInv, PruneInv, Walking, Copying, Exists, Under
<1>4. IsTree(Source)' /\ IsTree(Target)'
  BY <1>1 DEF IInv, IsTree, Exists, HasParent
<1> QED
  BY <1>2, <1>3, <1>4 DEF IInv

\* The user changes something.
LEMMA UserStep == ASSUME IInv, ChangePlain \/ ChangeVolume PROVE IInv'
<1>0. TypeOK /\ Shape /\ IsTree(Source) /\ IsTree(Target) /\ CopyInv /\ WalkInv /\ PruneInv
  BY DEF IInv
<1>1. PICK p \in Paths, x \in Nodes :
              /\ touched' = touched \cup {p}
              /\ pc # "idle" => p \notin touched
              /\ pc = "copy" => p # cur.path
              /\ UNCHANGED <<now, pc, way, opts, todo, seen, cur, off, result>>
              /\ counts' \in [syncs : 0..MaxSyncs, kills : 0..MaxKills, changes : 0..MaxChanges]
              /\ plain' \in [Paths -> Nodes] /\ vol' \in [Paths -> Nodes]
              /\ \/ /\ x \in Changes(Source, Target, p)
                    /\ Source' = [Source EXCEPT ![p] = x] /\ Target' = Target
                 \/ /\ pc = "idle"
                    /\ x \in Changes(Target, Source, p)
                    /\ Target' = [Target EXCEPT ![p] = x] /\ Source' = Source
  BY <1>0, UserChanges
<1>2. TypeOK'
  BY <1>0, <1>1 DEF TypeOK
<1>3. Shape'
  BY <1>0, <1>1 DEF Shape, Copying
<1>4. ASSUME NEW tree \in [Paths -> Nodes], NEW other, IsTree(tree), x \in Changes(tree, other, p)
      PROVE  IsTree([tree EXCEPT ![p] = x])
  <2>1. x.kind \in {"none", "dir", "file"}
    BY NodeIs
  <2>2. x.kind # "none" => HasParent(tree, p)
    BY <1>0, <1>4, <2>1, ChangeIs
  <2>3. x.kind # "dir" => \A q \in Paths : Parent(q) = p => ~Exists(tree, q)
    BY <1>0, <1>4, <2>1, ChangeIs, NoChildren
  <2> QED
    BY <1>4, <2>2, <2>3, TreePut
<1>5. IsTree(Source') /\ IsTree(Target')
  BY <1>0, <1>1, <1>4, Sides
<1>6. IsTree(Source)' /\ IsTree(Target)'
  BY <1>5 DEF IsTree, Exists, HasParent
<1>7. CASE pc = "idle"
  BY <1>0, <1>1, <1>2, <1>3, <1>6, <1>7 DEF IInv, CopyInv, WalkInv, PruneInv, Walking, Shape
<1>8. CASE pc # "idle"
  <2>1. /\ p \notin touched /\ x \in Changes(Source, Target, p) /\ Target' = Target
        /\ Source'[p] = x /\ \A q \in Paths : q # p => Source'[q] = Source[q]
    BY <1>0, <1>1, <1>8, Sides
  <2>2. CopyInv'
    <3>1. pc = "copy" => cur.path \in Paths
      BY <1>0 DEF Shape, Copying, TypeOK
    <3> QED
      BY <1>0, <1>1, <2>1, <3>1 DEF CopyInv
  <2>3. /\ x.kind \in {"none", "dir", "file"}
        /\ Source[p].kind = "dir" => x.kind = "none"
        /\ Source[p].kind = "file" => x.kind # "dir"
        /\ Source[p].kind # "none" /\ x.kind # "dir" => \A q \in Paths : Parent(q) = p => ~Exists(Source, q)
    BY <1>0, <2>1, ChangeIs, NodeIs, NoChildren
  <2>4. ASSUME NEW q \in seen PROVE (q \in touched' \/ Exists(Source', q)) /\ Under(q, seen')
    BY <1>0, <1>1, <2>1 DEF WalkInv, Under, Exists, TypeOK
  <2>5. ASSUME Walking, NEW e \in todo
        PROVE  /\ Source'[e.path].kind \in {IF e.isDir THEN "dir" ELSE "file", "none"}
               /\ e.path \in touched' \/ Exists(Source', e.path)
               /\ Under(e.path, seen')
    <3>1. e.path \in Paths
      BY <1>0 DEF TypeOK, Entries
    <3>2. /\ Source[e.path].kind \in {IF e.isDir THEN "dir" ELSE "file", "none"}
          /\ e.path \in touched \/ Exists(Source, e.path)
          /\ Under(e.path, seen)
      BY <1>0, <2>5 DEF WalkInv
    <3>3. CASE e.path = p
      BY <1>1, <2>1, <2>3, <3>2, <3>3 DEF Exists, Under
    <3>4. CASE e.path # p
      BY <1>1, <2>1, <3>1, <3>2, <3>4 DEF Exists, Under
    <3> QED
      BY <3>3, <3>4
  <2>6. ASSUME NEW q \in Paths \ touched', Exists(Source', q) PROVE Parent(q) \notin touched'
    <3>1. q \in Paths \ touched /\ q # p /\ Exists(Source, q)
      BY <1>1, <2>1, <2>6 DEF Exists
    <3>2. Parent(q) \notin touched
      BY <1>0, <1>8, <3>1 DEF WalkInv
    <3>3. Parent(q) # p
      <4> SUFFICES ASSUME Parent(q) = p PROVE FALSE
        OBVIOUS
      <4>1. Source[p].kind = "dir"
        BY <1>0, <3>1, NoChildren
      <4> QED
        BY <2>3, <3>1, <4>1
    <3> QED
      BY <1>1, <3>2, <3>3
  <2>7. WalkInv'
    BY <1>1, <2>4, <2>5, <2>6 DEF WalkInv, Walking, Exists, Under
  <2>8. PruneInv'
    BY <1>0, <1>1, <2>1 DEF PruneInv, Exists
  <2> QED
    BY <1>2, <1>3, <1>6, <2>2, <2>7, <2>8 DEF IInv
<1> QED
  BY <1>7, <1>8

\* A sync begins.
LEMMA StartStep ==
    ASSUME IInv, NEW w \in {"encrypt", "decrypt"}, NEW o \in Options, Start(w, o)
    PROVE  IInv'
<1>0. TypeOK /\ Shape /\ IsTree(Source) /\ IsTree(Target) /\ pc = "idle"
  BY DEF IInv, Start
<1>1. /\ pc' = "walk" /\ way' = w /\ opts' = o /\ seen' = {} /\ result' = "none" /\ touched' = {}
      /\ UNCHANGED <<plain, vol, now, cur, off>> /\ todo' \in Listings(w, Root)
      /\ cur = NoEntry /\ off = 0
  BY <1>0 DEF Start, trees, copying, Shape, Copying
<1>2. counts' \in Counts
  <2>1. counts.syncs < MaxSyncs /\ counts' = [counts EXCEPT !.syncs = @ + 1] /\ counts \in Counts
    BY <1>0 DEF Start, TypeOK, Counts
  <2>2. counts.syncs + 1 \in 0..MaxSyncs
    BY <2>1, Bounds DEF Counts
  <2> QED
    BY <2>1, <2>2 DEF Counts
<1>3. IsTree(plain) /\ IsTree(vol)
  BY <1>0 DEF Source, Target
<1>4. Source' = (IF w = "encrypt" THEN plain ELSE vol) /\ Source' \in {plain, vol} /\ Target' \in {plain, vol}
  BY <1>1 DEF Source, Target
<1>5. IsTree(Source') /\ IsTree(Target')
  BY <1>3, <1>4
<1>6. IsTree(Source)' /\ IsTree(Target)'
  BY <1>5 DEF IsTree, Exists, HasParent
<1>7. todo' \in {Listing(Source', Root), {}}
  <2>1. CASE w = "encrypt"
    BY <1>1, <1>4, <2>1, ListingsAre
  <2>2. CASE w # "encrypt"
    BY <1>1, <1>4, <2>2, ListingsAre
  <2> QED
    BY <2>1, <2>2
<1>8. \A e \in todo' : /\ e \in Entries /\ Parent(e.path) = Root /\ Exists(Source', e.path)
                       /\ e.isDir <=> Source'[e.path].kind = "dir"
  BY <1>7, ListingIs
<1>9. Source' \in [Paths -> Nodes]
  BY <1>0, <1>4 DEF TypeOK
<1>10. TypeOK'
  BY <1>0, <1>1, <1>2, <1>8, SyncAssumption DEF TypeOK, Counts
<1>11. WalkInv'
  <2>1. ASSUME NEW e \in todo'
        PROVE  Source'[e.path].kind \in {IF e.isDir THEN "dir" ELSE "file", "none"}
    <3>1. e.path \in Paths
      BY <1>8 DEF Entries
    <3>2. Source'[e.path].kind \in {"none", "dir", "file"}
      BY <1>9, <3>1, NodeIs
    <3> QED
      BY <1>8, <3>2 DEF Exists
  <2> QED
    BY <1>1, <1>8, <2>1 DEF WalkInv, Exists, Under
<1> QED
  BY <1>1, <1>6, <1>10, <1>11 DEF IInv, Shape, CopyInv, PruneInv, Copying

\* The walk comes to a directory: mkdirAll, then its entries.
LEMMA VisitDirStep == ASSUME IInv, NEW e \in todo, VisitDir(e) PROVE IInv'
<1>0. TypeOK /\ Shape /\ IsTree(Source) /\ IsTree(Target) /\ WalkInv
  BY DEF IInv
<1>1. PICK p \in Paths : p = e.path
  BY <1>0 DEF TypeOK, Entries
<1>2. /\ pc = "walk" /\ e.isDir /\ seen' = seen \cup {p}
      /\ UNCHANGED <<now, pc, way, opts, cur, off, result, touched, counts>>
      /\ \E entries \in Listings(way, p) : todo' = (todo \ {e}) \cup entries
  BY <1>1 DEF VisitDir, syncing, copying
<1>3. /\ Source' = Source /\ plain' \in [Paths -> Nodes] /\ vol' \in [Paths -> Nodes]
      /\ Target' = Target \/ (HasParent(Target, p) /\ Target' = [Target EXCEPT ![p] = Directory])
  <2>1. CASE UNCHANGED trees
    <3>1. UNCHANGED <<plain, vol, Source, Target>>
      BY <1>2, <2>1, SidesStay DEF trees
    <3> QED
      BY <1>0, <3>1 DEF TypeOK
  <2>2. CASE HasParent(Target, p) /\ Put(p, Directory)
    BY <1>0, <1>2, <2>2, NodesAre, PutIs
  <2> QED
    BY <1>1, <2>1, <2>2 DEF VisitDir
<1>4. IsTree(Source') /\ IsTree(Target')
  BY <1>0, <1>3, Sides, TreePut, NodesAre
<1>5. IsTree(Source)' /\ IsTree(Target)'
  BY <1>4 DEF IsTree, Exists, HasParent
<1>6. PICK entries \in {Listing(Source, p), {}} : todo' = (todo \ {e}) \cup entries
  BY <1>2, ListingsAre DEF Source
<1>7. \A f \in entries : /\ f \in Entries /\ Parent(f.path) = p /\ Exists(Source, f.path)
                         /\ f.isDir <=> Source[f.path].kind = "dir"
  BY <1>6, ListingIs
<1>8. TypeOK'
  BY <1>0, <1>2, <1>3, <1>6, <1>7 DEF TypeOK
<1>9. /\ Source[p].kind \in {"dir", "none"} /\ (p \in touched \/ Exists(Source, p)) /\ Under(p, seen)
  BY <1>0, <1>1, <1>2 DEF WalkInv, Walking
<1>10. ASSUME NEW f \in todo'
       PROVE  /\ Source[f.path].kind \in {IF f.isDir THEN "dir" ELSE "file", "none"}
              /\ f.path \in touched \/ Exists(Source, f.path)
              /\ Under(f.path, seen')
  <2>1. CASE f \in todo
    BY <1>0, <1>2, <2>1 DEF WalkInv, Walking, Under
  <2>2. CASE f \in entries
    <3>1. f.path \in Paths
      BY <1>7, <2>2 DEF Entries
    <3>2. Source[f.path].kind \in {"none", "dir", "file"}
      BY <1>0, <3>1, Sides, NodeIs
    <3> QED
      BY <1>2, <1>7, <2>2, <3>2 DEF Exists, Under
  <2> QED
    BY <1>6, <2>1, <2>2
<1>11. WalkInv'
  BY <1>0, <1>2, <1>3, <1>9, <1>10 DEF WalkInv, Exists, Under
<1>12. Shape'
  BY <1>0, <1>2 DEF Shape, Copying
<1> QED
  BY <1>2, <1>5, <1>8, <1>11, <1>12 DEF IInv, CopyInv, PruneInv

\* The walk comes to a file, and copies it or passes on.
LEMMA VisitFileStep == ASSUME IInv, NEW e \in todo, VisitFile(e) PROVE IInv'
<1>0. TypeOK /\ Shape /\ IsTree(Source) /\ IsTree(Target) /\ WalkInv
  BY DEF IInv
<1>1. PICK p \in Paths : p = e.path
  BY <1>0 DEF TypeOK, Entries
<1>2. /\ pc = "walk" /\ ~e.isDir /\ seen' = seen \cup {p} /\ todo' = todo \ {e}
      /\ UNCHANGED <<plain, vol, now, way, opts, off, result, touched, counts>>
      /\ UNCHANGED <<Source, Target>>
      /\ \/ pc' = "open" /\ cur' = [path |-> p, mtime |-> Source[p].mtime] /\ "dryRun" \notin opts
         \/ UNCHANGED <<pc, cur>>
  BY <1>1, SidesStay DEF VisitFile, syncing, trees
<1>3. Source[p].mtime \in Times
  BY <1>0, Sides, NodeIs
<1>4. TypeOK'
  BY <1>0, <1>2, <1>3 DEF TypeOK
<1>5. Shape'
  BY <1>0, <1>2 DEF Shape, Copying
<1>6. IsTree(Source)' /\ IsTree(Target)'
  BY <1>0, <1>2 DEF IsTree, Exists, HasParent
<1>7. WalkInv'
  <2>1. (p \in touched \/ Exists(Source, p)) /\ Under(p, seen)
    BY <1>0, <1>1, <1>2 DEF WalkInv, Walking
  <2> QED
    BY <1>0, <1>2, <2>1 DEF WalkInv, Walking, Exists, Under
<1> QED
  BY <1>2, <1>4, <1>5, <1>6, <1>7 DEF IInv, CopyInv, PruneInv

\* What a step of the copying has to show.
LEMMA CopyStep ==
    ASSUME IInv, Copying, cur.path \in Paths, NEW x \in Nodes, x.kind = "file", Put(cur.path, x),
           HasParent(Target, cur.path), Target[cur.path].kind # "dir",
           UNCHANGED <<now, way, opts, todo, seen, result, touched, counts>>,
           pc' \in {"walk", "copy"}, TypeOK', Shape', CopyInv'
    PROVE  IInv'
<1>0. TypeOK /\ Shape /\ IsTree(Source) /\ IsTree(Target) /\ WalkInv
  BY DEF IInv
<1>1. Source' = Source /\ Target' = [Target EXCEPT ![cur.path] = x]
  BY <1>0, PutIs
<1>2. IsTree(Target')
  BY <1>0, <1>1, Sides, NoChildren, TreePut
<1>3. IsTree(Source)' /\ IsTree(Target)'
  BY <1>0, <1>1, <1>2 DEF IsTree, Exists, HasParent
<1>4. WalkInv'
  BY <1>0, <1>1 DEF WalkInv, Walking, Copying, Exists, Under
<1> QED
  BY <1>3, <1>4 DEF IInv, PruneInv

\* The path at work is a path.
LEMMA CurIsPath == ASSUME IInv, Copying PROVE cur.path \in Paths
  BY DEF IInv, Shape, TypeOK

\* The target is opened and cut.
LEMMA OpenStep == ASSUME IInv, Open PROVE IInv'
<1>0. TypeOK /\ Shape /\ pc = "open" /\ Copying /\ CanOpen(cur.path)
  BY DEF IInv, Open, Copying
<1>1. cur.path \in Paths
  BY <1>0, CurIsPath
<1>2. PICK x \in Nodes : x = FileOf(<< >>, now) /\ x.kind = "file" /\ x.data = << >>
  BY <1>0, NodesAre, Bounds DEF TypeOK
<1>3. /\ Put(cur.path, x) /\ pc' = "copy" /\ off = 0
      /\ UNCHANGED <<now, way, opts, todo, seen, cur, off, result, touched, counts>>
  BY <1>0, <1>2 DEF Open, syncing, found, copying, Shape
<1>4. /\ Source' = Source /\ Target'[cur.path] = x
      /\ plain' \in [Paths -> Nodes] /\ vol' \in [Paths -> Nodes]
  BY <1>0, <1>1, <1>3, PutIs
<1>5. TypeOK'
  BY <1>0, <1>3, <1>4 DEF TypeOK
<1>6. Shape'
  BY <1>0, <1>3 DEF Shape, Copying
<1>7. CopyInv'
  <2>1. Source[cur.path].kind = "file"
    BY <1>0 DEF CanOpen
  <2>2. Len(Source[cur.path].data) \in Nat
    BY <1>0, <1>1, Sides, NodeIs, ContentsAre
  <2>3. Len(x.data) = 0
    BY <1>2
  <2> QED
    BY <1>2, <1>3, <1>4, <2>1, <2>2, <2>3 DEF CopyInv
<1> QED
  BY <1>0, <1>1, <1>2, <1>3, <1>5, <1>6, <1>7, CopyStep DEF CanOpen

\* A file that is there is under its parent.
LEMMA FileHasParent ==
    ASSUME IInv, pc = "copy"
    PROVE  /\ Copying /\ cur.path \in Paths
           /\ HasParent(Target, cur.path) /\ Target[cur.path].kind = "file"
           /\ Source[cur.path].kind = "file"
           /\ Target[cur.path].data \in Contents /\ Source[cur.path].data \in Contents
<1>1. Copying /\ TypeOK
  BY DEF Copying, IInv
<1>2. cur.path \in Paths
  BY <1>1, CurIsPath
<1>3. Target[cur.path].kind = "file" /\ Source[cur.path].kind = "file"
  BY DEF IInv, CopyInv
<1>4. Target[cur.path].data \in Contents /\ Source[cur.path].data \in Contents
  BY <1>1, <1>2, Sides, NodeIs
<1> QED
  BY <1>1, <1>2, <1>3, <1>4 DEF IInv, IsTree, Exists

\* One more chunk.
LEMMA CopyChunkStep == ASSUME IInv, CopyChunk PROVE IInv'
<1>0. TypeOK /\ Shape /\ CopyInv /\ pc = "copy"
  BY DEF IInv, CopyChunk
<1>1. PICK old \in Contents, src \in Contents : old = Target[cur.path].data /\ src = Source[cur.path].data
  BY <1>0, FileHasParent
<1>2. /\ old \in Seq(Values) /\ src \in Seq(Values) /\ Len(old) = off /\ off \in Nat
      /\ Len(src) \in Nat /\ Len(src) <= MaxChunks /\ off < Len(src)
      /\ \A i \in 1..off : old[i] = src[i]
  BY <1>0, <1>1, ContentsAre DEF CopyInv, CopyChunk
<1>3. src[off + 1] \in Values
  BY <1>2, ElementOfSeq
<1>4. PICK d : d = Append(old, src[off + 1])
  OBVIOUS
<1>5. d \in Seq(Values) /\ Len(d) = off + 1 /\ \A i \in 1..(off + 1) : d[i] = src[i]
  BY <1>2, <1>3, <1>4, AppendProperties
<1>6. d \in Contents /\ off + 1 \in 0..MaxChunks
  BY <1>2, <1>5, ContentsAre, Bounds
<1>7. PICK x \in Nodes : x = FileOf(d, now) /\ x.kind = "file" /\ x.data = d
  BY <1>0, <1>6, NodesAre DEF TypeOK
<1>8. Written(old, off, src[off + 1]) = d
  BY <1>2, <1>4 DEF Written
<1>9. /\ Put(cur.path, x) /\ off' = off + 1
      /\ UNCHANGED <<now, pc, way, opts, todo, seen, cur, result, touched, counts>>
  BY <1>1, <1>7, <1>8 DEF CopyChunk, syncing, found
<1>10. /\ Source' = Source /\ Target'[cur.path] = x
       /\ plain' \in [Paths -> Nodes] /\ vol' \in [Paths -> Nodes]
  BY <1>0, <1>9, PutIs, FileHasParent
<1>11. TypeOK'
  BY <1>0, <1>6, <1>9, <1>10 DEF TypeOK
<1>12. Shape'
  BY <1>0, <1>9 DEF Shape, Copying
<1>13. CopyInv'
  BY <1>0, <1>1, <1>2, <1>5, <1>7, <1>9, <1>10, FileHasParent DEF CopyInv
<1> QED
  BY <1>0, <1>7, <1>9, <1>11, <1>12, <1>13, FileHasParent, CopyStep

\* The end of a file, whole or not.
LEMMA EndCopyStep == ASSUME IInv, EndCopy PROVE IInv'
<1>0. TypeOK /\ Shape /\ CopyInv /\ pc = "copy"
  BY DEF IInv, EndCopy
<1>1. cur.mtime \in Times
  BY <1>0 DEF TypeOK
<1>2. PICK x \in Nodes : x = FileOf(Target[cur.path].data, cur.mtime) /\ x.kind = "file"
  BY <1>0, <1>1, FileHasParent, NodesAre
<1>3. /\ Put(cur.path, x) /\ pc' = "walk" /\ cur' = NoEntry /\ off' = 0
      /\ UNCHANGED <<now, way, opts, todo, seen, result, touched, counts>>
  BY <1>2 DEF EndCopy, syncing, found
<1>4. plain' \in [Paths -> Nodes] /\ vol' \in [Paths -> Nodes]
  BY <1>0, <1>3, PutIs, FileHasParent
<1>5. TypeOK'
  <2>1. NoEntry \in [path : Paths \cup {Root}, mtime : Times] /\ 0 \in 0..MaxChunks
    BY Bounds DEF NoEntry
  <2> QED
    BY <1>0, <1>3, <1>4, <2>1 DEF TypeOK
<1>6. Shape' /\ CopyInv'
  BY <1>0, <1>3 DEF Shape, Copying, CopyInv
<1> QED
  BY <1>0, <1>2, <1>3, <1>5, <1>6, FileHasParent, CopyStep

\* The walk is over, and the target is listed.
LEMMA EndWalkStep == ASSUME IInv, EndWalk PROVE IInv'
<1>0. TypeOK /\ Shape /\ IsTree(Source) /\ IsTree(Target) /\ WalkInv
  BY DEF IInv
<1>1. /\ pc = "walk" /\ pc' = "prune" /\ "delete" \in opts
      /\ todo' = UNION {Listing(Target, d) : d \in Paths \cup {Root}}
      /\ UNCHANGED <<plain, vol, now, way, opts, seen, cur, off, result, touched, counts>>
      /\ UNCHANGED <<Source, Target>>
  BY SidesStay DEF EndWalk, syncing, copying, trees
<1>2. \A e \in todo' : e \in Entries /\ Exists(Target, e.path) /\ (e.isDir <=> Target[e.path].kind = "dir")
  <2>1. ASSUME NEW e \in todo'
        PROVE  e \in Entries /\ Exists(Target, e.path) /\ (e.isDir <=> Target[e.path].kind = "dir")
    <3>1. PICK d \in Paths \cup {Root} : e \in Listing(Target, d)
      BY <1>1, <2>1
    <3> QED
      BY <3>1, ListingIs
  <2> QED
    BY <2>1
<1>3. ASSUME NEW p \in Paths, Exists(Target, p) PROVE \E e \in todo' : e.path = p
  <2>1. Parent(p) \in Paths \cup {Root}
    BY <1>0, <1>3, HasParentIs DEF IsTree
  <2>2. \E e \in Listing(Target, Parent(p)) : e.path = p
    BY <1>3, ListingIs
  <2> QED
    BY <1>1, <2>1, <2>2
<1>4. TypeOK'
  BY <1>0, <1>1, <1>2 DEF TypeOK
<1>5. Shape' /\ CopyInv' /\ WalkInv'
  BY <1>0, <1>1 DEF Shape, Copying, CopyInv, WalkInv, Walking, Exists, Under
<1>6. PruneInv'
  BY <1>1, <1>2, <1>3 DEF PruneInv, Exists
<1>7. IsTree(Source)' /\ IsTree(Target)'
  BY <1>0, <1>1 DEF IsTree, Exists, HasParent
<1> QED
  BY <1>4, <1>5, <1>6, <1>7 DEF IInv

\* An entry of the target is removed, or kept: one that was not seen is removed, for what is in it
\* was not seen either and was removed before.
LEMMA PruneStep == ASSUME IInv, NEW e \in todo, Prune(e) PROVE IInv'
<1>0. TypeOK /\ Shape /\ IsTree(Source) /\ IsTree(Target) /\ WalkInv /\ PruneInv
  BY DEF IInv
<1>1. PICK p \in Paths : p = e.path
  BY <1>0 DEF TypeOK, Entries
<1>2. /\ pc = "prune" /\ todo' = todo \ {e} /\ \A f \in todo : Parent(f.path) # p
      /\ UNCHANGED <<now, pc, way, opts, seen, cur, off, result, touched, counts>>
  BY <1>1 DEF Prune, syncing, copying
<1>3. Exists(Target, p) /\ (e.isDir <=> Target[p].kind = "dir")
  BY <1>0, <1>1, <1>2 DEF PruneInv
<1>4. ASSUME NEW f \in todo', f.path = p PROVE FALSE
  <2>1. f.isDir <=> e.isDir
    BY <1>0, <1>2, <1>3, <1>4 DEF PruneInv
  <2>2. f \in Entries /\ e \in Entries /\ f # e
    BY <1>0, <1>2, <1>4 DEF TypeOK
  <2>3. f.isDir \in BOOLEAN /\ e.isDir \in BOOLEAN
    BY <2>2 DEF Entries
  <2>4. f.isDir = e.isDir
    BY <2>1, <2>3
  <2> QED
    BY <1>1, <1>4, <2>2, <2>4 DEF Entries
<1>5. CASE p \notin seen /\ "dryRun" \notin opts /\ (e.isDir => \A q \in Paths : Parent(q) = p => Target[q].kind = "none")
  <2>1. Put(p, Nothing)
    BY <1>1, <1>5 DEF Prune
  <2>2. /\ Source' = Source /\ Target' = [Target EXCEPT ![p] = Nothing]
        /\ Target'[p] = Nothing /\ \A q \in Paths : q # p => Target'[q] = Target[q]
        /\ plain' \in [Paths -> Nodes] /\ vol' \in [Paths -> Nodes]
    BY <1>0, <1>2, <2>1, PutIs, NodesAre
  <2>3. \A q \in Paths : Parent(q) = p => ~Exists(Target, q)
    BY <1>0, <1>3, <1>5, NoChildren DEF Exists
  <2>4. IsTree(Target')
    BY <1>0, <2>2, <2>3, Sides, TreePut, NodesAre
  <2>5. IsTree(Source)' /\ IsTree(Target)'
    BY <1>0, <2>2, <2>4 DEF IsTree, Exists, HasParent
  <2>6. TypeOK' /\ Shape' /\ CopyInv' /\ WalkInv'
    BY <1>0, <1>2, <2>2 DEF TypeOK, Shape, Copying, CopyInv, WalkInv, Walking, Exists, Under
  <2>7. PruneInv'
    <3>1. ASSUME NEW f \in todo' PROVE Exists(Target', f.path) /\ (f.isDir <=> Target'[f.path].kind = "dir")
      <4>1. f.path \in Paths /\ f \in todo /\ f.path # p
        BY <1>0, <1>2, <1>4 DEF TypeOK, Entries
      <4> QED
        BY <1>0, <1>2, <2>2, <4>1 DEF PruneInv, Exists
    <3>2. ASSUME NEW q \in Paths, Exists(Target', q) PROVE q \in seen' \/ \E f \in todo' : f.path = q
      <4>1. q # p /\ Exists(Target, q)
        BY <2>2, <3>2, NodesAre DEF Exists
      <4>2. q \in seen \/ \E f \in todo : f.path = q
        BY <1>0, <1>2, <1>5, <4>1 DEF PruneInv
      <4> QED
        BY <1>1, <1>2, <4>1, <4>2
    <3> QED
      BY <3>1, <3>2 DEF PruneInv, Exists
  <2> QED
    BY <2>5, <2>6, <2>7 DEF IInv
<1>6. CASE ~(p \notin seen /\ "dryRun" \notin opts /\ (e.isDir => \A q \in Paths : Parent(q) = p => Target[q].kind = "none"))
  <2>1. UNCHANGED <<plain, vol, Source, Target>>
    BY <1>1, <1>2, <1>6, SidesStay DEF Prune, trees
  <2>2. "dryRun" \notin opts => p \in seen
    <3> SUFFICES ASSUME "dryRun" \notin opts, p \notin seen PROVE FALSE
      OBVIOUS
    <3>1. PICK q \in Paths : Parent(q) = p /\ Exists(Target, q)
      BY <1>6 DEF Exists
    <3>2. q \in seen
      BY <1>0, <1>2, <3>1 DEF PruneInv
    <3>3. Under(q, seen)
      BY <1>0, <3>2 DEF WalkInv
    <3> QED
      BY <3>1, <3>3, PathIs DEF Under
  <2>3. TypeOK' /\ Shape' /\ CopyInv' /\ WalkInv'
    BY <1>0, <1>2, <2>1 DEF TypeOK, Shape, Copying, CopyInv, WalkInv, Walking, Exists, Under
  <2>4. PruneInv'
    BY <1>0, <1>1, <1>2, <2>1, <2>2 DEF PruneInv, Exists
  <2>5. IsTree(Source)' /\ IsTree(Target)'
    BY <1>0, <2>1 DEF IsTree, Exists, HasParent
  <2> QED
    BY <2>3, <2>4, <2>5 DEF IInv
<1> QED
  BY <1>5, <1>6

\* One case per action.
LEMMA IInvNext == IInv /\ [Next]_vars => IInv'
<1> SUFFICES ASSUME IInv, [Next]_vars PROVE IInv'
  OBVIOUS
<1>0. TypeOK /\ counts \in Counts
  BY DEF IInv, TypeOK, Counts
<1>1. CASE ChangePlain \/ ChangeVolume
  BY <1>1, UserStep
<1>2. CASE Tick
  <2>1. now + 1 \in Times
    BY <1>0, <1>2, Bounds DEF Tick, TypeOK, Times
  <2> QED
    BY <1>2, <2>1, WaitStep DEF Tick
<1>3. CASE \E w \in {"encrypt", "decrypt"}, o \in Options : Start(w, o)
  BY <1>3, StartStep
<1>4. ASSUME NEW e \in todo, VisitDir(e) \/ VisitFile(e) \/ Prune(e) PROVE IInv'
  BY <1>4, VisitDirStep, VisitFileStep, PruneStep
<1>5. ASSUME NEW e \in todo, VisitDirDies(e) \/ VisitFileDies(e) PROVE IInv'
  BY <1>0, <1>5, StopStep DEF VisitDirDies, VisitFileDies
<1>6. CASE Open \/ CopyChunk \/ EndCopy \/ EndWalk
  BY <1>6, OpenStep, CopyChunkStep, EndCopyStep, EndWalkStep
<1>7. CASE OpenDies \/ Finish
  BY <1>0, <1>7, StopStep DEF OpenDies, Finish
<1>8. CASE Interrupt
  <2>1. counts.kills < MaxKills /\ counts' = [counts EXCEPT !.kills = @ + 1]
    BY <1>8 DEF Interrupt
  <2>2. counts.kills + 1 \in 0..MaxKills
    BY <1>0, <2>1, Bounds DEF Counts
  <2>3. counts' \in Counts
    BY <1>0, <2>1, <2>2 DEF Counts
  <2> QED
    BY <1>8, <2>3, StopStep DEF Interrupt
<1>9. CASE Rest \/ UNCHANGED vars
  <2>1. now' \in Times /\ UNCHANGED <<trees, pc, syncing, found, copying, result, touched, counts>>
    BY <1>0, <1>9 DEF Rest, vars, TypeOK
  <2> QED
    BY <2>1, WaitStep
<1> QED
  BY <1>1, <1>2, <1>3, <1>4, <1>5, <1>6, <1>7, <1>8, <1>9 DEF Next

\* Before the first sync.
LEMMA IInvInit == Init => IInv
<1> SUFFICES ASSUME Init PROVE IInv
  OBVIOUS
<1>1. PICK v \in Values : plain = [p \in Paths |-> IF p \in DirPaths THEN Directory ELSE FileOf(<<v>>, 0)]
  BY DEF Init
<1>2. FileOf(<<v>>, 0) \in Nodes
  <2>1. <<v>> \in Seq(Values) /\ Len(<<v>>) = 1 /\ 1 <= MaxChunks
    BY Bounds
  <2> QED
    BY <2>1, ContentsAre, Bounds, NodesAre
<1>3. [p \in Paths |-> Nothing] \in [Paths -> Nodes] /\ plain \in [Paths -> Nodes]
  BY <1>1, <1>2, NodesAre
<1>4. NoEntry \in [path : Paths \cup {Root}, mtime : Times] /\ 0 \in 0..MaxChunks
  BY Bounds DEF NoEntry
<1>5. [syncs |-> 0, kills |-> 0, changes |-> 0] \in Counts
  BY Bounds DEF Counts
<1>6. TypeOK
  BY <1>3, <1>4, <1>5, Bounds DEF Init, TypeOK, Counts
<1>7. IsTree(plain)
  <2>1. \A p \in DirPaths : p \in Paths /\ plain[p].kind = "dir"
    BY <1>1, SyncAssumption, NodesAre
  <2> QED
    BY <2>1, TreeAssumption, HasParentIs DEF IsTree
<1>8. IsTree([p \in Paths |-> Nothing])
  BY NodesAre DEF IsTree, Exists
<1>9. IsTree(Source) /\ IsTree(Target)
  BY <1>7, <1>8 DEF Init, Source, Target
<1>10. Shape /\ CopyInv /\ WalkInv /\ PruneInv
  BY DEF Init, Shape, CopyInv, WalkInv, PruneInv, Walking, Copying
<1> QED
  BY <1>6, <1>9, <1>10 DEF IInv

\* The invariant holds in every reachable state.
LEMMA IInvAlways == Spec => []IInv
  BY IInvInit, IInvNext, PTL DEF Spec

\* Every variable keeps its type, whatever the user does and whatever fails.
THEOREM Types == Spec => []TypeOK
<1>1. IInv => TypeOK
  BY DEF IInv
<1> QED
  BY <1>1, IInvAlways, PTL

-----------------------------------------------------------------------------
(* What looks the same is the same                                         *)

\* What a step does to the two sides.
LEMMA SideSteps ==
    ASSUME IInv, [Next]_vars
    PROVE  \/ UNCHANGED <<plain, vol>>
           \/ ChangePlain \/ ChangeVolume
           \/ Open \/ CopyChunk \/ EndCopy
           \/ UNCHANGED way /\ \E p \in Paths, x \in {Directory, Nothing} :
                Put(p, x) /\ (x = Directory => Source[p].kind # "file")
<1>1. CASE ChangePlain \/ ChangeVolume \/ Open \/ CopyChunk \/ EndCopy
  BY <1>1
<1>2. CASE Tick \/ EndWalk \/ OpenDies \/ Finish \/ Interrupt \/ Rest \/ UNCHANGED vars
  BY <1>2 DEF Tick, EndWalk, OpenDies, Finish, Interrupt, Rest, vars, trees
<1>3. CASE \E w \in {"encrypt", "decrypt"}, o \in Options : Start(w, o)
  BY <1>3 DEF Start, trees
<1>4. ASSUME NEW e \in todo, VisitFile(e) \/ VisitDirDies(e) \/ VisitFileDies(e)
      PROVE  UNCHANGED <<plain, vol>>
  BY <1>4 DEF VisitFile, VisitDirDies, VisitFileDies, trees
<1>5. ASSUME NEW e \in todo, VisitDir(e) \/ Prune(e)
      PROVE  \/ UNCHANGED <<plain, vol>>
             \/ UNCHANGED way /\ \E p \in Paths, x \in {Directory, Nothing} :
                  Put(p, x) /\ (x = Directory => Source[p].kind # "file")
  <2>1. e.path \in Paths
    BY DEF IInv, TypeOK, Entries
  <2>2. CASE VisitDir(e)
    <3>1. Source[e.path].kind # "file"
      BY <2>2 DEF VisitDir, IInv, WalkInv, Walking
    <3> QED
      BY <2>1, <2>2, <3>1 DEF VisitDir, syncing, trees
  <2>3. CASE Prune(e)
    BY <2>1, <2>3 DEF Prune, syncing, trees, Nothing, Directory
  <2> QED
    BY <1>5, <2>2, <2>3
<1> QED
  BY <1>1, <1>2, <1>3, <1>4, <1>5 DEF Next

\* Times differ by as much either way.
LEMMA AbsIs ==
    ASSUME NEW a \in Nat, NEW b \in Nat
    PROVE  Abs(a, b) = Abs(b, a) /\ Abs(a, a) = 0 /\ (a > b + Window => ~withinWindow(a, b))
<1>1. Window \in Nat
  BY Bounds
<1>2. Abs(a, a) = 0
  BY DEF Abs
<1>3. CASE a < b
  BY <1>1, <1>2, <1>3 DEF Abs, withinWindow
<1>4. CASE ~(a < b)
  <2>1. CASE b < a
    BY <1>1, <1>2, <2>1 DEF Abs, withinWindow
  <2>2. CASE a = b
    BY <1>1, <1>2, <2>2 DEF withinWindow
  <2> QED
    BY <1>4, <2>1, <2>2
<1> QED
  BY <1>3, <1>4

\* So the comparison does not depend on which side is the source.
LEMMA LooksSameEitherWay ==
    ASSUME NEW x \in Nodes, NEW y \in Nodes
    PROVE  /\ LooksSame(x, y) <=> LooksSame(y, x)
           /\ x.mtime > y.mtime + Window => ~LooksSame(x, y) /\ ~LooksSame(y, x)
<1>1. x.mtime \in Nat /\ y.mtime \in Nat
  BY NodeIs, Bounds DEF Times
<1>2. /\ Abs(x.mtime, y.mtime) = Abs(y.mtime, x.mtime)
      /\ x.mtime > y.mtime + Window => ~withinWindow(x.mtime, y.mtime)
  BY <1>1, AbsIs
<1> QED
  BY <1>2 DEF LooksSame, withinWindow

\* The property, of source and target.
SameInv == \A p \in Paths : LooksSame(Source[p], Target[p]) => Source[p].data = Target[p].data

\* It says the same of both sides.
LEMMA SameIs == IInv => (LooksSameIsSame <=> SameInv)
<1> SUFFICES ASSUME TypeOK PROVE LooksSameIsSame <=> SameInv
  BY DEF IInv
<1>1. \A p \in Paths : plain[p] \in Nodes /\ vol[p] \in Nodes
  BY DEF TypeOK
<1>2. \A p \in Paths : LooksSame(plain[p], vol[p]) <=> LooksSame(vol[p], plain[p])
  BY <1>1, LooksSameEitherWay
<1>3. CASE way = "encrypt"
  BY <1>3 DEF LooksSameIsSame, SameInv, Source, Target
<1>4. CASE way # "encrypt"
  BY <1>2, <1>4 DEF LooksSameIsSame, SameInv, Source, Target
<1> QED
  BY <1>3, <1>4

\* A copy at work of the size of its original is whole.
LEMMA WholeCopy ==
    IInv /\ pc = "copy" /\ Len(Target[cur.path].data) = Len(Source[cur.path].data)
        => Target[cur.path].data = Source[cur.path].data
<1> SUFFICES ASSUME IInv, pc = "copy", Len(Target[cur.path].data) = Len(Source[cur.path].data)
             PROVE  Target[cur.path].data = Source[cur.path].data
  OBVIOUS
<1>1. Target[cur.path].data \in Seq(Values) /\ Source[cur.path].data \in Seq(Values)
  BY FileHasParent, ContentsAre
<1>2. \A i \in 1..Len(Target[cur.path].data) : Target[cur.path].data[i] = Source[cur.path].data[i]
  BY DEF IInv, CopyInv
<1> QED
  BY <1>1, <1>2, SeqEqual

\* What a step that writes one path has to show.
LEMMA SameAtPath ==
    ASSUME IInv', SameInv, NEW p \in Paths,
           \A q \in Paths : q # p => Source'[q] = Source[q] /\ Target'[q] = Target[q],
           LooksSame(Source'[p], Target'[p]) => Source'[p].data = Target'[p].data
    PROVE  LooksSameIsSame'
<1>1. \A q \in Paths : LooksSame(Source'[q], Target'[q]) => Source'[q].data = Target'[q].data
  BY DEF SameInv
<1>2. SameInv'
  BY <1>1 DEF SameInv, LooksSame, withinWindow, Abs
<1>3. IInv' => (LooksSameIsSame' <=> SameInv')
  BY SameIs, PTL
<1> QED
  BY <1>2, <1>3

\* What a step of the copying writes is a node.
LEMMA PutsNode ==
    ASSUME IInv, Open \/ CopyChunk \/ EndCopy
    PROVE  \E x \in Nodes : x.kind = "file" /\ Put(cur.path, x)
<1>0. TypeOK /\ CopyInv
  BY DEF IInv
<1>1. CASE Open
  BY <1>0, <1>1, NodesAre, Bounds DEF Open, TypeOK
<1>2. CASE CopyChunk
  <2>1. /\ pc = "copy" /\ off < Len(Source[cur.path].data)
        /\ Put(cur.path, FileOf(Written(Target[cur.path].data, off, Source[cur.path].data[off + 1]), now))
    BY <1>2 DEF CopyChunk
  <2>2. PICK old \in Contents, src \in Contents : old = Target[cur.path].data /\ src = Source[cur.path].data
    BY <2>1, FileHasParent
  <2>3. /\ old \in Seq(Values) /\ src \in Seq(Values) /\ Len(old) = off /\ off \in Nat
        /\ Len(src) \in Nat /\ Len(src) <= MaxChunks /\ off < Len(src)
    BY <1>0, <2>1, <2>2, ContentsAre DEF CopyInv
  <2>4. PICK c : c = Append(old, src[off + 1])
    OBVIOUS
  <2>5. src[off + 1] \in Values
    BY <2>3, ElementOfSeq
  <2>6. c \in Seq(Values) /\ Len(c) = off + 1
    BY <2>3, <2>4, <2>5, AppendProperties
  <2>7. Len(c) <= MaxChunks
    BY <2>3, <2>6, Bounds
  <2>8. c \in Contents
    BY <2>6, <2>7, ContentsAre
  <2>9. Written(old, off, src[off + 1]) = c
    BY <2>3, <2>4 DEF Written
  <2>10. Put(cur.path, FileOf(c, now))
    BY <2>1, <2>2, <2>9
  <2> QED
    BY <1>0, <2>8, <2>10, NodesAre DEF TypeOK
<1>3. CASE EndCopy
  <2>1. Target[cur.path].data \in Contents /\ cur.mtime \in Times
    BY <1>0, <1>3, FileHasParent DEF EndCopy, TypeOK
  <2> QED
    BY <1>3, <2>1, NodesAre DEF EndCopy
<1> QED
  BY <1>1, <1>2, <1>3

\* A file that is changed is newer than the window allows, a file that is cut looks like one that
\* is empty, and a copy at work has not the size of its original before it is whole.
LEMMA SameStep ==
    ASSUME Disciplined, IInv, IInv', LooksSameIsSame, [Next]_vars
    PROVE  LooksSameIsSame'
<1>0. TypeOK /\ SameInv
  BY SameIs DEF IInv
<1>1. CASE UNCHANGED <<plain, vol>>
  BY <1>1 DEF LooksSameIsSame, LooksSame, withinWindow, Abs
<1>2. CASE ChangePlain \/ ChangeVolume
  <2>1. PICK p \in Paths, x \in Nodes :
              \/ /\ x \in Changes(Source, Target, p)
                 /\ Source' = [Source EXCEPT ![p] = x] /\ Target' = Target
              \/ /\ x \in Changes(Target, Source, p)
                 /\ Target' = [Target EXCEPT ![p] = x] /\ Source' = Source
    BY <1>0, <1>2, UserChanges
  <2>2. Settled(p) => now > Source[p].mtime + Window /\ now > Target[p].mtime + Window
    BY DEF Settled, Source, Target
  <2>3. x.kind = "file" => x.mtime = now /\ Settled(p)
    BY <1>0, <2>1, ChangeIs
  <2>4. Source[p] \in Nodes /\ Target[p] \in Nodes
    BY <1>0, Sides
  <2>5. ~LooksSame(x, Target[p]) /\ ~LooksSame(Source[p], x)
    <3>1. CASE x.kind = "file"
      BY <2>2, <2>3, <2>4, <3>1, LooksSameEitherWay
    <3>2. CASE x.kind # "file"
      BY <3>2 DEF LooksSame
    <3> QED
      BY <3>1, <3>2
  <2>6. /\ \A q \in Paths : q # p => Source'[q] = Source[q] /\ Target'[q] = Target[q]
        /\ ~LooksSame(Source'[p], Target'[p])
    BY <1>0, <2>1, <2>5, Sides
  <2> QED
    BY <1>0, <2>6, SameAtPath
<1>3. CASE UNCHANGED way /\ \E p \in Paths, x \in {Directory, Nothing} :
              Put(p, x) /\ (x = Directory => Source[p].kind # "file")
  <2>1. PICK p \in Paths, x \in {Directory, Nothing} : Put(p, x)
    BY <1>3
  <2>2. Source' = Source /\ Target'[p] = x /\ \A q \in Paths : q # p => Target'[q] = Target[q]
    BY <1>0, <1>3, <2>1, PutIs, NodesAre
  <2>3. ~LooksSame(Source'[p], Target'[p])
    BY <2>2, NodesAre DEF LooksSame
  <2> QED
    BY <1>0, <2>2, <2>3, SameAtPath
<1>4. CASE Open
  <2>1. cur.path \in Paths
    BY <1>4, CurIsPath DEF Open, Copying
  <2>2. PICK x \in Nodes : x = FileOf(<< >>, now) /\ x.data = << >>
    BY <1>0, NodesAre, Bounds DEF TypeOK
  <2>3. Source' = Source /\ Target'[cur.path] = x /\ \A q \in Paths : q # cur.path => Target'[q] = Target[q]
    BY <1>0, <1>4, <2>1, <2>2, PutIs DEF Open, syncing
  <2>4. Source[cur.path].data \in Seq(Values)
    BY <1>0, <2>1, Sides, NodeIs, ContentsAre
  <2>5. LooksSame(Source'[cur.path], Target'[cur.path]) => Source'[cur.path].data = Target'[cur.path].data
    <3>1. Len(x.data) = 0
      BY <2>2
    <3> QED
      BY <2>2, <2>3, <2>4, <3>1, EmptySeq DEF LooksSame
  <2> QED
    BY <1>0, <2>1, <2>3, <2>5, SameAtPath
<1>5. CASE CopyChunk
  <2>1. /\ pc = "copy" /\ pc' = "copy" /\ cur' = cur /\ way' = way /\ cur.path \in Paths
        /\ CopyInv /\ off < Len(Source[cur.path].data)
    BY <1>5, FileHasParent DEF CopyChunk, syncing, IInv
  <2>2. PICK x \in Nodes : Put(cur.path, x)
    BY <1>5, PutsNode
  <2>3. Source' = Source /\ \A q \in Paths : q # cur.path => Target'[q] = Target[q]
    BY <1>0, <2>1, <2>2, PutIs
  <2>4. (IInv /\ pc = "copy" /\ Len(Target[cur.path].data) = Len(Source[cur.path].data)
            => Target[cur.path].data = Source[cur.path].data)'
    BY WholeCopy, PTL
  <2>5. LooksSame(Source'[cur.path], Target'[cur.path]) => Source'[cur.path].data = Target'[cur.path].data
    BY <2>1, <2>4 DEF LooksSame
  <2> QED
    BY <1>0, <2>1, <2>3, <2>5, SameAtPath
<1>6. CASE EndCopy
  <2>1. pc = "copy" /\ way' = way /\ cur.path \in Paths /\ cur.mtime \in Times
    BY <1>0, <1>6, FileHasParent DEF EndCopy, syncing, TypeOK
  <2>2. PICK x \in Nodes : x = FileOf(Target[cur.path].data, cur.mtime) /\ x.data = Target[cur.path].data
    BY <2>1, FileHasParent, NodesAre
  <2>3. Source' = Source /\ Target'[cur.path] = x /\ \A q \in Paths : q # cur.path => Target'[q] = Target[q]
    BY <1>0, <1>6, <2>1, <2>2, PutIs DEF EndCopy
  <2>4. LooksSame(Source'[cur.path], Target'[cur.path]) => Source'[cur.path].data = Target'[cur.path].data
    BY <2>1, <2>2, <2>3, WholeCopy DEF LooksSame
  <2> QED
    BY <1>0, <2>1, <2>3, <2>4, SameAtPath
<1> QED
  BY <1>1, <1>2, <1>3, <1>4, <1>5, <1>6, SideSteps

\* Before the first sync the sides are the same, or the volume is empty.
LEMMA SameInit == Init => LooksSameIsSame
  BY NodesAre DEF Init, LooksSameIsSame, LooksSame

\* No torn file is kept: if the user waits out the window before he changes a file, two files that
\* the comparison by size and time takes for the same are the same, whatever fails and whenever a
\* sync is killed.
THEOREM NoTornFileIsKept ==
    ASSUME Disciplined
    PROVE  Spec => []LooksSameIsSame
<1>1. IInv /\ IInv' /\ LooksSameIsSame /\ [Next]_vars => LooksSameIsSame'
  BY SameStep
<1> QED
  BY <1>1, SameInit, IInvAlways, PTL DEF Spec

-----------------------------------------------------------------------------
(* What a sync has seen                                                    *)

\* A set of paths has one that is as short as any.
LEMMA ShortestIn ==
    ASSUME NEW S \in SUBSET Paths, S # {}
    PROVE  \E p \in S : \A q \in S : Len(p) <= Len(q)
<1>1. \A q \in S : Len(q) \in Nat
  BY PathIs
<1>2. {Len(q) : q \in S} \in SUBSET Nat /\ {Len(q) : q \in S} # {}
  BY <1>1
<1>3. PICK n \in {Len(q) : q \in S} : \A m \in {Len(q) : q \in S} : ~ (<<m, n>> \in OpToRel(<, Nat))
  BY <1>2, WFMin, NatLessThanWellFounded, Zenon
<1>4. PICK p \in S : n = Len(p)
  BY <1>3
<1>5. ASSUME NEW q \in S PROVE ~(Len(q) < Len(p))
  <2>1. Len(q) \in Nat /\ Len(p) \in Nat
    BY <1>1
  <2>2. ~ (<<Len(q), Len(p)>> \in OpToRel(<, Nat))
    BY <1>3, <1>4
  <2> QED
    BY <2>1, <2>2, Zenon DEF OpToRel
<1> QED
  BY <1>1, <1>5

\* When nothing is left to visit, everything was seen: the shortest path that was not is in a
\* directory that was.
LEMMA WalkedAll ==
    ASSUME IInv, SeenInv, pc = "walk", todo = {}, NEW p \in Paths \ touched, Exists(Source, p)
    PROVE  p \in seen
<1> SUFFICES ASSUME p \notin seen PROVE FALSE
  OBVIOUS
<1>1. PICK S \in SUBSET Paths : S = {q \in Paths \ touched : Exists(Source, q) /\ q \notin seen}
  OBVIOUS
<1>2. PICK q \in S : \A r \in S : Len(q) <= Len(r)
  BY <1>1, ShortestIn
<1>3. q \in Paths \ touched /\ Exists(Source, q) /\ q \notin seen /\ HasParent(Source, q)
  BY <1>1, <1>2 DEF IInv, IsTree
<1>4. ~Under(q, seen)
  BY <1>3 DEF SeenInv, Walking
<1>5. Parent(q) \in Paths /\ Exists(Source, Parent(q)) /\ Parent(q) \notin seen
  BY <1>3, <1>4, HasParentIs DEF Under, Exists
<1>6. Parent(q) \notin touched
  BY <1>3 DEF IInv, WalkInv
<1>7. Parent(q) \in S /\ ~(Len(q) <= Len(Parent(q)))
  BY <1>1, <1>3, <1>5, <1>6, PathIs
<1> QED
  BY <1>2, <1>7

\* One case per action, but for those after which no sync is at work.
LEMMA SeenStep ==
    ASSUME ~UnreadableDirs, IInv, SeenInv, [Next]_vars
    PROVE  SeenInv'
<1>0. TypeOK /\ Shape /\ IsTree(Source) /\ WalkInv
  BY DEF IInv
<1>1. CASE ChangePlain \/ ChangeVolume
  <2>1. PICK p \in Paths, x \in Nodes :
              /\ touched' = touched \cup {p}
              /\ UNCHANGED <<pc, todo, seen>>
              /\ pc # "idle" => Source' = [Source EXCEPT ![p] = x]
    BY <1>0, <1>1, UserChanges
  <2>2. pc # "idle" => \A q \in Paths \ touched' : q \in Paths \ touched /\ Source'[q] = Source[q]
    BY <1>0, <2>1, Sides
  <2> QED
    BY <2>1, <2>2 DEF SeenInv, Walking, Exists, Under
<1>2. CASE Tick \/ Rest \/ UNCHANGED vars
  <2>1. UNCHANGED <<pc, todo, seen, touched, Source, Target>>
    BY <1>2, SidesStay DEF Tick, Rest, vars, syncing, found
  <2> QED
    BY <2>1 DEF SeenInv, Walking, Exists, Under
<1>3. ASSUME NEW w \in {"encrypt", "decrypt"}, NEW o \in Options, Start(w, o) PROVE SeenInv'
  <2>1. /\ pc' = "walk" /\ way' = w /\ seen' = {} /\ UNCHANGED <<plain, vol>> /\ todo' \in Listings(w, Root)
    BY <1>3 DEF Start, trees
  <2>2. todo' = Listing(Source', Root)
    BY <2>1, ListingsAre, Zenon DEF Source
  <2>3. \A q \in Paths : Parent(q) = Root /\ Exists(Source', q) => \E f \in todo' : f.path = q
    BY <2>2, ListingIs
  <2> QED
    BY <2>1, <2>3 DEF SeenInv, Under, Exists
<1>4. ASSUME NEW e \in todo, VisitDir(e) PROVE SeenInv'
  <2>1. PICK p \in Paths : p = e.path
    BY <1>0 DEF TypeOK, Entries
  <2>2. /\ pc = "walk" /\ seen' = seen \cup {p} /\ UNCHANGED <<pc, way, touched>>
        /\ \E entries \in Listings(way, p) : todo' = (todo \ {e}) \cup entries
    BY <1>4, <2>1 DEF VisitDir, syncing
  <2>3. Source' = Source
    <3>1. CASE UNCHANGED trees
      BY <2>2, <3>1, SidesStay
    <3>2. CASE Put(p, Directory)
      BY <1>0, <2>2, <3>2, NodesAre, PutIs
    <3> QED
      BY <1>4, <2>1, <3>1, <3>2 DEF VisitDir
  <2>4. PICK entries : todo' = (todo \ {e}) \cup entries /\ entries = Listing(Source, p)
    BY <2>2, ListingsAre DEF Source
  <2>5. ASSUME NEW q \in Paths \ touched, Exists(Source, q), Under(q, seen')
        PROVE  q \in seen' \/ \E f \in todo' : f.path = q
    <3>1. CASE Under(q, seen)
      <4>1. q \in seen \/ \E f \in todo : f.path = q
        BY <2>2, <2>5, <3>1 DEF SeenInv, Walking
      <4> QED
        BY <2>1, <2>2, <2>4, <4>1
    <3>2. CASE Parent(q) = p
      <4>1. \E f \in entries : f.path = q
        BY <2>4, <2>5, <3>2, ListingIs
      <4> QED
        BY <2>4, <4>1
    <3> QED
      BY <2>2, <2>5, <3>1, <3>2 DEF Under
  <2> QED
    BY <2>2, <2>3, <2>5 DEF SeenInv, Exists, Under
<1>5. ASSUME NEW e \in todo, VisitFile(e) PROVE SeenInv'
  <2>1. PICK p \in Paths : p = e.path
    BY <1>0 DEF TypeOK, Entries
  <2>2. /\ pc = "walk" /\ ~e.isDir /\ seen' = seen \cup {p} /\ todo' = todo \ {e} /\ UNCHANGED touched
        /\ UNCHANGED <<Source, Target>> /\ pc' \in {"walk", "open"}
    BY <1>5, <2>1, SidesStay DEF VisitFile, syncing
  <2>3. \A q \in Paths : Parent(q) = p => ~Exists(Source, q)
    BY <1>0, <2>1, <2>2, NoChildren DEF WalkInv, Walking
  <2>4. ASSUME NEW q \in Paths \ touched, Exists(Source, q), Under(q, seen')
        PROVE  q \in seen' \/ \E f \in todo' : f.path = q
    <3>1. q \in seen \/ \E f \in todo : f.path = q
      BY <2>2, <2>3, <2>4 DEF SeenInv, Walking, Under
    <3> QED
      BY <2>1, <2>2, <3>1
  <2> QED
    BY <2>2, <2>4 DEF SeenInv, Exists, Under
<1>6. CASE Open \/ CopyChunk \/ EndCopy
  <2>1. PICK x \in Nodes : Put(cur.path, x)
    BY <1>6, PutsNode
  <2>2. Copying /\ Walking' /\ pc' # "prune" /\ UNCHANGED <<todo, seen, way, touched>>
    BY <1>6 DEF Open, CopyChunk, EndCopy, Copying, Walking, found, syncing
  <2>3. Source' = Source
    BY <1>0, <2>1, <2>2, CurIsPath, PutIs
  <2> QED
    BY <2>2, <2>3 DEF SeenInv, Walking, Copying, Exists, Under
<1>7. CASE EndWalk
  <2>1. /\ pc = "walk" /\ todo = {} /\ pc' = "prune" /\ UNCHANGED <<seen, touched, Source, Target>>
    BY <1>7, SidesStay DEF EndWalk, syncing
  <2> QED
    BY <2>1, WalkedAll DEF SeenInv, Walking, Exists
<1>8. ASSUME NEW e \in todo, Prune(e) PROVE SeenInv'
  <2>1. e.path \in Paths
    BY <1>0 DEF TypeOK, Entries
  <2>2. pc = "prune" /\ UNCHANGED <<pc, way, seen, touched>> /\ (UNCHANGED trees \/ Put(e.path, Nothing))
    BY <1>8 DEF Prune, syncing
  <2>3. Source' = Source
    BY <1>0, <2>1, <2>2, SidesStay, PutIs, NodesAre
  <2> QED
    BY <2>2, <2>3 DEF SeenInv, Walking, Exists
<1>9. ASSUME NEW e \in todo, VisitDirDies(e) \/ VisitFileDies(e) PROVE SeenInv'
  BY <1>9 DEF VisitDirDies, VisitFileDies, Stop, SeenInv, Walking
<1>10. CASE OpenDies \/ Finish \/ Interrupt
  BY <1>10 DEF OpenDies, Finish, Interrupt, Stop, SeenInv, Walking
<1> QED
  BY <1>1, <1>2, <1>3, <1>4, <1>5, <1>6, <1>7, <1>8, <1>9, <1>10 DEF Next

\* At the start no sync is at work.
LEMMA SeenAlways == ASSUME ~UnreadableDirs PROVE Spec => []SeenInv
<1>1. Init => SeenInv
  BY DEF Init, SeenInv, Walking
<1>2. IInv /\ SeenInv /\ [Next]_vars => SeenInv'
  BY SeenStep
<1> QED
  BY <1>1, <1>2, IInvAlways, PTL DEF Spec

\* What a step of the pruning does to the target.
LEMMA PruneRemoves ==
    ASSUME IInv, pc = "prune", [Next]_vars, NEW p \in seen, Exists(Target, p)
    PROVE  Exists(Target', p)
<1>0. TypeOK /\ p \in Paths
  BY DEF IInv, TypeOK
<1>1. CASE ChangePlain \/ ChangeVolume
  <2>1. Target' = Target
    BY <1>0, <1>1, UserChanges
  <2> QED
    BY <2>1
<1>2. ASSUME NEW e \in todo, Prune(e) PROVE Exists(Target', p)
  <2>1. e.path \in Paths
    BY <1>0 DEF TypeOK, Entries
  <2>2. way' = way /\ (UNCHANGED trees \/ (e.path # p /\ Put(e.path, Nothing)))
    BY <1>2 DEF Prune, syncing
  <2>3. Target'[p] = Target[p]
    BY <1>0, <2>1, <2>2, SidesStay, PutIs, NodesAre
  <2> QED
    BY <2>3 DEF Exists
<1>3. CASE Tick \/ Finish \/ Interrupt \/ UNCHANGED vars
  <2>1. UNCHANGED <<trees, way>>
    BY <1>3 DEF Tick, Finish, Interrupt, Stop, vars, syncing
  <2> QED
    BY <2>1, SidesStay
<1> QED
  BY <1>1, <1>2, <1>3 DEF Next, Start, VisitDir, VisitDirDies, VisitFile, VisitFileDies,
     Open, OpenDies, CopyChunk, EndCopy, EndWalk, Rest

\* -delete removes nothing that the source has, unless it came after its directory was read, if
\* every directory can be read.
THEOREM PruneKeepsWhatIsThere ==
    ASSUME ~UnreadableDirs
    PROVE  Spec => PrunesOnlyExtraneous
<1> DEFINE Kept == \A p \in Paths \ touched :
                      pc = "prune" /\ Target[p].kind # "none" /\ Source[p].kind # "none"
                          => (Target[p].kind)' # "none"
<1>1. IInv /\ SeenInv /\ [Next]_vars => [Kept]_vars
  BY PruneRemoves DEF SeenInv, Exists
<1> QED
  BY <1>1, IInvAlways, SeenAlways, PTL DEF Spec, PrunesOnlyExtraneous

-----------------------------------------------------------------------------
(* The mirror                                                              *)

\* What is on both sides is of the same kind: neither the user nor a sync puts a directory where the
\* other side has a file, or the reverse.
LEMMA KindsStep ==
    ASSUME Disciplined, IInv, KindsAgree, [Next]_vars
    PROVE  KindsAgree'
<1>0. TypeOK
  BY DEF IInv
<1>1. ASSUME NEW p \in Paths,
             \A q \in Paths : q # p => Source'[q] = Source[q] /\ Target'[q] = Target[q],
             Exists(Source', p) /\ Exists(Target', p) => Source'[p].kind = Target'[p].kind
      PROVE  KindsAgree'
  BY <1>1 DEF KindsAgree, Exists
<1>2. CASE UNCHANGED <<plain, vol>>
  BY <1>2 DEF KindsAgree, Exists, Source, Target
<1>3. CASE ChangePlain \/ ChangeVolume
  <2>1. PICK p \in Paths, x \in Nodes :
              \/ /\ x \in Changes(Source, Target, p)
                 /\ Source' = [Source EXCEPT ![p] = x] /\ Target' = Target
              \/ /\ x \in Changes(Target, Source, p)
                 /\ Target' = [Target EXCEPT ![p] = x] /\ Source' = Source
    BY <1>0, <1>3, UserChanges
  <2>2. x \in Changes(Source, Target, p) /\ Exists(Target, p) /\ x.kind # "none" => Target[p].kind = x.kind
    BY <1>0, ChangeIs DEF Exists
  <2>3. x \in Changes(Target, Source, p) /\ Exists(Source, p) /\ x.kind # "none" => Source[p].kind = x.kind
    BY <1>0, ChangeIs DEF Exists
  <2>4. /\ \A q \in Paths : q # p => Source'[q] = Source[q] /\ Target'[q] = Target[q]
        /\ Exists(Source', p) /\ Exists(Target', p) => Source'[p].kind = Target'[p].kind
    BY <1>0, <2>1, <2>2, <2>3, Sides DEF Exists
  <2> QED
    BY <1>1, <2>4
<1>4. CASE UNCHANGED way /\ \E p \in Paths, x \in {Directory, Nothing} :
              Put(p, x) /\ (x = Directory => Source[p].kind # "file")
  <2>1. PICK p \in Paths, x \in {Directory, Nothing} : Put(p, x) /\ (x = Directory => Source[p].kind # "file")
    BY <1>4
  <2>2. Source' = Source /\ Target'[p] = x /\ \A q \in Paths : q # p => Target'[q] = Target[q]
    BY <1>0, <1>4, <2>1, PutIs, NodesAre
  <2>3. Source[p].kind \in {"none", "dir", "file"}
    BY <1>0, Sides, NodeIs
  <2>4. Exists(Source', p) /\ Exists(Target', p) => Source'[p].kind = Target'[p].kind
    BY <2>1, <2>2, <2>3, NodesAre DEF Exists
  <2> QED
    BY <1>1, <2>2, <2>4
<1>5. CASE Open \/ CopyChunk \/ EndCopy
  <2>1. PICK x \in Nodes : x.kind = "file" /\ Put(cur.path, x)
    BY <1>5, PutsNode
  <2>2. Copying /\ way' = way /\ cur.path \in Paths /\ Source[cur.path].kind = "file"
    BY <1>5, CurIsPath, FileHasParent DEF Open, CanOpen, CopyChunk, EndCopy, syncing, Copying
  <2>3. Source' = Source /\ Target'[cur.path] = x /\ \A q \in Paths : q # cur.path => Target'[q] = Target[q]
    BY <1>0, <2>1, <2>2, PutIs
  <2> QED
    BY <1>1, <2>1, <2>2, <2>3
<1> QED
  BY <1>2, <1>3, <1>4, <1>5, SideSteps

\* What is mirrored stays so while it is left alone.
LEMMA MirroredStays ==
    ASSUME NEW p, opts' = opts, Source'[p] = Source[p], Target'[p] = Target[p], Mirrored(p)
    PROVE  Mirrored(p)'
  BY DEF Mirrored, Needs, SameContent, LooksSame, withinWindow, Abs

\* Outside a copy nothing that was seen is at work.
LEMMA SeenNotAtWork ==
    ASSUME IInv, ~Copying
    PROVE  \A p \in Paths : p # cur.path
  BY PathIs DEF IInv, Shape, NoEntry

\* A directory was made, or was there: its parent was seen and is mirrored.
LEMMA DirMirrored ==
    ASSUME Disciplined, IInv, KindsAgree, SyncInv, NEW e \in todo, VisitDir(e), "dryRun" \notin opts,
           e.path \notin touched
    PROVE  Mirrored(e.path)'
<1>0. TypeOK /\ WalkInv /\ IsTree(Source)
  BY DEF IInv
<1>1. PICK p \in Paths : p = e.path
  BY <1>0 DEF TypeOK, Entries
<1>2. pc = "walk" /\ e.isDir /\ way' = way /\ opts' = opts
  BY DEF VisitDir, syncing
<1>3. Exists(Source, p) /\ Source[p].kind = "dir" /\ Under(p, seen)
  BY <1>0, <1>1, <1>2 DEF WalkInv, Walking, Exists
<1>4. Source[p] = Directory /\ Target[p] \in Nodes
  BY <1>0, <1>3, Sides, NodeIs
<1>5. HasParent(Target, p)
  <2>1. CASE Parent(p) = Root
    BY <2>1, HasParentIs
  <2>2. CASE Parent(p) # Root
    <3>1. Parent(p) \in seen /\ Parent(p) \in Paths
      BY <1>0, <1>3, <2>2 DEF Under, TypeOK
    <3>2. Parent(p) \notin touched
      BY <1>0, <1>1, <1>2, <1>3 DEF WalkInv
    <3>3. Source[Parent(p)].kind = "dir"
      BY <1>0, <1>3, <2>2, HasParentIs DEF IsTree
    <3>4. Mirrored(Parent(p))
      BY <1>2, <3>1, <3>2, SeenNotAtWork DEF SyncInv, Copying
    <3> QED
      BY <3>1, <3>3, <3>4, HasParentIs DEF Mirrored
  <2> QED
    BY <2>1, <2>2
<1>6. CASE Target[p].kind = "none"
  <2>1. Put(p, Directory)
    BY <1>1, <1>5, <1>6 DEF VisitDir
  <2>2. Source' = Source /\ Target'[p] = Directory
    BY <1>0, <1>2, <2>1, NodesAre, PutIs
  <2> QED
    BY <1>1, <1>4, <2>2, NodesAre DEF Mirrored
<1>7. CASE Target[p].kind # "none"
  <2>1. Target[p].kind = "dir"
    BY <1>3, <1>7 DEF KindsAgree, Exists
  <2>2. Target[p] = Directory
    BY <1>4, <2>1, NodeIs
  <2>3. UNCHANGED <<plain, vol, way>>
    BY <1>1, <1>2, <1>7 DEF VisitDir, trees
  <2>4. UNCHANGED <<Source, Target>>
    BY <2>3, SidesStay DEF trees
  <2> QED
    BY <1>1, <1>4, <2>2, <2>4, NodesAre DEF Mirrored
<1> QED
  BY <1>6, <1>7

\* A file that needs no copying is mirrored: it has the content that the comparison takes it to have.
LEMMA FileMirrored ==
    ASSUME IInv, LooksSameIsSame, NEW p \in Paths, Source[p].kind = "file", ~Needs(p)
    PROVE  Mirrored(p)
<1>1. SameInv
  BY SameIs
<1>2. CASE "checksum" \in opts
  BY <1>2 DEF Needs, SameContent, Mirrored
<1>3. CASE "checksum" \notin opts
  <2>1. LooksSame(Source[p], Target[p])
    BY <1>3 DEF Needs
  <2>2. Source[p].data = Target[p].data /\ Target[p].kind = "file"
    BY <1>1, <2>1 DEF SameInv, LooksSame
  <2> QED
    BY <2>2 DEF Mirrored
<1> QED
  BY <1>2, <1>3

\* A file that was copied is mirrored: it is whole, and has the time of its original.
LEMMA CopyMirrored ==
    ASSUME ~ReadErrors, IInv, SyncInv, EndCopy, cur.path \notin touched, NEW p, p = cur.path
    PROVE  Mirrored(p)'
<1>0. TypeOK /\ CopyInv /\ pc = "copy" /\ Copying /\ way' = way /\ opts' = opts
  BY DEF IInv, EndCopy, Copying, syncing
<1>1. p \in Paths /\ cur.mtime \in Times /\ Source[p].kind = "file" /\ Source[p].mtime = cur.mtime
  BY <1>0, CurIsPath DEF SyncInv, TypeOK
<1>2. Target[p].data = Source[p].data
  <2>1. Len(Target[p].data) = off /\ off = Len(Source[p].data)
    BY <1>0 DEF CopyInv, EndCopy
  <2> QED
    BY <1>0, <2>1, WholeCopy
<1>3. PICK x \in Nodes : /\ x = FileOf(Target[p].data, cur.mtime)
                         /\ x.kind = "file" /\ x.data = Target[p].data /\ x.mtime = cur.mtime
  BY <1>0, <1>1, FileHasParent, NodesAre
<1>4. Source' = Source /\ Target'[p] = x
  BY <1>0, <1>1, <1>3, PutIs DEF EndCopy
<1>5. withinWindow(Source[p].mtime, x.mtime)
  <2>1. cur.mtime \in Nat /\ Window \in Nat
    BY <1>1, Bounds DEF Times
  <2>2. Abs(cur.mtime, cur.mtime) = 0
    BY <2>1, AbsIs
  <2> QED
    BY <1>1, <1>3, <2>1, <2>2 DEF withinWindow
<1>6. LooksSame(Source[p], x) /\ SameContent(Source[p], x)
  BY <1>1, <1>2, <1>3, <1>5 DEF LooksSame, SameContent
<1>7. LooksSame(Source'[p], Target'[p]) /\ SameContent(Source'[p], Target'[p])
  BY <1>4, <1>6
<1>8. ~Needs(p)'
  BY <1>7 DEF Needs, LooksSame, SameContent, withinWindow, Abs
<1> QED
  BY <1>1, <1>2, <1>3, <1>4, <1>8 DEF Mirrored

\* One case per action.
LEMMA SyncStep ==
    ASSUME Disciplined, ~ReadErrors, IInv, LooksSameIsSame, KindsAgree, SyncInv, [Next]_vars
    PROVE  SyncInv'
<1>0. TypeOK /\ Shape /\ WalkInv
  BY DEF IInv
<1>1. CASE pc' = "idle" \/ seen' = {}
  <2>1. ASSUME Shape' PROVE SyncInv'
    BY <1>1, <2>1 DEF Shape, SyncInv, Copying
  <2>2. Shape'
    BY IInvNext DEF IInv
  <2> QED
    BY <2>1, <2>2
<1>2. CASE ChangePlain \/ ChangeVolume
  <2>1. PICK p \in Paths, x \in Nodes :
              /\ touched' = touched \cup {p}
              /\ UNCHANGED <<pc, opts, seen, cur>>
              /\ pc # "idle" => Source' = [Source EXCEPT ![p] = x] /\ Target' = Target
    BY <1>0, <1>2, UserChanges
  <2>2. CASE pc = "idle"
    BY <1>1, <2>1, <2>2
  <2>3. CASE pc # "idle"
    <3>1. \A q \in Paths \ touched' : q \notin touched /\ Source'[q] = Source[q] /\ Target'[q] = Target[q]
      BY <1>0, <2>1, <2>3, Sides
    <3>2. ASSUME "dryRun" \notin opts, NEW q \in seen \ touched', q # cur.path PROVE Mirrored(q)'
      <4>1. q \in Paths \ touched' /\ Mirrored(q)
        BY <1>0, <2>1, <3>2 DEF SyncInv, TypeOK
      <4> QED
        BY <2>1, <3>1, <4>1, MirroredStays
    <3>3. ASSUME Copying, cur.path \notin touched'
          PROVE  Source'[cur.path].kind = "file" /\ Source'[cur.path].mtime = cur.mtime
      <4>1. cur.path \in Paths \ touched'
        BY <3>3, CurIsPath
      <4> QED
        BY <3>1, <3>3, <4>1 DEF SyncInv
    <3> QED
      BY <2>1, <3>2, <3>3 DEF SyncInv, Copying
  <2> QED
    BY <2>2, <2>3
<1>3. CASE Tick \/ EndWalk \/ Rest \/ UNCHANGED vars
  <2>1. UNCHANGED <<way, opts, seen, cur, touched, Source, Target>> /\ (Copying' => Copying)
    BY <1>3, SidesStay DEF Tick, EndWalk, Rest, vars, found, syncing, copying, Copying
  <2>2. ASSUME NEW q, Mirrored(q) PROVE Mirrored(q)'
    BY <2>1, <2>2, MirroredStays
  <2> QED
    BY <2>1, <2>2 DEF SyncInv
<1>4. ASSUME NEW w \in {"encrypt", "decrypt"}, NEW o \in Options, Start(w, o) PROVE SyncInv'
  BY <1>1, <1>4 DEF Start
<1>5. ASSUME NEW e \in todo, VisitDir(e) PROVE SyncInv'
  <2>1. PICK p \in Paths : p = e.path
    BY <1>0 DEF TypeOK, Entries
  <2>2. /\ pc = "walk" /\ seen' = seen \cup {p} /\ UNCHANGED <<pc, way, opts, cur, touched>>
        /\ (UNCHANGED trees \/ (Target[p].kind = "none" /\ Put(p, Directory)))
    BY <1>5, <2>1 DEF VisitDir, syncing, copying
  <2>3. \A q \in Paths : q # p => Source'[q] = Source[q] /\ Target'[q] = Target[q]
    <3>1. CASE UNCHANGED trees
      BY <2>2, <3>1, SidesStay
    <3>2. CASE Put(p, Directory)
      BY <1>0, <2>2, <3>2, NodesAre, PutIs
    <3> QED
      BY <2>2, <3>1, <3>2
  <2>4. ASSUME "dryRun" \notin opts, NEW q \in seen' \ touched PROVE Mirrored(q)'
    <3>1. CASE q = p
      BY <1>5, <2>1, <2>4, <3>1, DirMirrored
    <3>2. CASE q # p
      <4>1. q \in Paths /\ q \in seen
        BY <1>0, <2>2, <2>4, <3>2 DEF TypeOK
      <4>2. Mirrored(q)
        BY <2>2, <2>4, <4>1, SeenNotAtWork DEF SyncInv, Copying
      <4> QED
        BY <2>2, <2>3, <3>2, <4>1, <4>2, MirroredStays
    <3> QED
      BY <3>1, <3>2
  <2> QED
    BY <2>2, <2>4 DEF SyncInv, Copying
<1>6. ASSUME NEW e \in todo, VisitFile(e) PROVE SyncInv'
  <2>1. PICK p \in Paths : p = e.path
    BY <1>0 DEF TypeOK, Entries
  <2>2. /\ pc = "walk" /\ ~e.isDir /\ seen' = seen \cup {p}
        /\ UNCHANGED <<way, opts, touched, Source, Target>>
        /\ IF Source[p].kind = "file" /\ Needs(p) /\ "dryRun" \notin opts
           THEN pc' = "open" /\ cur' = [path |-> p, mtime |-> Source[p].mtime]
           ELSE UNCHANGED <<pc, cur>>
    BY <1>6, <2>1, SidesStay DEF VisitFile, syncing
  <2>3. ASSUME NEW q, Mirrored(q) PROVE Mirrored(q)'
    BY <2>2, <2>3, MirroredStays
  <2>4. p \notin touched => Source[p].kind = "file"
    BY <1>0, <2>1, <2>2 DEF WalkInv, Walking, Exists
  <2>5. ASSUME "dryRun" \notin opts, NEW q \in seen' \ touched, q # cur'.path PROVE Mirrored(q)'
    <3>1. CASE q = p
      <4>1. Source[p].kind = "file" /\ ~Needs(p)
        BY <2>2, <2>4, <2>5, <3>1
      <4> QED
        BY <2>3, <3>1, <4>1, FileMirrored
    <3>2. CASE q # p
      <4>1. q \in Paths /\ q \in seen
        BY <1>0, <2>2, <2>5, <3>2 DEF TypeOK
      <4>2. Mirrored(q)
        BY <2>2, <2>5, <4>1, SeenNotAtWork DEF SyncInv, Copying
      <4> QED
        BY <2>3, <4>2
    <3> QED
      BY <3>1, <3>2
  <2>6. ASSUME pc' \in {"open", "copy"}, cur'.path \notin touched
        PROVE  Source[cur'.path].kind = "file" /\ Source[cur'.path].mtime = cur'.mtime
    BY <2>2, <2>6
  <2> QED
    BY <2>2, <2>5, <2>6 DEF SyncInv, Copying
<1>7. CASE Open \/ CopyChunk \/ EndCopy
  <2>1. PICK x \in Nodes : Put(cur.path, x)
    BY <1>7, PutsNode
  <2>2. Copying /\ cur.path \in Paths /\ UNCHANGED <<seen, way, opts, touched>>
    BY <1>7, CurIsPath DEF Open, CopyChunk, EndCopy, Copying, found, syncing
  <2>3. Source' = Source /\ \A q \in Paths : q # cur.path => Target'[q] = Target[q]
    BY <1>0, <2>1, <2>2, PutIs
  <2>4. ASSUME "dryRun" \notin opts, NEW q \in seen \ touched, q # cur.path PROVE Mirrored(q)'
    <3>1. Mirrored(q) /\ q \in Paths
      BY <1>0, <2>4 DEF SyncInv, TypeOK
    <3> QED
      BY <2>2, <2>3, <2>4, <3>1, MirroredStays
  <2>5. CASE Open \/ CopyChunk
    <3>1. cur' = cur
      BY <2>5 DEF Open, CopyChunk, copying
    <3> QED
      BY <2>2, <2>3, <2>4, <3>1 DEF SyncInv
  <2>6. CASE EndCopy
    <3>1. ~Copying'
      BY <2>6 DEF EndCopy, Copying
    <3>2. ASSUME "dryRun" \notin opts, NEW q \in seen \ touched PROVE Mirrored(q)'
      <4>1. CASE q = cur.path
        BY <2>6, <3>2, <4>1, CopyMirrored
      <4>2. CASE q # cur.path
        BY <2>4, <3>2, <4>2
      <4> QED
        BY <4>1, <4>2
    <3> QED
      BY <2>2, <3>1, <3>2 DEF SyncInv
  <2> QED
    BY <1>7, <2>5, <2>6
<1>8. ASSUME NEW e \in todo, Prune(e) PROVE SyncInv'
  <2>1. PICK p \in Paths : p = e.path
    BY <1>0 DEF TypeOK, Entries
  <2>2. /\ pc = "prune" /\ UNCHANGED <<pc, way, opts, seen, cur, touched>>
        /\ (UNCHANGED trees \/ (p \notin seen /\ Put(p, Nothing)))
    BY <1>8, <2>1 DEF Prune, syncing, copying
  <2>3. \A q \in seen : Source'[q] = Source[q] /\ Target'[q] = Target[q]
    <3>1. CASE UNCHANGED trees
      BY <2>2, <3>1, SidesStay
    <3>2. CASE p \notin seen /\ Put(p, Nothing)
      BY <1>0, <2>2, <3>2, NodesAre, PutIs DEF TypeOK
    <3> QED
      BY <2>2, <3>1, <3>2
  <2>4. ASSUME NEW q \in seen, Mirrored(q) PROVE Mirrored(q)'
    BY <2>2, <2>3, <2>4, MirroredStays
  <2> QED
    BY <2>2, <2>4 DEF SyncInv, Copying
<1>9. ASSUME NEW e \in todo, VisitDirDies(e) \/ VisitFileDies(e) PROVE SyncInv'
  BY <1>1, <1>9 DEF VisitDirDies, VisitFileDies, Stop
<1>10. CASE OpenDies \/ Finish \/ Interrupt
  BY <1>1, <1>10 DEF OpenDies, Finish, Interrupt, Stop
<1> QED
  BY <1>2, <1>3, <1>4, <1>5, <1>6, <1>7, <1>8, <1>9, <1>10 DEF Next

\* The sync that ends has seen what there is, has mirrored what it has seen and, if it prunes, has
\* left nothing that it has not seen.
LEMMA FinishDone ==
    ASSUME IInv, SeenInv, SyncInv, Finish
    PROVE  DoneInv'
<1>0. /\ TypeOK /\ Shape /\ WalkInv /\ PruneInv /\ IsTree(Source)
      /\ todo = {} /\ pc \in {"prune", "walk"} /\ (pc = "walk" => "delete" \notin opts)
  BY DEF IInv, Finish
<1>1. UNCHANGED <<way, opts, touched, Source, Target>>
  BY SidesStay DEF Finish, Stop, syncing
<1>2. ASSUME "dryRun" \notin opts, NEW p \in Paths \ touched, Exists(Source, p) PROVE Mirrored(p)'
  <2>1. p \in seen
    BY <1>0, <1>2, WalkedAll DEF SeenInv
  <2>2. p # cur.path
    BY <1>0, SeenNotAtWork DEF Copying
  <2>3. Mirrored(p)
    BY <1>2, <2>1, <2>2 DEF SyncInv
  <2> QED
    BY <1>1, <2>3, MirroredStays
<1>3. ASSUME "dryRun" \notin opts, "delete" \in opts, NEW p \in Paths \ touched, ~Exists(Source, p)
      PROVE  ~Exists(Target, p)
  <2> SUFFICES ASSUME Exists(Target, p) PROVE FALSE
    OBVIOUS
  <2>1. p \in seen
    BY <1>0, <1>3 DEF PruneInv
  <2> QED
    BY <1>0, <1>3, <2>1 DEF WalkInv
<1> QED
  BY <1>1, <1>2, <1>3 DEF DoneInv, Succeeded, Exists

\* After a sync that succeeded, only the user changes anything before the next one.
LEMMA DoneStep ==
    ASSUME IInv, SeenInv, SyncInv, DoneInv, [Next]_vars
    PROVE  DoneInv'
<1>0. TypeOK /\ Shape
  BY DEF IInv
<1>1. CASE result' # "success"
  BY <1>1 DEF DoneInv, Succeeded
<1>2. CASE Finish
  BY <1>2, FinishDone
<1>3. CASE ChangePlain \/ ChangeVolume
  <2>1. PICK p \in Paths, x \in Nodes :
              /\ touched' = touched \cup {p}
              /\ UNCHANGED <<pc, opts, result>>
              /\ \/ Source' = [Source EXCEPT ![p] = x] /\ Target' = Target
                 \/ Target' = [Target EXCEPT ![p] = x] /\ Source' = Source
    BY <1>0, <1>3, UserChanges
  <2>2. \A q \in Paths \ touched' : q \in Paths \ touched /\ Source'[q] = Source[q] /\ Target'[q] = Target[q]
    BY <1>0, <2>1, Sides
  <2>3. ASSUME NEW q \in Paths \ touched', Mirrored(q) PROVE Mirrored(q)'
    BY <2>1, <2>2, <2>3, MirroredStays
  <2> QED
    BY <2>1, <2>2, <2>3 DEF DoneInv, Succeeded, Exists
<1>4. CASE Tick \/ Rest \/ UNCHANGED vars
  <2>1. UNCHANGED <<way, opts, result, touched, Source, Target>>
    BY <1>4, SidesStay DEF Tick, Rest, vars, syncing
  <2>2. ASSUME NEW q, Mirrored(q) PROVE Mirrored(q)'
    BY <2>1, <2>2, MirroredStays
  <2> QED
    BY <2>1, <2>2 DEF DoneInv, Succeeded, Exists
<1>5. CASE \E w \in {"encrypt", "decrypt"}, o \in Options : Start(w, o)
  BY <1>1, <1>5 DEF Start
<1>6. ASSUME NEW e \in todo, VisitDir(e) \/ VisitFile(e) \/ Prune(e) PROVE DoneInv'
  <2>1. result' = "none"
    BY <1>0, <1>6 DEF VisitDir, VisitFile, Prune, Shape
  <2> QED
    BY <1>1, <2>1
<1>7. ASSUME NEW e \in todo, VisitDirDies(e) \/ VisitFileDies(e) PROVE DoneInv'
  BY <1>1, <1>7 DEF VisitDirDies, VisitFileDies, Stop
<1>8. CASE Open \/ CopyChunk \/ EndCopy \/ EndWalk
  <2>1. result' = "none"
    BY <1>0, <1>8 DEF Open, CopyChunk, EndCopy, EndWalk, Shape
  <2> QED
    BY <1>1, <2>1
<1>9. CASE OpenDies \/ Interrupt
  BY <1>1, <1>9 DEF OpenDies, Interrupt, Stop
<1> QED
  BY <1>2, <1>3, <1>4, <1>5, <1>6, <1>7, <1>8, <1>9 DEF Next

\* At the start the sides agree, or the volume is empty.
LEMMA MirrorInit == Init => MirrorInv
<1> SUFFICES ASSUME Init PROVE MirrorInv
  OBVIOUS
<1>1. KindsAgree
  <2>1. vol = plain \/ vol = [p \in Paths |-> Nothing]
    BY DEF Init
  <2>2. CASE vol = plain
    BY <2>2 DEF KindsAgree, Source, Target
  <2>3. CASE vol = [p \in Paths |-> Nothing]
    BY <2>3, NodesAre DEF KindsAgree, Exists, Source, Target
  <2> QED
    BY <2>1, <2>2, <2>3
<1> QED
  BY <1>1 DEF Init, MirrorInv, SyncInv, DoneInv, Succeeded, Copying

\* A sync mirrors what it sees, sees everything, and leaves what it has mirrored.
LEMMA MirrorAlways ==
    ASSUME Disciplined, ~UnreadableDirs, ~ReadErrors
    PROVE  Spec => []MirrorInv
<1>1. IInv /\ SeenInv /\ LooksSameIsSame /\ MirrorInv /\ [Next]_vars => MirrorInv'
  BY KindsStep, SyncStep, DoneStep DEF MirrorInv
<1> QED
  BY <1>1, MirrorInit, IInvAlways, SeenAlways, NoTornFileIsKept, PTL DEF Spec

\* "incremental one-way mirror": after a sync that succeeded the target has what the source has, and
\* with -delete nothing else, if the user is disciplined and all can be read.
THEOREM SyncMirrors ==
    ASSUME Disciplined, ~UnreadableDirs, ~ReadErrors
    PROVE  Spec => []MirrorWhenDone
<1>1. MirrorInv => MirrorWhenDone
  BY DEF MirrorInv, DoneInv, MirrorWhenDone, Mirrored, Exists
<1> QED
  BY <1>1, MirrorAlways, PTL

\* The copies have the times of the originals: another sync would copy none of them again.
THEOREM ResyncIsIdle ==
    ASSUME Disciplined, ~UnreadableDirs, ~ReadErrors
    PROVE  Spec => []ResyncCopiesNothing
<1>1. MirrorInv => ResyncCopiesNothing
  BY DEF MirrorInv, DoneInv, ResyncCopiesNothing, Mirrored, Exists
<1> QED
  BY <1>1, MirrorAlways, PTL

=============================================================================
