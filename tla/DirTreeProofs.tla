----------------------------- MODULE DirTreeProofs -----------------------------
(***************************************************************************)
(* Theorems about DirTree, for any threads, names, paths of any depth,     *)
(* numbers of directories, cache sizes, calls and kills.                   *)
(*                                                                         *)
(* Types holds for any client.  The other theorems are about a disciplined *)
(* one.  Their invariant gives each directory its path (where): what the   *)
(* cache, a thread and the directory above say of a directory agrees with  *)
(* it.  As no two calls have a path in common, no two threads work on one  *)
(* entry of a directory, and each finds the entry as it left it.           *)
(***************************************************************************)
EXTENDS DirTree, FiniteSetTheorems, SequenceTheorems, WellFoundedInduction, TLAPS

Resolving == {"read_iv", "store", "open_dir"}

\* The locations at which dirfd is the parent directory of the goal.
Making   == {"write_name", "fill_name", "open_create", "mkdirat", "write_iv", "reopen", "drop_name"}
Removing == {"open_victim", "move_iv", "rmdirat", "drop_tmp", "drop_victim", "uncache", "clear"}
AtParent == Making \cup Removing \cup {"stat", "unlink", "drop_removed", "lock"}

InRename == {"write_target", "fill_target", "renameat", "rename_again", "drop_target", "drop_source"}

\* Between Lock and Unlock of dirIVLock.
Locked == {"mkdirat", "write_iv"} \cup (Removing \ {"open_victim"})

\* The call is in gcf_rmdir.
Removes(c) == c.op = "rmdir" \/ c.nested

\* What the local variables of a call hold, by the function called ...
OpShape(c) ==
    /\ c.op \in AllOps
    /\ c.path \in Paths
    /\ c.goal \in {c.path, c.to} \cap Paths
    /\ Within(Parent(c.goal), c.at)
    /\ c.op = "rename" => c.to \in Paths
    /\ c.op # "rename" => c.to = None /\ c.source = None /\ c.target = None /\ ~c.nested
    /\ c.nested => c.goal = c.to /\ c.source # None /\ c.target # None

\* ... and by how far it has come.
PlaceShape(q, c) ==
    /\ q \in {"lookup", "write_target", "fill_target", "renameat"} => c.dirfd = None
    /\ q \in Resolving \cup AtParent => c.dirfd # None
    /\ q = "open_dir" => c.at # Parent(c.goal)
    /\ q \in AtParent => c.at = Parent(c.goal)
    /\ q \in {"lookup"} \cup Resolving /\ c.op = "rename" /\ ~c.nested =>
        /\ c.target = None
        /\ c.source = None => c.goal = c.path
        /\ c.source # None => c.goal = c.to
    /\ q = "stat" => c.op = "stat"
    /\ q \in {"unlink", "drop_removed"} => c.op = "remove"
    /\ q = "open_create" => c.op = "create"
    /\ q \in {"mkdirat", "write_iv", "reopen"} => c.op = "mkdir"
    /\ q \in {"write_name", "fill_name", "drop_name"} => c.op \in {"mkdir", "create"}
    /\ q \in {"write_name", "fill_name", "drop_name", "drop_removed", "drop_source"} => IsLong(c.path)
    /\ q \in Removing => Removes(c)
    /\ q = "lock" => c.op = "mkdir" \/ Removes(c)
    /\ q = "lock" /\ Removes(c) => c.victim # None
    /\ q \in {"write_iv"} \cup (Removing \ {"open_victim"}) => c.victim # None
    /\ q = "drop_victim" => IsLong(c.goal)
    /\ q \in InRename => c.op = "rename" /\ c.source # None /\ c.target # None
    /\ q \in {"write_target", "fill_target", "renameat"} => ~c.nested
    /\ q = "rename_again" => c.nested
    /\ q \in {"write_target", "fill_target", "drop_target"} => IsLong(c.to)

Shape(q, c) ==
    IF q = "idle" THEN c = Idle ELSE OpShape(c) /\ PlaceShape(q, c)

ThreadTypes ==
    /\ pc \in [Threads -> Locations]
    /\ loc \in [Threads -> Local]
    /\ answer \in [Threads -> BOOLEAN]
    /\ calls \in 0..MaxCalls
    /\ \A t \in Threads : Shape(pc[t], loc[t])

DirType ==
    [iv : BOOLEAN, entries : [Names -> Kinds], names : SUBSET LongNames, moved : SUBSET Dirs]

\* dirIVLock belongs to whoever is between its Lock and Unlock.
LockInv == \A t \in Threads : pc[t] \in Locked <=> dirIVLock = t

TInv == TypeOK /\ ThreadTypes /\ LockInv

-----------------------------------------------------------------------------
(* Paths                                                                   *)

\* The beginning of a sequence.
LEMMA PrefixOf ==
    ASSUME NEW p \in Seq(Names), NEW k \in 0..Len(p)
    PROVE  /\ SubSeq(p, 1, k) \in Seq(Names)
           /\ Len(SubSeq(p, 1, k)) = k
           /\ \A i \in 1..k : SubSeq(p, 1, k)[i] = p[i]
<1>1. Len(p) \in Nat /\ k \in Nat
  OBVIOUS
<1>2. \A i \in 1..k : p[i] \in Names
  BY <1>1
<1>3. /\ SubSeq(p, 1, k) \in Seq(Names)
      /\ Len(SubSeq(p, 1, k)) = IF 1 <= k THEN k - 1 + 1 ELSE 0
      /\ \A i \in 1 .. k - 1 + 1 : SubSeq(p, 1, k)[i] = p[1 + i - 1]
  BY <1>1, <1>2, SubSeqProperties
<1>4. (IF 1 <= k THEN k - 1 + 1 ELSE 0) = k /\ k - 1 + 1 = k
  BY <1>1
<1>5. \A i \in 1..k : 1 + i - 1 = i
  BY <1>1
<1> QED
  BY <1>3, <1>4, <1>5

LEMMA WithinIs ==
    ASSUME NEW p \in Seq(Names), NEW q \in Seq(Names)
    PROVE  Within(p, q) <=> Len(q) <= Len(p) /\ \A i \in 1..Len(q) : q[i] = p[i]
<1>1. Len(p) \in Nat /\ Len(q) \in Nat
  OBVIOUS
<1>2. ASSUME Len(q) <= Len(p)
      PROVE  SubSeq(p, 1, Len(q)) = q <=> \A i \in 1..Len(q) : q[i] = p[i]
  <2>1. /\ SubSeq(p, 1, Len(q)) \in Seq(Names)
        /\ Len(SubSeq(p, 1, Len(q))) = Len(q)
        /\ \A i \in 1..Len(q) : SubSeq(p, 1, Len(q))[i] = p[i]
    BY <1>1, <1>2, PrefixOf
  <2>2. ASSUME \A i \in 1..Len(q) : q[i] = p[i] PROVE SubSeq(p, 1, Len(q)) = q
    BY <2>1, <2>2, SeqEqual
  <2> QED
    BY <2>1, <2>2
<1> QED
  BY <1>2 DEF Within

LEMMA PathIs ==
    ASSUME NEW p \in Seq(Names), p # << >>
    PROVE  /\ Len(p) \in Nat \ {0} /\ Basename(p) \in Names
           /\ Parent(p) \in Seq(Names) /\ Len(Parent(p)) = Len(p) - 1
           /\ \A i \in 1..Len(p) - 1 : Parent(p)[i] = p[i]
           /\ Append(Parent(p), Basename(p)) = p
<1>1. Len(p) \in Nat \ {0}
  BY EmptySeq
<1>2. /\ Parent(p) \in Seq(Names) /\ Len(Parent(p)) = Len(p) - 1
      /\ \A i \in 1..Len(p) - 1 : Parent(p)[i] = p[i]
  <2>1. PICK k \in 0..Len(p) : k = Len(p) - 1
    <3>1. Len(p) - 1 \in 0..Len(p)
      BY <1>1
    <3> QED
      BY <3>1, Zenon
  <2>2. Parent(p) = SubSeq(p, 1, k)
    BY <2>1 DEF Parent
  <2> QED
    BY <2>1, <2>2, PrefixOf
<1>3. Basename(p) \in Names
  BY <1>1 DEF Basename
<1>4. Append(Parent(p), Basename(p)) = p
  <2>1. /\ Append(Parent(p), Basename(p)) \in Seq(Names)
        /\ Len(Append(Parent(p), Basename(p))) = Len(p)
    BY <1>1, <1>2, <1>3
  <2>2. ASSUME NEW i \in 1..Len(p) PROVE Append(Parent(p), Basename(p))[i] = p[i]
    <3>1. CASE i = Len(p)
      BY <3>1, <1>1, <1>2, <1>3 DEF Basename
    <3>2. CASE i # Len(p)
      BY <3>2, <1>1, <1>2, <1>3
    <3> QED
      BY <3>1, <3>2
  <2> QED
    BY <2>1, <2>2, SeqEqual
<1> QED
  BY <1>1, <1>2, <1>3, <1>4

LEMMA AppendIs ==
    ASSUME NEW s \in Seq(Names), NEW n \in Names
    PROVE  /\ Append(s, n) \in Seq(Names) /\ Append(s, n) # << >>
           /\ Len(s) \in Nat /\ Len(Append(s, n)) = Len(s) + 1
           /\ Parent(Append(s, n)) = s /\ Basename(Append(s, n)) = n
<1>1. /\ Append(s, n) \in Seq(Names) /\ Len(Append(s, n)) = Len(s) + 1 /\ Len(s) \in Nat
      /\ \A i \in 1..Len(s) : Append(s, n)[i] = s[i]
      /\ Append(s, n)[Len(s) + 1] = n
  OBVIOUS
<1>2. Append(s, n) # << >>
  BY <1>1
<1>3. /\ Parent(Append(s, n)) \in Seq(Names) /\ Len(Parent(Append(s, n))) = Len(s)
      /\ \A i \in 1..Len(s) : Parent(Append(s, n))[i] = s[i]
  <2>1. PICK a \in Seq(Names) : a = Append(s, n)
    BY <1>1
  <2>2. /\ Parent(a) \in Seq(Names) /\ Len(Parent(a)) = Len(a) - 1
        /\ \A i \in 1..Len(a) - 1 : Parent(a)[i] = a[i]
    BY <2>1, <1>2, PathIs
  <2>3. Len(a) - 1 = Len(s)
    BY <2>1, <1>1
  <2> QED
    BY <2>1, <2>2, <2>3, <1>1
<1>4. Parent(Append(s, n)) = s
  BY <1>3, SeqEqual
<1> QED
  BY <1>1, <1>2, <1>4 DEF Basename

\* The paths of the client and the directories above them.
LEMMA PrefixesAre ==
    /\ Paths \subseteq Seq(Names) \ {<< >>} /\ Paths # {} /\ None \notin Paths
    /\ << >> \in Prefixes /\ Prefixes \subseteq Seq(Names)
    /\ \A p \in Paths : Parent(p) \in Prefixes
<1>1. Paths \subseteq Seq(Names) \ {<< >>} /\ Paths # {} /\ None \notin Paths
  BY DirTreeAssumption
<1>2. Prefixes \subseteq Seq(Names)
  BY <1>1, PrefixOf DEF Prefixes
<1>3. ASSUME NEW p \in Paths PROVE Parent(p) \in Prefixes /\ << >> \in Prefixes
  <2>1. Len(p) \in Nat \ {0}
    BY <1>1, PathIs
  <2>2. Len(p) - 1 \in 0..Len(p) /\ 0 \in 0..Len(p)
    BY <2>1
  <2>3. SubSeq(p, 1, 0) = << >>
    BY SubSeqEmpty
  <2>4. SubSeq(p, 1, Len(p) - 1) \in Prefixes /\ SubSeq(p, 1, 0) \in Prefixes
    BY <2>2 DEF Prefixes
  <2> QED
    BY <2>3, <2>4 DEF Parent
<1> QED
  BY <1>1, <1>2, <1>3

\* What lies above the parent of a path is a prefix of the path.
LEMMA AboveIs ==
    ASSUME NEW g \in Paths, NEW a \in Seq(Names), Within(Parent(g), a)
    PROVE  /\ g \in Seq(Names) /\ Len(g) \in Nat /\ Len(a) \in Nat /\ Len(a) < Len(g)
           /\ Parent(g) \in Seq(Names) /\ Len(Parent(g)) = Len(g) - 1
           /\ \A i \in 1..Len(g) - 1 : Parent(g)[i] = g[i]
           /\ \A i \in 1..Len(a) : a[i] = g[i]
<1>1. g \in Seq(Names) /\ g # << >>
  BY PrefixesAre
<1>2. /\ Len(g) \in Nat \ {0} /\ Parent(g) \in Seq(Names) /\ Len(Parent(g)) = Len(g) - 1
      /\ \A i \in 1..Len(g) - 1 : Parent(g)[i] = g[i]
  BY <1>1, PathIs
<1>3. Len(a) <= Len(Parent(g)) /\ \A i \in 1..Len(a) : a[i] = Parent(g)[i]
  BY <1>2, WithinIs
<1>4. Len(a) \in Nat
  OBVIOUS
<1> QED
  BY <1>1, <1>2, <1>3, <1>4

LEMMA PrefixOfPath ==
    ASSUME NEW g \in Paths, NEW b \in Seq(Names), Len(b) <= Len(g), \A i \in 1..Len(b) : b[i] = g[i]
    PROVE  b \in Prefixes
<1>1. g \in Seq(Names) /\ Len(b) \in 0..Len(g)
  BY PrefixesAre
<1>2. /\ SubSeq(g, 1, Len(b)) \in Seq(Names) /\ Len(SubSeq(g, 1, Len(b))) = Len(b)
      /\ \A i \in 1..Len(b) : SubSeq(g, 1, Len(b))[i] = g[i]
  BY <1>1, PrefixOf
<1>3. b = SubSeq(g, 1, Len(b))
  BY <1>2, SeqEqual
<1>4. b \in {SubSeq(g, 1, n) : n \in 0..Len(g)}
  BY <1>1, <1>3
<1> QED
  BY <1>4 DEF Prefixes

\* One step up and one step down on the way to the parent of a path.
LEMMA StepUp ==
    ASSUME NEW g \in Paths, NEW a \in Prefixes, Within(Parent(g), a), a # << >>
    PROVE  Parent(a) \in Prefixes /\ Within(Parent(g), Parent(a)) /\ Len(Parent(a)) = Len(a) - 1
<1>1. a \in Seq(Names)
  BY PrefixesAre
<1>2. /\ Len(a) \in Nat \ {0} /\ Parent(a) \in Seq(Names) /\ Len(Parent(a)) = Len(a) - 1
      /\ \A i \in 1..Len(a) - 1 : Parent(a)[i] = a[i]
  BY <1>1, PathIs
<1>3. /\ Len(g) \in Nat /\ Len(a) < Len(g)
      /\ Parent(g) \in Seq(Names) /\ Len(Parent(g)) = Len(g) - 1
      /\ \A i \in 1..Len(g) - 1 : Parent(g)[i] = g[i]
      /\ \A i \in 1..Len(a) : a[i] = g[i]
  BY <1>1, AboveIs
<1>4. \A i \in 1..Len(Parent(a)) : Parent(a)[i] = g[i] /\ Parent(a)[i] = Parent(g)[i]
  BY <1>2, <1>3
<1>5. Len(Parent(a)) <= Len(g) /\ Len(Parent(a)) <= Len(Parent(g))
  BY <1>2, <1>3
<1>6. Parent(a) \in Prefixes
  BY <1>2, <1>4, <1>5, PrefixOfPath
<1> QED
  BY <1>2, <1>3, <1>4, <1>5, <1>6, WithinIs

LEMMA StepDown ==
    ASSUME NEW g \in Paths, NEW a \in Prefixes, Within(Parent(g), a), a # Parent(g)
    PROVE  /\ g[Len(a) + 1] \in Names /\ Append(a, g[Len(a) + 1]) \in Prefixes
           /\ Within(Parent(g), Append(a, g[Len(a) + 1]))
<1>1. a \in Seq(Names)
  BY PrefixesAre
<1>2. /\ g \in Seq(Names) /\ Len(g) \in Nat /\ Len(a) \in Nat /\ Len(a) < Len(g)
      /\ Parent(g) \in Seq(Names) /\ Len(Parent(g)) = Len(g) - 1
      /\ \A i \in 1..Len(g) - 1 : Parent(g)[i] = g[i]
      /\ \A i \in 1..Len(a) : a[i] = g[i]
  BY <1>1, AboveIs
<1>3. Len(a) # Len(g) - 1
  <2> SUFFICES ASSUME Len(a) = Len(g) - 1 PROVE FALSE
    OBVIOUS
  <2>1. \A i \in 1..Len(a) : a[i] = Parent(g)[i]
    BY <1>2
  <2> QED
    BY <2>1, <1>1, <1>2, SeqEqual
<1>4. PICK n : n = g[Len(a) + 1]
  OBVIOUS
<1>5. n \in Names
  BY <1>2, <1>4
<1>6. /\ Append(a, n) \in Seq(Names) /\ Len(Append(a, n)) = Len(a) + 1
      /\ \A i \in 1..Len(a) : Append(a, n)[i] = a[i]
      /\ Append(a, n)[Len(a) + 1] = n
  BY <1>1, <1>5
<1>7. ASSUME NEW i \in 1..Len(a) + 1 PROVE Append(a, n)[i] = g[i]
  BY <1>2, <1>4, <1>6
<1>8. Append(a, n) \in Prefixes
  <2>1. PICK b \in Seq(Names) : b = Append(a, n)
    BY <1>6
  <2>2. Len(b) <= Len(g) /\ \A i \in 1..Len(b) : b[i] = g[i]
    BY <2>1, <1>2, <1>3, <1>6, <1>7
  <2> QED
    BY <2>1, <2>2, PrefixOfPath
<1>9. Len(Append(a, n)) <= Len(Parent(g))
      /\ \A i \in 1..Len(Append(a, n)) : Append(a, n)[i] = Parent(g)[i]
  BY <1>2, <1>3, <1>6, <1>7
<1> QED
  BY <1>2, <1>4, <1>5, <1>6, <1>8, <1>9, WithinIs

LEMMA WithinItself ==
    ASSUME NEW g \in Paths
    PROVE  Within(Parent(g), Parent(g))
<1>1. Parent(g) \in Seq(Names)
  BY PrefixesAre, PathIs
<1> QED
  BY <1>1, WithinIs
-----------------------------------------------------------------------------
(* Types                                                                   *)

LEMMA ConstantsAre ==
    /\ NumDirs \in Nat \ {0} /\ CacheSize \in Nat \ {0} /\ MaxCalls \in Nat /\ MaxKills \in Nat
    /\ Dirs \subseteq Nat /\ Root \in Dirs /\ None \notin Dirs /\ File \notin Dirs /\ File # None
    /\ None \notin Threads /\ None \notin Names /\ LongNames \subseteq Names
    /\ Dirs \cup {File, None} = Kinds
    /\ 0 \in Slots
<1>1. NumDirs \in Nat \ {0} /\ CacheSize \in Nat \ {0} /\ MaxCalls \in Nat /\ MaxKills \in Nat
  BY DirTreeAssumption
<1>2. Dirs \subseteq Nat /\ Root \in Dirs
  BY <1>1 DEF Dirs, Root
<1>3. None \notin Dirs /\ File \notin Dirs /\ File # None /\ None \notin Threads
  BY <1>2, DirTreeAssumption
<1>4. None \notin Names /\ LongNames \subseteq Names
  BY DirTreeAssumption DEF Names
<1>5. 0 \in Slots
  BY <1>1 DEF Slots
<1> QED
  BY <1>1, <1>2, <1>3, <1>4, <1>5 DEF Kinds

LEMMA LowestIn ==
    ASSUME NEW S \in SUBSET Nat, S # {}
    PROVE  Lowest(S) \in S
<1>1. PICK n \in S : \A m \in S : ~ (<<m, n>> \in OpToRel(<, Nat))
  BY WFMin, NatLessThanWellFounded, Zenon
<1>2. ASSUME NEW m \in S PROVE n <= m
  <2>1. m \in Nat /\ n \in Nat
    OBVIOUS
  <2>2. ~(m < n)
    BY <1>1, <2>1, Zenon DEF OpToRel
  <2> QED
    BY <2>1, <2>2
<1> QED
  BY <1>2, Zenon DEF Lowest

LEMMA IdleIsLocal == Idle \in Local
<1>1. << >> \in Prefixes
  BY PrefixesAre
<1> QED
  BY <1>1 DEF Idle, Local

\* A step of one thread keeps the types of all if its own locals have the right shape.
LEMMA GoOnTypes ==
    ASSUME ThreadTypes, NEW t \in Threads, NEW q \in Locations, NEW c \in Local,
           GoOn(t, q, c), Shape(q, c)
    PROVE  ThreadTypes'
BY DEF ThreadTypes, GoOn

LEMMA ReturnTypes ==
    ASSUME ThreadTypes, NEW t \in Threads, NEW result \in BOOLEAN, Return(t, result)
    PROVE  ThreadTypes'
<1>1. "idle" \in Locations /\ Idle \in Local /\ Shape("idle", Idle)
  BY IdleIsLocal DEF Shape, Locations
<1> QED
  BY <1>1 DEF ThreadTypes, Return

LEMMA UndoTypes ==
    ASSUME ThreadTypes, NEW t \in Threads, Undo(t),
           OpShape(loc[t]), loc[t].op = "rename", loc[t].source # None, loc[t].target # None
    PROVE  ThreadTypes'
<1>1. CASE IsLong(loc[t].to) /\ ~loc[t].had
  <2>1. GoOn(t, "drop_target", loc[t])
    BY <1>1 DEF Undo
  <2>2. "drop_target" \in Locations /\ loc[t] \in Local
    BY DEF ThreadTypes, Locations
  <2>3. Shape("drop_target", loc[t])
    BY <1>1 DEF Shape, PlaceShape, Resolving, AtParent, Making, Removing, InRename
  <2> QED
    BY <2>1, <2>2, <2>3, GoOnTypes
<1>2. CASE ~(IsLong(loc[t].to) /\ ~loc[t].had)
  BY <1>2, ReturnTypes DEF Undo
<1> QED
  BY <1>1, <1>2

LEMMA FailTypes ==
    ASSUME ThreadTypes, NEW t \in Threads, Fail(t), pc[t] # "idle"
    PROVE  ThreadTypes'
<1>1. OpShape(loc[t])
  BY DEF ThreadTypes, Shape
<1>2. CASE loc[t].nested
  BY <1>1, <1>2, UndoTypes DEF Fail, OpShape
<1>3. CASE ~loc[t].nested
  BY <1>3, ReturnTypes DEF Fail
<1> QED
  BY <1>2, <1>3

LEMMA GiveUpTypes ==
    ASSUME ThreadTypes, NEW t \in Threads, GiveUp(t),
           pc[t] \in {"open_create", "mkdirat", "write_iv"}
    PROVE  ThreadTypes'
<1>1. /\ OpShape(loc[t]) /\ PlaceShape(pc[t], loc[t]) /\ loc[t] \in Local
      /\ pc[t] \in AtParent
  BY DEF ThreadTypes, Shape, AtParent, Making
<1>2. CASE IsLong(loc[t].path)
  <2>1. GoOn(t, "drop_name", loc[t]) /\ "drop_name" \in Locations
    BY <1>2 DEF GiveUp, Locations
  <2>2. Shape("drop_name", loc[t])
    BY <1>1, <1>2 DEF Shape, PlaceShape, Resolving, AtParent, Making, Removing, InRename
  <2> QED
    BY <1>1, <2>1, <2>2, GoOnTypes
<1>3. CASE ~IsLong(loc[t].path)
  BY <1>3, ReturnTypes DEF GiveUp
<1> QED
  BY <1>2, <1>3

\* Where a call goes when the parent of its goal is open.
LEMMA AfterResolveIs ==
    ASSUME NEW t, loc[t].op \in AllOps, loc[t].nested => loc[t].op = "rename"
    PROVE  /\ loc[t].op = "stat" => AfterResolve(t) = "stat"
           /\ loc[t].op = "remove" => AfterResolve(t) = "unlink"
           /\ Removes(loc[t]) => AfterResolve(t) = "open_victim"
           /\ loc[t].op = "create" =>
                AfterResolve(t) = IF IsLong(loc[t].path) THEN "write_name" ELSE "open_create"
           /\ loc[t].op = "mkdir" =>
                AfterResolve(t) = IF IsLong(loc[t].path) THEN "write_name" ELSE "lock"
           /\ loc[t].op = "rename" /\ ~loc[t].nested =>
                AfterResolve(t) = IF IsLong(loc[t].to) THEN "write_target" ELSE "renameat"
BY DEF AfterResolve, AllOps, Removes

LEMMA EnteredTypes ==
    ASSUME ThreadTypes, NEW t \in Threads, NEW d \in Dirs, Entered(t, d),
           pc[t] \in {"lookup", "store"}
    PROVE  ThreadTypes'
<1> DEFINE c == loc[t]
           e == [c EXCEPT !.dirfd = d]
<1>1. c \in Local /\ OpShape(c) /\ PlaceShape(pc[t], c) /\ d # None
  BY ConstantsAre DEF ThreadTypes, Shape
<1>2. e \in Local
  BY <1>1 DEF Local
<1>3. CASE e.at # Parent(e.goal)
  <2>1. GoOn(t, "open_dir", e) /\ "open_dir" \in Locations
    BY <1>3 DEF Entered, Locations
  <2>2. OpShape(e)
    BY <1>1, <1>2 DEF OpShape, Local
  <2>3. PlaceShape("open_dir", e)
    BY <1>1, <1>3 DEF PlaceShape, Local, Resolving, AtParent, Making, Removing, InRename
  <2> QED
    BY <1>2, <2>1, <2>2, <2>3, GoOnTypes DEF Shape
<1>4. CASE e.at = Parent(e.goal) /\ e.op = "rename" /\ e.goal = e.path /\ e.source = None
  <2> DEFINE f == [e EXCEPT !.source = d, !.goal = e.to, !.at = Parent(e.to), !.dirfd = None]
  <2>1. GoOn(t, "lookup", f) /\ "lookup" \in Locations
    BY <1>4 DEF Entered, Locations
  <2>2. e.to \in Paths /\ Parent(e.to) \in Prefixes /\ Within(Parent(e.to), Parent(e.to))
    BY <1>1, <1>4, PrefixesAre, WithinItself DEF OpShape, Local
  <2>3. f \in Local
    BY <1>2, <2>2 DEF Local
  <2>4. c.op = "rename" /\ ~c.nested /\ c.target = None
    <3>1. c.op = "rename" /\ c.source = None
      BY <1>1, <1>4 DEF Local
    <3>2. ~c.nested
      BY <1>1, <3>1 DEF OpShape
    <3> QED
      BY <1>1, <3>1, <3>2 DEF PlaceShape, Resolving
  <2>5. OpShape(f)
    BY <1>1, <1>2, <2>2, <2>4 DEF OpShape, Local
  <2>6. PlaceShape("lookup", f)
    BY <1>1, <1>2, <2>4 DEF PlaceShape, Local, Resolving, AtParent, Making, Removing, InRename
  <2> QED
    BY <2>1, <2>3, <2>5, <2>6, GoOnTypes DEF Shape
<1>5. CASE /\ e.at = Parent(e.goal) /\ ~(e.op = "rename" /\ e.goal = e.path /\ e.source = None)
           /\ e.op = "rename" /\ ~e.nested
  <2> DEFINE f == [e EXCEPT !.target = d, !.dirfd = None]
             q == IF IsLong(c.to) THEN "write_target" ELSE "renameat"
  <2>1. c.op = "rename" /\ ~c.nested /\ c.source # None
    <3>1. c.op = "rename" /\ ~c.nested
      BY <1>1, <1>5 DEF Local
    <3>2. ~(c.goal = c.path /\ c.source = None)
      BY <1>1, <1>5 DEF Local
    <3> QED
      BY <1>1, <3>1, <3>2 DEF PlaceShape, Resolving
  <2>2. GoOn(t, q, f) /\ q \in Locations
    <3>1. AfterResolve(t) = q
      BY <1>1, <2>1, AfterResolveIs DEF OpShape
    <3> QED
      BY <1>5, <3>1 DEF Entered, Locations
  <2>3. f \in Local
    BY <1>2 DEF Local
  <2>4. OpShape(f)
    BY <1>1, <1>2, <2>1 DEF OpShape, Local
  <2>5. PlaceShape(q, f)
    BY <1>1, <1>2, <2>1 DEF PlaceShape, Local, Resolving, AtParent, Making, Removing, InRename
  <2> QED
    BY <2>2, <2>3, <2>4, <2>5, GoOnTypes DEF Shape
<1>6. CASE /\ e.at = Parent(e.goal) /\ ~(e.op = "rename" /\ ~e.nested)
  <2> DEFINE q == AfterResolve(t)
  <2>1. ~(c.op = "rename" /\ ~c.nested) /\ (c.nested => c.op = "rename" /\ c.source # None)
    BY <1>1, <1>6 DEF Local, OpShape
  <2>2. ~(e.op = "rename" /\ e.goal = e.path /\ e.source = None)
    BY <1>1, <2>1 DEF Local
  <2>3. GoOn(t, q, e)
    BY <1>6, <2>2 DEF Entered
  <2>4. OpShape(e)
    BY <1>1, <1>2 DEF OpShape, Local
  <2>5. /\ c.op = "stat" => q = "stat"
        /\ c.op = "remove" => q = "unlink"
        /\ Removes(c) => q = "open_victim"
        /\ c.op = "create" => q = IF IsLong(c.path) THEN "write_name" ELSE "open_create"
        /\ c.op = "mkdir" => q = IF IsLong(c.path) THEN "write_name" ELSE "lock"
    BY <1>1, <2>1, AfterResolveIs DEF OpShape
  <2> HIDE DEF q
  <2>6. q \in Locations /\ PlaceShape(q, e)
    <3>1. c.op \in {"stat", "remove", "create", "mkdir"} \/ Removes(c)
      BY <1>1, <2>1 DEF OpShape, AllOps, Removes
    <3>2. e.dirfd # None /\ e.at = Parent(e.goal)
      BY <1>1, <1>6 DEF Local
    <3>3. /\ e.op = c.op /\ e.path = c.path /\ e.nested = c.nested /\ (Removes(e) <=> Removes(c))
      BY <1>1 DEF Local, Removes
    <3>4. c.op # "rmdir" /\ ~c.nested => ~Removes(e)
      BY <3>3 DEF Removes
    <3>5. CASE c.op \in {"stat", "remove"}
      BY <3>2, <3>3, <3>5, <2>5
         DEF PlaceShape, Locations, Resolving, AtParent, Making, Removing, InRename
    <3>6. CASE c.op = "create"
      BY <3>2, <3>3, <3>6, <2>5
         DEF PlaceShape, Locations, Resolving, AtParent, Making, Removing, InRename
    <3>7. CASE c.op = "mkdir"
      <4>1. ~Removes(e)
        BY <3>3, <3>7, <2>1 DEF Removes
      <4> QED
        BY <3>2, <3>3, <3>7, <4>1, <2>5
           DEF PlaceShape, Locations, Resolving, AtParent, Making, Removing, InRename
    <3>8. CASE Removes(c)
      BY <3>2, <3>3, <3>8, <2>5
         DEF PlaceShape, Locations, Resolving, AtParent, Making, Removing, InRename
    <3> QED
      BY <3>1, <3>5, <3>6, <3>7, <3>8
  <2>7. Shape(q, e)
    <3>1. CASE q # "idle"
      BY <3>1, <2>4, <2>6 DEF Shape
    <3>2. q # "idle"
      BY <1>1, <2>1, <2>5 DEF OpShape, AllOps, Removes
    <3> QED
      BY <3>1, <3>2
  <2> QED
    BY <1>2, <2>3, <2>6, <2>7, GoOnTypes
<1> QED
  BY <1>3, <1>4, <1>5, <1>6
-----------------------------------------------------------------------------
(* The steps keep the types                                                *)

LEMMA Locals ==
    ASSUME ThreadTypes, NEW t \in Threads, pc[t] # "idle"
    PROVE  /\ loc[t] \in Local /\ OpShape(loc[t]) /\ PlaceShape(pc[t], loc[t])
           /\ loc[t].goal \in Paths /\ loc[t].path \in Paths /\ loc[t].at \in Prefixes
           /\ Name(t) \in Names /\ OldName(t) \in Names
           /\ loc[t].op = "rename" => loc[t].to \in Paths /\ NewName(t) \in Names
           /\ pc[t] \in Resolving \cup AtParent => loc[t].dirfd \in Dirs
           /\ pc[t] \in InRename => loc[t].op = "rename" /\ {loc[t].source, loc[t].target} \subseteq Dirs
           /\ pc[t] \in {"write_iv"} \cup (Removing \ {"open_victim"}) => loc[t].victim \in Dirs
           /\ pc[t] = "lock" /\ Removes(loc[t]) => loc[t].victim \in Dirs
<1>1. loc[t] \in Local /\ OpShape(loc[t]) /\ PlaceShape(pc[t], loc[t])
  BY DEF ThreadTypes, Shape
<1>2. loc[t].goal \in Paths /\ loc[t].path \in Paths /\ (loc[t].op = "rename" => loc[t].to \in Paths)
  BY <1>1 DEF OpShape
<1>3. \A p \in Paths : Basename(p) \in Names
  BY PrefixesAre, PathIs
<1>4. Name(t) \in Names /\ OldName(t) \in Names /\ (loc[t].op = "rename" => NewName(t) \in Names)
  BY <1>2, <1>3 DEF Name, OldName, NewName
<1>5. /\ loc[t].at \in Prefixes /\ loc[t].dirfd \in Dirs \cup {None} /\ loc[t].source \in Dirs \cup {None}
      /\ loc[t].target \in Dirs \cup {None} /\ loc[t].victim \in Dirs \cup {None}
  BY <1>1 DEF Local
<1>6. pc[t] \in Resolving \cup AtParent => loc[t].dirfd \in Dirs
  BY <1>1, <1>5 DEF PlaceShape
<1>7. pc[t] \in InRename => loc[t].op = "rename" /\ {loc[t].source, loc[t].target} \subseteq Dirs
  BY <1>1, <1>5 DEF PlaceShape
<1>8. /\ pc[t] \in {"write_iv"} \cup (Removing \ {"open_victim"}) => loc[t].victim \in Dirs
      /\ pc[t] = "lock" /\ Removes(loc[t]) => loc[t].victim \in Dirs
  BY <1>1, <1>5 DEF PlaceShape
<1> QED
  BY <1>1, <1>2, <1>4, <1>5, <1>6, <1>7, <1>8

\* A step to another place that leaves the locals alone.
LEMMA MoveTypes ==
    ASSUME ThreadTypes, NEW t \in Threads, pc[t] # "idle", NEW q \in Locations \ {"idle"},
           GoOn(t, q, loc[t]), PlaceShape(q, loc[t])
    PROVE  ThreadTypes'
<1>1. loc[t] \in Local /\ OpShape(loc[t])
  BY Locals
<1> QED
  BY <1>1, GoOnTypes DEF Shape

LEMMA BeginTypes ==
    ASSUME ThreadTypes, NEW t \in Threads, NEW op \in AllOps, NEW p \in Paths,
         NEW q \in Paths \cup {None},
           op = "rename" => q \in Paths, op # "rename" => q = None, Begin(t, op, p, q)
    PROVE  ThreadTypes'
<1> DEFINE c == [Idle EXCEPT !.op = op, !.path = p, !.to = q, !.goal = p, !.at = Parent(p)]
<1>1. Idle \in Local /\ Parent(p) \in Prefixes /\ Within(Parent(p), Parent(p))
  BY IdleIsLocal, PrefixesAre, WithinItself
<1>2. /\ c.op = op /\ c.path = p /\ c.to = q /\ c.goal = p /\ c.at = Parent(p) /\ c.dirfd = None
      /\ c.source = None /\ c.target = None /\ c.nested = FALSE
  BY DEF Idle
<1>3. c \in Local
  BY <1>1 DEF Local
<1>4. OpShape(c)
  BY <1>1, <1>2 DEF OpShape
<1>5. PlaceShape("lookup", c)
  BY <1>2 DEF PlaceShape, Resolving, AtParent, Making, Removing, InRename
<1>6. pc' = [pc EXCEPT ![t] = "lookup"] /\ loc' = [loc EXCEPT ![t] = c] /\ answer' = answer
  BY DEF Begin
<1>7. calls' \in 0..MaxCalls
  <2>1. calls \in 0..MaxCalls /\ MaxCalls \in Nat
    BY ConstantsAre DEF ThreadTypes
  <2> QED
    BY <2>1 DEF Begin
<1>8. "lookup" \in Locations /\ Shape("lookup", c)
  BY <1>4, <1>5 DEF Locations, Shape
<1> HIDE DEF c
<1> QED
  BY <1>3, <1>6, <1>7, <1>8 DEF ThreadTypes

LEMMA HitIs ==
    ASSUME TypeOK, NEW p, Hits(p) # {}
    PROVE  /\ Lowest(Hits(p)) \in Slots
           /\ cache[Lowest(Hits(p))].dir \in Dirs
           /\ cache[Lowest(Hits(p))].path = p
<1>1. Hits(p) \in SUBSET Nat /\ Hits(p) \subseteq Slots
  BY ConstantsAre DEF Hits, Slots
<1>2. Lowest(Hits(p)) \in Hits(p)
  BY <1>1, LowestIn
<1> QED
  BY <1>1, <1>2 DEF Hits, TypeOK

LEMMA ResolveTypes ==
    ASSUME TypeOK, ThreadTypes, NEW t \in Threads, Resolve(t)
    PROVE  ThreadTypes'
<1> DEFINE c == loc[t]
<1>1. pc[t] # "idle"
  BY DEF Resolve, LookupHit, LookupMiss, OpenDir, ReadDirIV, StoreCache
<1>2. /\ c \in Local /\ OpShape(c) /\ PlaceShape(pc[t], c) /\ c.goal \in Paths /\ c.at \in Prefixes
      /\ pc[t] \in Resolving => c.dirfd \in Dirs
      /\ Within(Parent(c.goal), c.at)
  BY <1>1, Locals DEF OpShape
<1>3. CASE LookupHit(t)
  BY <1>3, HitIs, EnteredTypes DEF LookupHit
<1>4. CASE LookupMiss(t) /\ c.at = << >>
  <2> DEFINE e == [c EXCEPT !.dirfd = Root]
  <2>1. GoOn(t, "read_iv", e) /\ pc[t] = "lookup"
    BY <1>4 DEF LookupMiss
  <2>2. e \in Local /\ OpShape(e) /\ Root # None
    BY <1>2, ConstantsAre DEF Local, OpShape
  <2>3. PlaceShape("read_iv", e)
    BY <1>2, <2>1, <2>2 DEF PlaceShape, Local, Resolving, AtParent, Making, Removing, InRename
  <2>4. "read_iv" \in Locations /\ Shape("read_iv", e)
    BY <2>2, <2>3 DEF Locations, Shape
  <2> QED
    BY <2>1, <2>2, <2>4, GoOnTypes
<1>5. CASE LookupMiss(t) /\ c.at # << >>
  <2> DEFINE e == [c EXCEPT !.at = Parent(c.at)]
  <2>1. GoOn(t, "lookup", e) /\ pc[t] = "lookup"
    BY <1>5 DEF LookupMiss
  <2>2. Parent(c.at) \in Prefixes /\ Within(Parent(c.goal), Parent(c.at))
    BY <1>2, <1>5, StepUp
  <2>3. e \in Local /\ OpShape(e)
    BY <1>2, <2>2 DEF Local, OpShape
  <2>4. PlaceShape("lookup", e)
    BY <1>2, <2>1 DEF PlaceShape, Local, Resolving, AtParent, Making, Removing, InRename
  <2>5. "lookup" \in Locations /\ Shape("lookup", e)
    BY <2>3, <2>4 DEF Locations, Shape
  <2> QED
    BY <2>1, <2>3, <2>5, GoOnTypes
<1>6. CASE OpenDir(t)
  <2> DEFINE name == c.goal[Len(c.at) + 1]
             entry == dirs[c.dirfd].entries[name]
             e == [c EXCEPT !.dirfd = entry, !.at = Append(c.at, name)]
  <2>1. pc[t] = "open_dir"
    BY <1>6 DEF OpenDir
  <2>2. CASE entry \in Dirs
    <3>1. GoOn(t, "read_iv", e)
      BY <1>6, <2>2, Zenon DEF OpenDir
    <3>2. Append(c.at, name) \in Prefixes /\ Within(Parent(c.goal), Append(c.at, name))
      BY <1>2, <2>1, StepDown DEF PlaceShape
    <3>3. e \in Local /\ OpShape(e) /\ entry # None
      BY <1>2, <2>2, <3>2, ConstantsAre, Zenon DEF Local, OpShape
    <3>4. PlaceShape("read_iv", e)
      BY <1>2, <2>1, <3>3, Zenon DEF PlaceShape, Local, Resolving, AtParent, Making, Removing, InRename
    <3>5. "read_iv" \in Locations /\ Shape("read_iv", e)
      BY <3>3, <3>4, Zenon DEF Locations, Shape
    <3> HIDE DEF e
    <3> QED
      BY <3>1, <3>3, <3>5, GoOnTypes
  <2>3. CASE entry \notin Dirs
    BY <1>1, <1>6, <2>3, FailTypes DEF OpenDir
  <2> QED
    BY <2>2, <2>3
<1>7. CASE ReadDirIV(t)
  <2>1. pc[t] = "read_iv"
    BY <1>7 DEF ReadDirIV
  <2>2. CASE GoOn(t, "store", c)
    <3>1. PlaceShape("store", c)
      BY <1>2, <2>1 DEF PlaceShape, Resolving, AtParent, Making, Removing, InRename
    <3>2. "store" \in Locations \ {"idle"}
      BY DEF Locations
    <3> QED
      BY <1>1, <2>2, <3>1, <3>2, MoveTypes
  <2>3. CASE Fail(t)
    BY <1>1, <2>3, FailTypes
  <2> QED
    BY <1>7, <2>2, <2>3 DEF ReadDirIV
<1>8. CASE StoreCache(t)
  <2>1. pc[t] = "store" /\ Entered(t, c.dirfd) /\ c.dirfd \in Dirs
    BY <1>2, <1>8 DEF StoreCache, Resolving
  <2> QED
    BY <2>1, EnteredTypes
<1> QED
  BY <1>3, <1>4, <1>5, <1>6, <1>7, <1>8 DEF Resolve

LEMMA CreateRemoveTypes ==
    ASSUME TypeOK, ThreadTypes, NEW t \in Threads, CreateRemove(t)
    PROVE  ThreadTypes'
<1> DEFINE c == loc[t]
<1>1. pc[t] # "idle"
  BY DEF CreateRemove, Stat, Unlink, UnlinkFails, DropRemovedName, WriteLongName, WriteLongNameFails,
         FillName, FillNameFails,
         OpenCreate, OpenCreateFails, DropName
<1>2. c \in Local /\ OpShape(c) /\ PlaceShape(pc[t], c) /\ Name(t) \in Names
  BY <1>1, Locals
<1>3. ASSUME NEW r \in BOOLEAN, Return(t, r) PROVE ThreadTypes'
  BY <1>3, ReturnTypes
<1>4. CASE Stat(t) \/ UnlinkFails(t) \/ WriteLongNameFails(t) \/ OpenCreate(t) \/ DropName(t)
  BY <1>4, <1>3 DEF Stat, UnlinkFails, WriteLongNameFails, OpenCreate, DropName
<1>5. CASE Unlink(t)
  <2>1. CASE IsLong(c.path)
    <3>1. GoOn(t, "drop_removed", c) /\ pc[t] = "unlink"
      BY <1>5, <2>1 DEF Unlink
    <3>2. PlaceShape("drop_removed", c) /\ "drop_removed" \in Locations \ {"idle"}
      BY <1>2, <2>1, <3>1
         DEF PlaceShape, Locations, Resolving, AtParent, Making, Removing, InRename
    <3> QED
      BY <1>1, <3>1, <3>2, MoveTypes
  <2>2. CASE ~IsLong(c.path)
    BY <1>3, <1>5, <2>2 DEF Unlink
  <2> QED
    BY <2>1, <2>2
<1>6. CASE DropRemovedName(t)
  <2>1. (Name(t) \in dirs[c.dirfd].names) \in BOOLEAN
    OBVIOUS
  <2>2. Return(t, Name(t) \in dirs[c.dirfd].names)
    BY <1>6 DEF DropRemovedName
  <2> QED
    BY <1>3, <2>1, <2>2, Zenon
<1>7. ASSUME pc[t] \in {"write_name", "fill_name"},
             NEW q \in {"fill_name", "drop_name", AfterName(t)}, GoOn(t, q, c)
      PROVE  ThreadTypes'
  <2>1. AfterName(t) \in Locations \ {"idle"} /\ q \in Locations \ {"idle"}
    BY DEF AfterName, Locations
  <2>2. ~Removes(c)
    BY <1>2, <1>7 DEF PlaceShape, OpShape, Removes
  <2>3. CASE q = AfterName(t)
    <3>1. CASE q = "lock" /\ c.op = "mkdir"
      BY <1>2, <1>7, <2>1, <2>2, <3>1, MoveTypes
         DEF PlaceShape, Resolving, AtParent, Making, Removing, InRename
    <3>2. CASE q = "open_create" /\ c.op # "mkdir"
      <4>1. c.op = "create"
        BY <1>2, <1>7, <3>2 DEF PlaceShape
      <4>2. PlaceShape(q, c)
        BY <1>2, <1>7, <2>2, <3>2, <4>1 DEF PlaceShape, Resolving, AtParent, Making, Removing, InRename
      <4> QED
        BY <1>1, <1>7, <2>1, <4>2, MoveTypes
    <3> QED
      BY <2>3, <3>1, <3>2 DEF AfterName
  <2>4. CASE q \in {"fill_name", "drop_name"}
    <3>1. PlaceShape(q, c)
      BY <1>2, <1>7, <2>2, <2>4 DEF PlaceShape, Resolving, AtParent, Making, Removing, InRename
    <3> QED
      BY <1>1, <1>7, <2>1, <3>1, MoveTypes
  <2> QED
    BY <1>7, <2>3, <2>4
<1>8. CASE OpenCreateFails(t)
  BY <1>8, GiveUpTypes DEF OpenCreateFails
<1>9. CASE WriteLongName(t) \/ FillName(t) \/ FillNameFails(t)
  BY <1>7, <1>9 DEF WriteLongName, FillName, FillNameFails
<1> QED
  BY <1>4, <1>5, <1>6, <1>8, <1>9 DEF CreateRemove

LEMMA MkdirRmdirTypes ==
    ASSUME TypeOK, ThreadTypes, NEW t \in Threads, MkdirRmdir(t)
    PROVE  ThreadTypes'
<1> DEFINE c == loc[t]
<1>1. pc[t] # "idle"
  BY DEF MkdirRmdir, LockDirIV, Mkdirat, MkdiratFails, WriteDirIV, WriteDirIVFails, Reopen, OpenVictim,
         MoveIV, MoveIVFails, Rmdirat, RmdiratFails, DropTmp, DropVictimName, Uncache, ClearCached
<1>2. c \in Local /\ OpShape(c) /\ PlaceShape(pc[t], c) /\ Name(t) \in Names
      /\ (pc[t] \in AtParent => c.dirfd \in Dirs)
  BY <1>1, Locals
<1>3. CASE LockDirIV(t)
  <2> DEFINE q == IF c.op = "mkdir" THEN "mkdirat" ELSE "move_iv"
  <2>1. GoOn(t, q, c) /\ pc[t] = "lock" /\ q \in Locations \ {"idle"}
    BY <1>3 DEF LockDirIV, Locations
  <2>2. PlaceShape(q, c)
    BY <1>2, <2>1 DEF PlaceShape, Resolving, AtParent, Making, Removing, InRename
  <2> QED
    BY <1>1, <2>1, <2>2, MoveTypes
<1>4. CASE Mkdirat(t)
  <2> DEFINE d == Lowest(FreeDirs)
             e == [c EXCEPT !.victim = d]
  <2>1. GoOn(t, "write_iv", e) /\ pc[t] = "mkdirat" /\ FreeDirs # {}
    BY <1>4 DEF Mkdirat
  <2>2. d \in Dirs /\ d # None
    <3>1. FreeDirs \in SUBSET Nat /\ FreeDirs \subseteq Dirs
      BY ConstantsAre DEF FreeDirs
    <3>2. d \in FreeDirs
      BY <2>1, <3>1, LowestIn
    <3> QED
      BY <3>1, <3>2, ConstantsAre
  <2> HIDE DEF d
  <2>3. e \in Local /\ OpShape(e)
    BY <1>2, <2>2 DEF Local, OpShape
  <2>4. PlaceShape("write_iv", e)
    BY <1>2, <2>1, <2>2 DEF PlaceShape, Local, Resolving, AtParent, Making, Removing, InRename
  <2>5. "write_iv" \in Locations /\ Shape("write_iv", e)
    BY <2>3, <2>4 DEF Locations, Shape
  <2> QED
    BY <2>1, <2>3, <2>5, GoOnTypes
<1>5. CASE MkdiratFails(t) \/ WriteDirIVFails(t)
  BY <1>5, GiveUpTypes DEF MkdiratFails, WriteDirIVFails
<1>6. CASE WriteDirIV(t) \/ Reopen(t)
  <2>1. CASE WriteDirIV(t)
    <3>1. GoOn(t, "reopen", c) /\ pc[t] = "write_iv" /\ "reopen" \in Locations \ {"idle"}
      BY <2>1 DEF WriteDirIV, Locations
    <3>2. PlaceShape("reopen", c)
      BY <1>2, <3>1 DEF PlaceShape, Resolving, AtParent, Making, Removing, InRename
    <3> QED
      BY <1>1, <3>1, <3>2, MoveTypes
  <2>2. CASE Reopen(t)
    <3>1. PICK r \in BOOLEAN : Return(t, r)
      <4>1. (Entry(t) \in Dirs) \in BOOLEAN /\ FALSE \in BOOLEAN
        OBVIOUS
      <4> QED
        BY <2>2, <4>1, Zenon DEF Reopen
    <3> QED
      BY <3>1, ReturnTypes
  <2> QED
    BY <1>6, <2>1, <2>2
<1>7. CASE OpenVictim(t)
  <2> DEFINE e == [c EXCEPT !.victim = Entry(t)]
  <2>1. pc[t] = "open_victim"
    BY <1>7 DEF OpenVictim
  <2>2. CASE Entry(t) \in Dirs /\ GoOn(t, "lock", e)
    <3>1. Entry(t) # None
      BY <2>2, ConstantsAre
    <3>2. e \in Local /\ OpShape(e)
      BY <1>2, <2>2 DEF Local, OpShape
    <3>3. PlaceShape("lock", e)
      BY <1>2, <2>1, <3>1
         DEF PlaceShape, Local, Resolving, AtParent, Making, Removing, InRename, Removes
    <3>4. "lock" \in Locations /\ Shape("lock", e)
      BY <3>2, <3>3 DEF Locations, Shape
    <3> QED
      BY <2>2, <3>2, <3>4, GoOnTypes
  <2>3. CASE Fail(t)
    BY <1>1, <2>3, FailTypes
  <2> QED
    BY <1>7, <2>2, <2>3 DEF OpenVictim
<1>8. CASE MoveIVFails(t) \/ RmdiratFails(t)
  BY <1>1, <1>8, FailTypes DEF MoveIVFails, RmdiratFails
<1>9. ASSUME NEW q \in {"rmdirat", "drop_tmp", "drop_victim", "uncache", "clear"}, GoOn(t, q, c),
             pc[t] \in Removing \ {"open_victim"}, q = "drop_victim" => IsLong(c.goal)
      PROVE  ThreadTypes'
  <2>1. q \in Locations \ {"idle"}
    BY DEF Locations
  <2>2. PlaceShape(q, c)
    BY <1>2, <1>9 DEF PlaceShape, Resolving, AtParent, Making, Removing, InRename
  <2> QED
    BY <1>1, <1>9, <2>1, <2>2, MoveTypes
<1>10. CASE MoveIV(t) \/ Rmdirat(t) \/ DropVictimName(t)
  BY <1>9, <1>10 DEF MoveIV, Rmdirat, DropVictimName, Removing
<1>11. CASE DropTmp(t)
  BY <1>9, <1>11 DEF DropTmp, Removing, IsLong, Name
<1>12. ASSUME pc[t] \in {"uncache", "clear"}, RmdirReturns(t) PROVE ThreadTypes'
  <2>1. CASE c.nested
    <3>1. GoOn(t, "rename_again", c) /\ "rename_again" \in Locations \ {"idle"}
      BY <1>12, <2>1 DEF RmdirReturns, Locations
    <3>2. PlaceShape("rename_again", c)
      BY <1>2, <1>12, <2>1
         DEF PlaceShape, OpShape, Resolving, AtParent, Making, Removing, InRename
    <3> QED
      BY <1>1, <3>1, <3>2, MoveTypes
  <2>2. CASE ~c.nested
    BY <1>12, <2>2, ReturnTypes DEF RmdirReturns
  <2> QED
    BY <2>1, <2>2
<1>13. CASE Uncache(t) \/ ClearCached(t)
  BY <1>9, <1>12, <1>13 DEF Uncache, ClearCached, Removing
<1> QED
  BY <1>3, <1>4, <1>5, <1>6, <1>7, <1>8, <1>10, <1>11, <1>13 DEF MkdirRmdir

LEMMA RenameTypes ==
    ASSUME TypeOK, ThreadTypes, NEW t \in Threads, RenameSteps(t)
    PROVE  ThreadTypes'
<1> DEFINE c == loc[t]
<1>1. pc[t] \in InRename
  BY DEF RenameSteps, WriteTargetName, WriteTargetNameFails, FillTarget, FillTargetFails,
         RemoveTarget, Renameat, RenameatFails,
         DropTargetName, DropSourceName, InRename
<1>2. /\ c \in Local /\ OpShape(c) /\ PlaceShape(pc[t], c) /\ pc[t] # "idle"
      /\ c.op = "rename" /\ c.source # None /\ c.target # None /\ c.to \in Paths
  <2>1. pc[t] # "idle"
    BY <1>1 DEF InRename
  <2> QED
    BY <1>1, <2>1, Locals, ConstantsAre
<1>3. CASE WriteTargetName(t)
  <2>1. PICK b \in BOOLEAN, q \in {"renameat", "fill_target"} : GoOn(t, q, [c EXCEPT !.had = b])
    BY <1>3 DEF WriteTargetName
  <2> DEFINE e == [c EXCEPT !.had = b]
  <2>2. GoOn(t, q, e) /\ pc[t] = "write_target"
    BY <1>3, <2>1 DEF WriteTargetName
  <2>3. e \in Local /\ OpShape(e)
    BY <1>2 DEF Local, OpShape
  <2>4. PlaceShape(q, e)
    BY <1>2, <2>2 DEF PlaceShape, Local, Resolving, AtParent, Making, Removing, InRename
  <2>5. q \in Locations /\ Shape(q, e)
    BY <2>3, <2>4 DEF Locations, Shape
  <2> QED
    BY <2>2, <2>3, <2>5, GoOnTypes
<1>4. CASE WriteTargetNameFails(t) \/ DropTargetName(t) \/ DropSourceName(t)
  BY <1>4, ReturnTypes DEF WriteTargetNameFails, DropTargetName, DropSourceName
<1>5. CASE RemoveTarget(t)
  <2> DEFINE e == [c EXCEPT !.nested = TRUE, !.goal = c.to, !.at = Parent(c.to)]
  <2>1. GoOn(t, "lookup", e) /\ pc[t] = "renameat"
    BY <1>5 DEF RemoveTarget
  <2>2. Parent(c.to) \in Prefixes /\ Within(Parent(c.to), Parent(c.to))
    BY <1>2, PrefixesAre, WithinItself
  <2>3. e \in Local /\ OpShape(e)
    BY <1>2, <2>2 DEF Local, OpShape
  <2>4. c.dirfd = None
    BY <1>2, <2>1 DEF PlaceShape
  <2>5. PlaceShape("lookup", e)
    BY <1>2, <2>4 DEF PlaceShape, Local, Resolving, AtParent, Making, Removing, InRename
  <2>6. "lookup" \in Locations /\ Shape("lookup", e)
    BY <2>3, <2>5 DEF Locations, Shape
  <2> QED
    BY <2>1, <2>3, <2>6, GoOnTypes
<1>6. ASSUME NEW from \in {"renameat", "rename_again"}, Renameat(t, from)
      PROVE  ThreadTypes'
  <2>1. CASE IsLong(c.path)
    <3>1. GoOn(t, "drop_source", c) /\ pc[t] = from /\ "drop_source" \in Locations \ {"idle"}
      BY <1>6, <2>1 DEF Renameat, Locations
    <3>2. PlaceShape("drop_source", c)
      BY <1>2, <2>1 DEF PlaceShape, Resolving, AtParent, Making, Removing, InRename
    <3> QED
      BY <1>2, <3>1, <3>2, MoveTypes
  <2>2. CASE ~IsLong(c.path)
    BY <1>6, <2>2, ReturnTypes DEF Renameat
  <2> QED
    BY <2>1, <2>2
<1>7. ASSUME NEW from \in {"renameat", "rename_again"}, RenameatFails(t, from)
      PROVE  ThreadTypes'
  BY <1>2, <1>7, UndoTypes DEF RenameatFails
<1>8. CASE FillTarget(t) \/ FillTargetFails(t)
  <2>1. PICK q \in {"renameat", "drop_target"} : GoOn(t, q, c) /\ pc[t] = "fill_target"
    BY <1>8 DEF FillTarget, FillTargetFails
  <2>2. PlaceShape(q, c) /\ q \in Locations \ {"idle"}
    BY <1>2, <2>1 DEF PlaceShape, Locations, Resolving, AtParent, Making, Removing, InRename
  <2> QED
    BY <1>2, <2>1, <2>2, MoveTypes
<1> QED
  BY <1>3, <1>4, <1>5, <1>6, <1>7, <1>8 DEF RenameSteps

LEMMA EditTypes ==
    ASSUME TypeOK, NEW d \in Dirs
    PROVE  /\ dirs \in [Dirs -> DirType]
           /\ \A n \in Names, e \in Kinds : Put(d, n, e) \in [Dirs -> DirType]
           /\ \A N \in SUBSET LongNames : [dirs EXCEPT ![d].names = N] \in [Dirs -> DirType]
           /\ \A b \in BOOLEAN : [dirs EXCEPT ![d].iv = b] \in [Dirs -> DirType]
<1>1. dirs \in [Dirs -> DirType]
  BY DEF TypeOK, DirType
<1>2. ASSUME NEW n \in Names, NEW e \in Kinds PROVE Put(d, n, e) \in [Dirs -> DirType]
  <2>1. [dirs[d].entries EXCEPT ![n] = e] \in [Names -> Kinds]
    BY <1>1 DEF DirType
  <2>2. [dirs[d] EXCEPT !.entries = [dirs[d].entries EXCEPT ![n] = e]] \in DirType
    BY <1>1, <2>1 DEF DirType
  <2>3. Put(d, n, e) = [dirs EXCEPT ![d] = [dirs[d] EXCEPT !.entries = [dirs[d].entries EXCEPT ![n] = e]]]
    BY DEF Put
  <2> QED
    BY <1>1, <2>2, <2>3
<1>3. \A N \in SUBSET LongNames : [dirs EXCEPT ![d].names = N] \in [Dirs -> DirType]
  BY <1>1 DEF DirType
<1>4. \A b \in BOOLEAN : [dirs EXCEPT ![d].iv = b] \in [Dirs -> DirType]
  BY <1>1 DEF DirType
<1> QED
  BY <1>1, <1>2, <1>3, <1>4

LEMMA ThreadStepDirs ==
    ASSUME TypeOK, ThreadTypes, NEW t \in Threads,
           CreateRemove(t) \/ MkdirRmdir(t) \/ RenameSteps(t)
    PROVE  dirs' \in [Dirs -> DirType]
<1> DEFINE c == loc[t]
<1>1. dirs \in [Dirs -> DirType] /\ \A d \in Dirs, n \in Names : dirs[d].entries[n] \in Kinds
  BY DEF TypeOK, DirType
<1>2. ASSUME pc[t] \in AtParent
      PROVE  /\ c.dirfd \in Dirs /\ Name(t) \in Names /\ PlaceShape(pc[t], c)
             /\ pc[t] # "idle"
  <2>1. pc[t] # "idle"
    BY <1>2 DEF AtParent, Making, Removing
  <2> QED
    BY <1>2, <2>1, Locals
<1>3. ASSUME pc[t] \in AtParent, Name(t) \in LongNames, NEW N \in SUBSET LongNames,
             dirs' = [dirs EXCEPT ![c.dirfd].names = N]
      PROVE  dirs' \in [Dirs -> DirType]
  BY <1>2, <1>3, EditTypes
<1>4. ASSUME pc[t] \in AtParent, NEW e \in Kinds, dirs' = Put(c.dirfd, Name(t), e)
      PROVE  dirs' \in [Dirs -> DirType]
  BY <1>2, <1>4, EditTypes
<1>5. \A d \in Dirs : dirs[d].names \in SUBSET LongNames
  BY <1>1 DEF DirType
<1>6. CASE UNCHANGED dirs
  BY <1>1, <1>6
<1>7. CASE WriteLongName(t)
  <2>1. pc[t] = "write_name" /\ pc[t] \in AtParent
    BY <1>7 DEF WriteLongName, AtParent, Making
  <2>2. Name(t) \in LongNames
    <3>1. loc[t].goal = loc[t].path /\ IsLong(loc[t].path)
      <4>1. OpShape(loc[t]) /\ PlaceShape(pc[t], loc[t])
        BY <1>2, <2>1, Locals
      <4> QED
        BY <2>1, <4>1, PrefixesAre DEF PlaceShape, OpShape
    <3> QED
      BY <3>1 DEF Name, IsLong
  <2>3. dirs' = [dirs EXCEPT ![c.dirfd].names = dirs[c.dirfd].names \cup {Name(t)}]
    BY <1>7 DEF WriteLongName
  <2>4. dirs[c.dirfd].names \cup {Name(t)} \in SUBSET LongNames
    BY <1>2, <1>5, <2>1, <2>2
  <2> QED
    BY <1>2, <2>1, <2>3, <2>4, EditTypes
<1>8. CASE DropName(t) \/ DropRemovedName(t) \/ DropVictimName(t)
  <2>1. pc[t] \in AtParent
    BY <1>8 DEF DropName, DropRemovedName, DropVictimName, AtParent, Making, Removing
  <2>2. dirs' = [dirs EXCEPT ![c.dirfd].names = dirs[c.dirfd].names \ {Name(t)}]
    BY <1>8 DEF DropName, DropRemovedName, DropVictimName
  <2>3. dirs[c.dirfd].names \ {Name(t)} \in SUBSET LongNames
    BY <1>2, <1>5, <2>1
  <2> QED
    BY <1>2, <2>1, <2>2, <2>3, EditTypes
<1>9. CASE OpenCreate(t) \/ Unlink(t) \/ Rmdirat(t)
  <2>1. pc[t] \in AtParent
    BY <1>9 DEF OpenCreate, Unlink, Rmdirat, AtParent, Making, Removing
  <2>2. \E e \in Kinds : dirs' = Put(c.dirfd, Name(t), e)
    BY <1>9 DEF OpenCreate, Unlink, Rmdirat, Kinds
  <2> QED
    BY <1>4, <2>1, <2>2
<1>10. CASE Mkdirat(t)
  <2>1. pc[t] \in AtParent /\ FreeDirs # {} /\ dirs' = Put(c.dirfd, Name(t), Lowest(FreeDirs))
    BY <1>10 DEF Mkdirat, AtParent, Making
  <2>2. FreeDirs \in SUBSET Nat /\ FreeDirs \subseteq Kinds
    BY ConstantsAre DEF FreeDirs, Kinds
  <2>3. Lowest(FreeDirs) \in Kinds
    BY <2>1, <2>2, LowestIn
  <2> QED
    BY <1>4, <2>1, <2>3
<1>11. CASE WriteDirIV(t)
  <2>1. pc[t] = "write_iv" /\ dirs' = [dirs EXCEPT ![c.victim].iv = TRUE] /\ pc[t] # "idle"
    BY <1>11 DEF WriteDirIV
  <2>2. c.victim \in Dirs
    BY <2>1, Locals
  <2> QED
    BY <2>1, <2>2, EditTypes
<1>12. CASE WriteDirIVFails(t)
  <2>1. pc[t] \in AtParent
    BY <1>12 DEF WriteDirIVFails, Reopen, AtParent, Making
  <2>2. dirs' = Put(c.dirfd, Name(t), None) \/ dirs' = dirs
    BY <1>12 DEF WriteDirIVFails, Reopen
  <2> QED
    BY <1>1, <1>4, <2>1, <2>2 DEF Kinds
<1>13. CASE MoveIV(t) \/ RmdiratFails(t) \/ DropTmp(t)
  <2>1. pc[t] \in {"move_iv", "rmdirat", "drop_tmp"} /\ pc[t] \in AtParent
    BY <1>13 DEF MoveIV, RmdiratFails, DropTmp, AtParent, Removing
  <2>2. c.victim \in Dirs /\ c.dirfd \in Dirs
    BY <1>2, <2>1, Locals DEF Removing
  <2>3. \E g \in [Dirs -> DirType], M \in SUBSET Dirs : dirs' = [g EXCEPT ![c.dirfd].moved = M]
    <3>1. CASE MoveIV(t)
      <4>1. dirs' = [[dirs EXCEPT ![c.victim].iv = FALSE]
                        EXCEPT ![c.dirfd].moved
                            = [dirs EXCEPT ![c.victim].iv = FALSE][c.dirfd].moved \cup {c.victim}]
        BY <3>1 DEF MoveIV
      <4>2. [dirs EXCEPT ![c.victim].iv = FALSE] \in [Dirs -> DirType]
        BY <2>2, EditTypes
      <4>3. [dirs EXCEPT ![c.victim].iv = FALSE][c.dirfd].moved \cup {c.victim} \in SUBSET Dirs
        BY <2>2, <4>2 DEF DirType
      <4> QED
        BY <4>1, <4>2, <4>3
    <3>2. CASE RmdiratFails(t)
      <4>1. dirs' = [[dirs EXCEPT ![c.victim].iv = TRUE]
                        EXCEPT ![c.dirfd].moved
                            = [dirs EXCEPT ![c.victim].iv = TRUE][c.dirfd].moved \ {c.victim}]
        BY <3>2 DEF RmdiratFails
      <4>2. [dirs EXCEPT ![c.victim].iv = TRUE] \in [Dirs -> DirType]
        BY <2>2, EditTypes
      <4>3. [dirs EXCEPT ![c.victim].iv = TRUE][c.dirfd].moved \ {c.victim} \in SUBSET Dirs
        BY <2>2, <4>2 DEF DirType
      <4> QED
        BY <4>1, <4>2, <4>3
    <3>3. CASE DropTmp(t)
      <4>1. dirs' = [dirs EXCEPT ![c.dirfd].moved = dirs[c.dirfd].moved \ {c.victim}]
        BY <3>3 DEF DropTmp
      <4>2. dirs[c.dirfd].moved \ {c.victim} \in SUBSET Dirs
        BY <1>1, <2>2 DEF DirType
      <4> QED
        BY <1>1, <4>1, <4>2
    <3> QED
      BY <1>13, <3>1, <3>2, <3>3
  <2>4. PICK g \in [Dirs -> DirType], M \in SUBSET Dirs : dirs' = [g EXCEPT ![c.dirfd].moved = M]
    BY <2>3
  <2>5. [g[c.dirfd] EXCEPT !.moved = M] \in DirType
    BY <2>2 DEF DirType
  <2> QED
    BY <2>2, <2>4, <2>5
<1>14. ASSUME pc[t] \in InRename
       PROVE  /\ c.source \in Dirs /\ c.target \in Dirs /\ OldName(t) \in Names /\ NewName(t) \in Names
              /\ PlaceShape(pc[t], c)
  <2>1. pc[t] # "idle"
    BY <1>14 DEF InRename
  <2> QED
    BY <1>14, <2>1, Locals
<1>15. CASE WriteTargetName(t)
  <2>1. pc[t] = "write_target" /\ pc[t] \in InRename
    BY <1>15 DEF WriteTargetName, InRename
  <2>2. NewName(t) \in LongNames
    BY <1>14, <2>1 DEF PlaceShape, NewName, IsLong
  <2>3. dirs' = [dirs EXCEPT ![c.target].names = dirs[c.target].names \cup {NewName(t)}]
    BY <1>15 DEF WriteTargetName
  <2>4. dirs[c.target].names \cup {NewName(t)} \in SUBSET LongNames
    BY <1>5, <1>14, <2>1, <2>2
  <2> QED
    BY <1>14, <2>1, <2>3, <2>4, EditTypes
<1>16. CASE DropTargetName(t) \/ DropSourceName(t)
  <2>1. pc[t] \in InRename
    BY <1>16 DEF DropTargetName, DropSourceName, InRename
  <2>2. PICK d \in Dirs, n \in Names : dirs' = [dirs EXCEPT ![d].names = dirs[d].names \ {n}]
    BY <1>14, <1>16, <2>1 DEF DropTargetName, DropSourceName
  <2>3. PICK N \in SUBSET LongNames : N = dirs[d].names \ {n}
    BY <1>5
  <2> QED
    BY <2>2, <2>3, EditTypes
<1>17. ASSUME NEW from \in {"renameat", "rename_again"}, Renameat(t, from)
       PROVE  dirs' \in [Dirs -> DirType]
  <2>1. pc[t] \in InRename
    BY <1>17 DEF Renameat, InRename
  <2>2. OldEntry(t) \in Kinds
    BY <1>1, <1>14, <2>1 DEF OldEntry
  <2> DEFINE g == Put(c.target, NewName(t), OldEntry(t))
  <2>3. g \in [Dirs -> DirType]
    BY <1>14, <2>1, <2>2, EditTypes
  <2> HIDE DEF g
  <2>4. CASE dirs' = dirs
    BY <1>1, <2>4
  <2>5. CASE dirs' = [g EXCEPT ![c.source].entries[OldName(t)] = None]
    <3>1. [g[c.source].entries EXCEPT ![OldName(t)] = None] \in [Names -> Kinds]
      BY <1>14, <2>1, <2>3 DEF DirType, Kinds
    <3>2. [g[c.source] EXCEPT !.entries = [g[c.source].entries EXCEPT ![OldName(t)] = None]] \in DirType
      BY <1>14, <2>1, <2>3, <3>1 DEF DirType
    <3> QED
      BY <2>3, <2>5, <3>2
  <2> QED
    BY <1>17, <2>4, <2>5 DEF Renameat, g
<1> QED
  BY <1>6, <1>7, <1>8, <1>9, <1>10, <1>11, <1>12, <1>13, <1>15, <1>16, <1>17
     DEF CreateRemove, MkdirRmdir, RenameSteps, Stat, UnlinkFails, WriteLongNameFails, FillName,
         FillNameFails,
         OpenCreateFails, LockDirIV, MkdiratFails, Reopen, OpenVictim, MoveIVFails, Uncache,
         ClearCached,
         WriteTargetNameFails, FillTarget, FillTargetFails, RemoveTarget, RenameatFails

\* Where a failing or finishing call goes, it does not hold dirIVLock.
LEMMA GoesUnlocked ==
    ASSUME ThreadTypes, NEW t \in Threads,
           \/ \E r : Return(t, r)
           \/ Undo(t) \/ Fail(t) \/ GiveUp(t) \/ RmdirReturns(t)
           \/ \E d : Entered(t, d) /\ loc[t].op \in AllOps /\ (loc[t].nested => loc[t].op = "rename")
    PROVE  \E q \in Locations \ Locked : pc' = [pc EXCEPT ![t] = q]
<1> DEFINE Goes == \E q \in Locations \ Locked : pc' = [pc EXCEPT ![t] = q]
<1>1. ASSUME NEW q \in Locations \ Locked, NEW c, GoOn(t, q, c) PROVE Goes
  BY <1>1 DEF GoOn
<1>2. ASSUME NEW r, Return(t, r) PROVE Goes
  <2>1. "idle" \in Locations \ Locked
    BY DEF Locations, Locked, Removing
  <2> QED
    BY <1>2, <2>1 DEF Return
<1>3. {"drop_target", "drop_name", "rename_again", "open_dir", "lookup", "stat", "unlink",
       "open_victim", "write_name", "open_create", "lock", "write_target", "renameat"}
        \subseteq Locations \ Locked
  BY DEF Locations, Locked, Removing
<1> HIDE DEF Goes
<1>4. ASSUME Undo(t) PROVE Goes
  BY <1>1, <1>2, <1>3, <1>4 DEF Undo
<1>5. ASSUME Fail(t) PROVE Goes
  BY <1>2, <1>4, <1>5 DEF Fail
<1>6. ASSUME GiveUp(t) PROVE Goes
  BY <1>1, <1>2, <1>3, <1>6 DEF GiveUp
<1>7. ASSUME RmdirReturns(t) PROVE Goes
  BY <1>1, <1>2, <1>3, <1>7 DEF RmdirReturns
<1>8. ASSUME NEW d, Entered(t, d), loc[t].op \in AllOps, loc[t].nested => loc[t].op = "rename"
      PROVE  Goes
  <2>1. AfterResolve(t) \in Locations \ Locked
    <3>1. CASE loc[t].op = "rename" /\ ~loc[t].nested
      BY <1>3, <1>8, <3>1, AfterResolveIs
    <3>2. CASE Removes(loc[t])
      BY <1>3, <1>8, <3>2, AfterResolveIs
    <3>3. CASE loc[t].op \in {"stat", "remove", "create", "mkdir"}
      BY <1>3, <1>8, <3>3, AfterResolveIs
    <3> QED
      BY <1>8, <3>1, <3>2, <3>3 DEF Removes, AllOps
  <2>2. \E q \in {"open_dir", "lookup", AfterResolve(t)} : \E c : GoOn(t, q, c)
    BY <1>8, Zenon DEF Entered
  <2> QED
    BY <1>1, <1>3, <2>1, <2>2
<1> QED
  BY <1>2, <1>4, <1>5, <1>6, <1>7, <1>8 DEF Goes

LEMMA LockStep ==
    ASSUME TInv, NEW t \in Threads, NEW q \in Locations, pc' = [pc EXCEPT ![t] = q],
           \/ dirIVLock' = dirIVLock /\ (pc[t] \in Locked <=> q \in Locked)
           \/ dirIVLock = None /\ dirIVLock' = t /\ q \in Locked
           \/ pc[t] \in Locked /\ dirIVLock' = None /\ q \notin Locked
    PROVE  LockInv'
<1>1. pc \in [Threads -> Locations] /\ None \notin Threads
  BY ConstantsAre DEF TInv, ThreadTypes
<1>2. ASSUME NEW u \in Threads, u # t PROVE pc'[u] = pc[u]
  BY <1>1, <1>2
<1>3. pc'[t] = q
  BY <1>1
<1> QED
  BY <1>1, <1>2, <1>3 DEF TInv, LockInv

LEMMA ThreadStepLock ==
    ASSUME TInv, NEW t \in Threads,
           Resolve(t) \/ CreateRemove(t) \/ MkdirRmdir(t) \/ RenameSteps(t)
    PROVE  LockInv' /\ dirIVLock' \in Threads \cup {None}
<1>1. pc[t] # "idle"
  BY Zenon DEF Resolve, LookupHit, LookupMiss, OpenDir, ReadDirIV, StoreCache,
         CreateRemove, Stat, Unlink, UnlinkFails, DropRemovedName, WriteLongName, WriteLongNameFails,
         FillName, FillNameFails,
         OpenCreate, OpenCreateFails, DropName,
         MkdirRmdir, LockDirIV, Mkdirat, MkdiratFails, WriteDirIV, WriteDirIVFails, Reopen, OpenVictim,
         MoveIV, MoveIVFails, Rmdirat, RmdiratFails, DropTmp, DropVictimName, Uncache, ClearCached,
         RenameSteps, WriteTargetName, WriteTargetNameFails, FillTarget, FillTargetFails,
         RemoveTarget, Renameat, RenameatFails,
         DropTargetName, DropSourceName
<1>2. loc[t].op \in AllOps /\ (loc[t].nested => loc[t].op = "rename") /\ PlaceShape(pc[t], loc[t])
  BY <1>1, Locals DEF TInv, OpShape
<1>3. dirIVLock \in Threads \cup {None} /\ ThreadTypes
  BY DEF TInv, TypeOK
<1>4. ASSUME NEW q \in Locations \ Locked, pc' = [pc EXCEPT ![t] = q], pc[t] \notin Locked,
             dirIVLock' = dirIVLock
      PROVE  LockInv'
  BY <1>4, LockStep
<1>5. ASSUME NEW q \in Locations \ Locked, pc' = [pc EXCEPT ![t] = q], pc[t] \in Locked,
             dirIVLock' = None
      PROVE  LockInv'
  BY <1>5, LockStep
<1>6. ASSUME NEW q \in Locked, NEW c, GoOn(t, q, c), pc[t] \in Locked, dirIVLock' = dirIVLock
      PROVE  LockInv'
  <2>1. q \in Locations /\ pc' = [pc EXCEPT ![t] = q]
    BY <1>6 DEF GoOn, Locked, Removing, Locations
  <2> QED
    BY <1>6, <2>1, LockStep
<1>7. ASSUME NEW q \in Locations \ Locked, NEW c, GoOn(t, q, c), pc[t] \notin Locked,
             dirIVLock' = dirIVLock
      PROVE  LockInv'
  BY <1>4, <1>7 DEF GoOn
<1>8. {"open_dir", "lookup", "read_iv", "store", "drop_removed", "lock", "open_create", "fill_name",
       "drop_name", "renameat", "fill_target", "drop_target", "drop_source", "reopen"}
        \subseteq Locations \ Locked
  BY DEF Locations, Locked, Removing
<1>9. CASE Resolve(t)
  <2>1. dirIVLock' = dirIVLock /\ pc[t] \notin Locked
    BY <1>9 DEF Resolve, LookupHit, LookupMiss, OpenDir, ReadDirIV, StoreCache, Locked, Removing
  <2>2. CASE LookupHit(t) \/ StoreCache(t)
    <3>1. \E d : Entered(t, d)
      BY <2>2 DEF LookupHit, StoreCache
    <3>2. \E q \in Locations \ Locked : pc' = [pc EXCEPT ![t] = q]
      BY <1>2, <1>3, <3>1, GoesUnlocked
    <3> QED
      BY <1>3, <1>4, <2>1, <3>2
  <2>3. CASE Fail(t)
    BY <1>3, <1>4, <2>1, <2>3, GoesUnlocked
  <2>4. CASE LookupMiss(t)
    BY <1>3, <1>7, <1>8, <2>1, <2>4 DEF LookupMiss
  <2>5. CASE OpenDir(t) /\ ~Fail(t)
    BY <1>3, <1>7, <1>8, <2>1, <2>5 DEF OpenDir
  <2>6. CASE ReadDirIV(t) /\ ~Fail(t)
    BY <1>3, <1>7, <1>8, <2>1, <2>6 DEF ReadDirIV
  <2> QED
    BY <1>9, <2>2, <2>3, <2>4, <2>5, <2>6 DEF Resolve
<1>10. CASE CreateRemove(t)
  <2>1. dirIVLock' = dirIVLock /\ pc[t] \notin Locked
    BY <1>10 DEF CreateRemove, Stat, Unlink, UnlinkFails, DropRemovedName, WriteLongName,
                 WriteLongNameFails, FillName, FillNameFails, OpenCreate, OpenCreateFails, DropName,
                 Locked, Removing
  <2>2. CASE \E r : Return(t, r)
    BY <1>3, <1>4, <2>1, <2>2, GoesUnlocked
  <2>3. CASE GiveUp(t)
    BY <1>3, <1>4, <2>1, <2>3, GoesUnlocked
  <2>4. CASE \E q \in {"drop_removed", "lock", "open_create", "fill_name", "drop_name"} :
                \E c : GoOn(t, q, c)
    BY <1>3, <1>7, <1>8, <2>1, <2>4
  <2>5. \/ \E r : Return(t, r)
        \/ GiveUp(t)
        \/ \E q \in {"drop_removed", "lock", "open_create", "fill_name", "drop_name"} :
                \E c : GoOn(t, q, c)
    BY <1>10 DEF CreateRemove, Stat, Unlink, UnlinkFails, DropRemovedName, WriteLongName,
                 WriteLongNameFails, FillName, FillNameFails, AfterName, OpenCreate, OpenCreateFails,
                 DropName
  <2> QED
    BY <2>2, <2>3, <2>4, <2>5
<1>11. CASE MkdirRmdir(t)
  <2>1. CASE LockDirIV(t)
    <3> DEFINE q == IF loc[t].op = "mkdir" THEN "mkdirat" ELSE "move_iv"
    <3>1. q \in Locations /\ q \in Locked
      BY DEF Locations, Locked, Removing
    <3>2. pc' = [pc EXCEPT ![t] = q] /\ dirIVLock = None /\ dirIVLock' = t
      BY <2>1 DEF LockDirIV, GoOn
    <3> HIDE DEF q
    <3> QED
      BY <3>1, <3>2, LockStep
  <2>2. CASE OpenVictim(t)
    <3>1. dirIVLock' = dirIVLock /\ pc[t] \notin Locked
      BY <2>2 DEF OpenVictim, Locked, Removing
    <3>2. (\E c : GoOn(t, "lock", c)) \/ Fail(t)
      BY <2>2 DEF OpenVictim
    <3>3. CASE Fail(t)
      BY <1>3, <1>4, <3>1, <3>3, GoesUnlocked
    <3> QED
      BY <1>3, <1>7, <1>8, <3>1, <3>2, <3>3
  <2>3. CASE Mkdirat(t) \/ MoveIV(t) \/ Rmdirat(t) \/ DropTmp(t) \/ DropVictimName(t)
    <3>1. dirIVLock' = dirIVLock /\ pc[t] \in Locked
      BY <2>3 DEF Mkdirat, MoveIV, Rmdirat, DropTmp, DropVictimName, Locked, Removing
    <3>2. \E q \in Locked : \E c : GoOn(t, q, c)
      BY <2>3 DEF Mkdirat, MoveIV, Rmdirat, DropTmp, DropVictimName, Locked, Removing
    <3> QED
      BY <1>3, <1>6, <3>1, <3>2
  <2>4. CASE \/ MkdiratFails(t) \/ WriteDirIVFails(t) \/ MoveIVFails(t)
             \/ RmdiratFails(t) \/ ClearCached(t) \/ (Uncache(t) /\ RmdirReturns(t) /\ dirIVLock' = None)
    <3>1. dirIVLock' = None /\ pc[t] \in Locked
      BY <2>4 DEF MkdiratFails, WriteDirIVFails, MoveIVFails, RmdiratFails, Uncache, ClearCached,
                  Locked, Removing
    <3>2. (\E r : Return(t, r)) \/ GiveUp(t) \/ Fail(t) \/ RmdirReturns(t)
      BY <2>4, Zenon DEF MkdiratFails, WriteDirIVFails, MoveIVFails, RmdiratFails, ClearCached
    <3>3. \E q \in Locations \ Locked : pc' = [pc EXCEPT ![t] = q]
      BY <1>3, <3>2, GoesUnlocked
    <3> QED
      BY <1>5, <3>1, <3>3
  <2>5. CASE WriteDirIV(t)
    <3>1. dirIVLock' = None /\ pc[t] \in Locked /\ pc' = [pc EXCEPT ![t] = "reopen"]
      BY <2>5 DEF WriteDirIV, GoOn, Locked
    <3> QED
      BY <1>3, <1>5, <1>8, <3>1
  <2>6. CASE Reopen(t)
    <3>1. dirIVLock' = dirIVLock /\ pc[t] \notin Locked /\ \E r : Return(t, r)
      BY <2>6 DEF Reopen, Locked, Removing
    <3> QED
      BY <1>3, <1>4, <3>1, GoesUnlocked
  <2>7. CASE Uncache(t) /\ UNCHANGED dirIVLock /\ \E c : GoOn(t, "clear", c)
    <3>1. pc[t] \in Locked /\ "clear" \in Locked
      BY <2>7 DEF Uncache, Locked, Removing
    <3> QED
      BY <1>3, <1>6, <2>7, <3>1
  <2>8. Uncache(t) => \/ RmdirReturns(t) /\ dirIVLock' = None
                      \/ UNCHANGED dirIVLock /\ \E c : GoOn(t, "clear", c)
    BY Zenon DEF Uncache
  <2> QED
    BY <1>11, <2>1, <2>2, <2>3, <2>4, <2>5, <2>6, <2>7, <2>8 DEF MkdirRmdir
<1>12. CASE RenameSteps(t)
  <2>1. dirIVLock' = dirIVLock /\ pc[t] \notin Locked
    BY <1>12 DEF RenameSteps, WriteTargetName, WriteTargetNameFails, FillTarget, FillTargetFails,
         RemoveTarget, Renameat,
                 RenameatFails, DropTargetName, DropSourceName, Locked, Removing
  <2>2. CASE \E r : Return(t, r)
    BY <1>3, <1>4, <2>1, <2>2, GoesUnlocked
  <2>3. CASE Undo(t)
    BY <1>3, <1>4, <2>1, <2>3, GoesUnlocked
  <2>4. CASE \E q \in {"renameat", "lookup", "drop_source", "fill_target", "drop_target"} :
                \E c : GoOn(t, q, c)
    BY <1>3, <1>7, <1>8, <2>1, <2>4
  <2>5. \/ \E r : Return(t, r)
        \/ Undo(t)
        \/ \E q \in {"renameat", "lookup", "drop_source", "fill_target", "drop_target"} :
                \E c : GoOn(t, q, c)
    BY <1>12, Zenon DEF RenameSteps, WriteTargetName, WriteTargetNameFails, FillTarget,
         FillTargetFails, RemoveTarget, Renameat,
                 RenameatFails, DropTargetName, DropSourceName
  <2> QED
    BY <2>2, <2>3, <2>4, <2>5
<1> QED
  BY <1>9, <1>10, <1>11, <1>12

LEMMA ThreadStepRest ==
    ASSUME TypeOK, ThreadTypes, NEW t \in Threads,
           Resolve(t) \/ CreateRemove(t) \/ MkdirRmdir(t) \/ RenameSteps(t)
    PROVE  /\ cache' \in [Slots -> [path : Prefixes, dir : Dirs \cup {None}]]
           /\ nextIndex' \in Slots /\ renamed' \in BOOLEAN /\ kills' = kills
<1>1. /\ cache \in [Slots -> [path : Prefixes, dir : Dirs \cup {None}]]
      /\ nextIndex \in Slots /\ renamed \in BOOLEAN
  BY DEF TypeOK
<1>2. NoEntry \in [path : Prefixes, dir : Dirs \cup {None}]
  BY PrefixesAre DEF NoEntry
<1>3. kills' = kills
  BY Zenon DEF Resolve, LookupHit, LookupMiss, OpenDir, ReadDirIV, StoreCache,
         CreateRemove, Stat, Unlink, UnlinkFails, DropRemovedName, WriteLongName, WriteLongNameFails,
         FillName, FillNameFails,
         OpenCreate, OpenCreateFails, DropName,
         MkdirRmdir, LockDirIV, Mkdirat, MkdiratFails, WriteDirIV, WriteDirIVFails, Reopen, OpenVictim,
         MoveIV, MoveIVFails, Rmdirat, RmdiratFails, DropTmp, DropVictimName, Uncache, ClearCached,
         RenameSteps, WriteTargetName, WriteTargetNameFails, FillTarget, FillTargetFails,
         RemoveTarget, Renameat, RenameatFails,
         DropTargetName, DropSourceName
<1>4. renamed' \in BOOLEAN
  <2>1. CASE renamed' = renamed
    BY <1>1, <2>1
  <2>2. CASE \E from \in {"renameat", "rename_again"} : Renameat(t, from)
    BY <1>1, <2>2 DEF Renameat
  <2> QED
    BY <2>1, <2>2, Zenon DEF Resolve, LookupHit, LookupMiss, OpenDir, ReadDirIV, StoreCache,
         CreateRemove, Stat, Unlink, UnlinkFails, DropRemovedName, WriteLongName, WriteLongNameFails,
         FillName, FillNameFails,
         OpenCreate, OpenCreateFails, DropName,
         MkdirRmdir, LockDirIV, Mkdirat, MkdiratFails, WriteDirIV, WriteDirIVFails, Reopen, OpenVictim,
         MoveIV, MoveIVFails, Rmdirat, RmdiratFails, DropTmp, DropVictimName, Uncache, ClearCached,
         RenameSteps, WriteTargetName, WriteTargetNameFails, FillTarget, FillTargetFails,
         RemoveTarget, RenameatFails,
         DropTargetName, DropSourceName
<1>5. CASE UNCHANGED cacheVars
  BY <1>1, <1>3, <1>4, <1>5 DEF cacheVars
<1>6. CASE StoreCache(t)
  <2>1. loc[t].at \in Prefixes /\ loc[t].dirfd \in Dirs
    <3>1. pc[t] = "store" /\ pc[t] # "idle"
      BY <1>6 DEF StoreCache
    <3> QED
      BY <3>1, Locals DEF Resolving
  <2>2. (nextIndex + 1) % CacheSize \in Slots
    <3>1. nextIndex \in Nat /\ CacheSize \in Nat \ {0}
      BY <1>1, ConstantsAre DEF Slots
    <3> QED
      BY <3>1 DEF Slots
  <2> QED
    BY <1>1, <1>3, <1>4, <1>6, <2>1, <2>2 DEF StoreCache
<1>7. CASE Uncache(t)
  BY <1>1, <1>3, <1>4, <1>7 DEF Uncache
<1>8. CASE ClearCached(t)
  BY <1>1, <1>2, <1>3, <1>4, <1>8 DEF ClearCached
<1> QED
  BY <1>5, <1>6, <1>7, <1>8, Zenon
     DEF Resolve, LookupHit, LookupMiss, OpenDir, ReadDirIV,
         CreateRemove, Stat, Unlink, UnlinkFails, DropRemovedName, WriteLongName, WriteLongNameFails,
         FillName, FillNameFails,
         OpenCreate, OpenCreateFails, DropName,
         MkdirRmdir, LockDirIV, Mkdirat, MkdiratFails, WriteDirIV, WriteDirIVFails, Reopen, OpenVictim,
         MoveIV, MoveIVFails, Rmdirat, RmdiratFails, DropTmp, DropVictimName,
         RenameSteps, WriteTargetName, WriteTargetNameFails, FillTarget, FillTargetFails,
         RemoveTarget, Renameat, RenameatFails,
         DropTargetName, DropSourceName

\* The entry that dirCache.Delete clears, the data race, and the .name files left empty.
DeleteTypes ==
    clearing \in Slots \cup {None} /\ raced \in BOOLEAN /\ torn \subseteq Dirs \X LongNames

LEMMA ThreadStepDelete ==
    ASSUME TypeOK, NEW t \in Threads, Steps(t)
    PROVE  DeleteTypes'
<1>1. DeleteTypes
  BY DEF TypeOK, DeleteTypes
<1>2. raced' = raced
  BY Zenon DEF cacheVars, Steps, Resolve, LookupHit, LookupMiss, OpenDir, ReadDirIV, StoreCache,
         CreateRemove, Stat, Unlink, UnlinkFails, DropRemovedName, WriteLongName, WriteLongNameFails,
         FillName, FillNameFails, OpenCreate, OpenCreateFails, DropName,
         MkdirRmdir, LockDirIV, Mkdirat, MkdiratFails, WriteDirIV, WriteDirIVFails, Reopen, OpenVictim,
         MoveIV, MoveIVFails, Rmdirat, RmdiratFails, DropTmp, DropVictimName, Uncache, ClearCached,
         RenameSteps, WriteTargetName, WriteTargetNameFails, FillTarget, FillTargetFails, RemoveTarget,
         Renameat, RenameatFails, DropTargetName, DropSourceName
<1>3. clearing' \in Slots \cup {None}
  <2>1. CASE Uncache(t)
    BY <1>1, <2>1, HitIs DEF Uncache, DeleteTypes
  <2>2. CASE ClearCached(t)
    BY <2>2 DEF ClearCached
  <2>3. CASE clearing' = clearing
    BY <1>1, <2>3 DEF DeleteTypes
  <2> QED
    BY <2>1, <2>2, <2>3, Zenon DEF cacheVars, Steps, Resolve, LookupHit, LookupMiss, OpenDir,
         ReadDirIV, StoreCache,
         CreateRemove, Stat, Unlink, UnlinkFails, DropRemovedName, WriteLongName, WriteLongNameFails,
         FillName, FillNameFails, OpenCreate, OpenCreateFails, DropName,
         MkdirRmdir, LockDirIV, Mkdirat, MkdiratFails, WriteDirIV, WriteDirIVFails, Reopen, OpenVictim,
         MoveIV, MoveIVFails, Rmdirat, RmdiratFails, DropTmp, DropVictimName, 
         RenameSteps, WriteTargetName, WriteTargetNameFails, FillTarget, FillTargetFails, RemoveTarget,
         Renameat, RenameatFails, DropTargetName, DropSourceName
<1>4. torn' = torn \/ \E d, n : NameGone(d, n)
  BY Zenon DEF cacheVars, Steps, Resolve, LookupHit, LookupMiss, OpenDir, ReadDirIV, StoreCache,
         CreateRemove, Stat, Unlink, UnlinkFails, DropRemovedName, WriteLongName, WriteLongNameFails,
         FillName, FillNameFails, OpenCreate, OpenCreateFails, DropName,
         MkdirRmdir, LockDirIV, Mkdirat, MkdiratFails, WriteDirIV, WriteDirIVFails, Reopen, OpenVictim,
         MoveIV, MoveIVFails, Rmdirat, RmdiratFails, DropTmp, DropVictimName, Uncache, ClearCached,
         RenameSteps, WriteTargetName, WriteTargetNameFails, FillTarget, FillTargetFails, RemoveTarget,
         Renameat, RenameatFails, DropTargetName, DropSourceName
<1> QED
  BY <1>1, <1>2, <1>3, <1>4 DEF DeleteTypes, NameGone

LEMMA PopulatedDirsIs ==
    /\ PopulatedDirs \in [Populated -> Dirs \ {Root}]
    /\ \A m, n \in Populated : m # n => PopulatedDirs[m] # PopulatedDirs[n]
<1>1. PICK k \in Nat : k = Cardinality(Populated) /\ ExistsBijection(1..k, Populated) /\ k < NumDirs
  BY DirTreeAssumption, FS_CardinalityType
<1>2. PICK f : f \in Bijection(1..k, Populated)
  BY <1>1 DEF ExistsBijection
<1>3. /\ f \in [1..k -> Populated]
      /\ \A n \in Populated : \E i \in 1..k : f[i] = n
  BY <1>2 DEF Bijection, Injection, Surjection
<1> DEFINE g == [n \in Populated |-> 1 + CHOOSE i \in 1..k : f[i] = n]
<1>4. ASSUME NEW n \in Populated PROVE g[n] \in Dirs \ {Root} /\ f[g[n] - 1] = n
  <2>1. PICK i \in 1..k : i = (CHOOSE j \in 1..k : f[j] = n) /\ f[i] = n
    BY <1>3
  <2>2. g[n] = 1 + i
    BY <2>1
  <2>3. 1 + i \in Dirs \ {Root} /\ (1 + i) - 1 = i
    BY <1>1, <2>1, ConstantsAre DEF Dirs, Root
  <2> QED
    BY <2>1, <2>2, <2>3
<1>5. g \in [Populated -> Dirs \ {Root}]
  BY <1>4
<1>6. \A m, n \in Populated : m # n => g[m] # g[n]
  BY <1>4
<1> HIDE DEF g
<1>7. \E h \in [Populated -> Dirs \ {Root}] : \A m, n \in Populated : m # n => h[m] # h[n]
  BY <1>5, <1>6
<1> QED
  BY <1>7, Zenon DEF PopulatedDirs

LEMMA InitDirs ==
    ASSUME Init
    PROVE  /\ dirs \in [Dirs -> DirType]
           /\ \A d \in Dirs : dirs[d].names = {} /\ dirs[d].moved = {}
           /\ \A d \in Dirs : dirs[d].iv <=> d = Root \/ \E n \in Populated : PopulatedDirs[n] = d
           /\ \A d \in Dirs, n \in Names :
                dirs[d].entries[n] = IF d = Root /\ n \in Populated THEN PopulatedDirs[n] ELSE None
<1> DEFINE iv(d) == d = Root \/ \E n \in Populated : PopulatedDirs[n] = d
           entries(d) == [n \in Names |->
                            IF d = Root /\ n \in Populated THEN PopulatedDirs[n] ELSE None]
<1>1. dirs = [d \in Dirs |-> [NoDir EXCEPT !.iv = iv(d), !.entries = entries(d)]]
  BY DEF Init
<1>2. ASSUME NEW d \in Dirs
      PROVE  /\ dirs[d] = [NoDir EXCEPT !.iv = iv(d), !.entries = entries(d)]
             /\ entries(d) \in [Names -> Kinds]
             /\ iv(d) \in BOOLEAN
  <2>1. dirs[d] = [NoDir EXCEPT !.iv = iv(d), !.entries = entries(d)]
    BY <1>1
  <2>2. \A n \in Populated : PopulatedDirs[n] \in Kinds
    BY PopulatedDirsIs DEF Kinds
  <2>3. entries(d) \in [Names -> Kinds]
    BY <2>2 DEF Kinds
  <2> QED
    BY <2>1, <2>3
<1> HIDE DEF iv, entries
<1>3. NoDir \in DirType
  BY DEF NoDir, DirType, Kinds
<1>4. ASSUME NEW d \in Dirs
      PROVE  /\ dirs[d] \in DirType /\ dirs[d].names = {} /\ dirs[d].moved = {}
             /\ dirs[d].iv <=> iv(d)
             /\ dirs[d].entries = entries(d)
  <2>1. dirs[d] = [iv |-> iv(d), entries |-> entries(d), names |-> {}, moved |-> {}]
    BY <1>2 DEF NoDir
  <2>2. PICK b \in BOOLEAN : b <=> iv(d)
    BY <1>2
  <2>3. b = iv(d)
    BY <1>2, <2>2
  <2>4. dirs[d] = [iv |-> b, entries |-> entries(d), names |-> {}, moved |-> {}]
    BY <2>1, <2>3, Zenon
  <2>5. PICK e \in [Names -> Kinds] : e = entries(d)
    BY <1>2
  <2>6. dirs[d] = [iv |-> b, entries |-> e, names |-> {}, moved |-> {}]
    BY <2>4, <2>5
  <2>7. dirs[d] \in DirType /\ dirs[d].names = {} /\ dirs[d].moved = {}
        /\ dirs[d].iv = b /\ dirs[d].entries = e
    BY <2>6 DEF DirType
  <2> QED
    BY <2>2, <2>5, <2>7, Zenon
<1>5. dirs \in [Dirs -> DirType]
  <2>1. dirs = [d \in Dirs |-> dirs[d]]
    BY <1>1
  <2> QED
    BY <1>4, <2>1
<1>6. \A d \in Dirs : dirs[d].iv <=> d = Root \/ \E n \in Populated : PopulatedDirs[n] = d
  BY <1>4 DEF iv
<1>7. \A d \in Dirs, n \in Names :
        dirs[d].entries[n] = IF d = Root /\ n \in Populated THEN PopulatedDirs[n] ELSE None
  BY <1>4 DEF entries
<1> QED
  BY <1>4, <1>5, <1>6, <1>7

LEMMA TypesInit == ASSUME Init PROVE TInv
<1>1. /\ ThreadTypes /\ LockInv
  <2>1. /\ pc = [t \in Threads |-> "idle"] /\ loc = [t \in Threads |-> Idle]
        /\ answer = [t \in Threads |-> FALSE] /\ calls = 0 /\ dirIVLock = None
    BY DEF Init
  <2>2. "idle" \in Locations \ Locked /\ Idle \in Local /\ 0 \in 0..MaxCalls
    BY IdleIsLocal, ConstantsAre DEF Locations, Locked, Removing
  <2> QED
    BY <2>1, <2>2, ConstantsAre DEF ThreadTypes, Shape, LockInv
<1>2. cache \in [Slots -> [path : Prefixes, dir : Dirs \cup {None}]]
  BY PrefixesAre DEF Init, NoEntry
<1>3. /\ nextIndex \in Slots /\ dirIVLock \in Threads \cup {None} /\ renamed \in BOOLEAN
      /\ kills \in 0..MaxKills
  <2>1. nextIndex = 0 /\ dirIVLock = None /\ renamed = FALSE /\ kills = 0
    BY DEF Init
  <2>2. 0 \in Slots /\ 0 \in 0..MaxKills
    BY ConstantsAre
  <2>3. renamed \in BOOLEAN
    BY <2>1, Zenon
  <2> QED
    BY <2>1, <2>2, <2>3, Zenon
<1>4. DeleteTypes
  BY DEF Init, DeleteTypes
<1> QED
  BY <1>1, <1>2, <1>3, <1>4, InitDirs DEF TInv, TypeOK, ThreadTypes, DirType, DeleteTypes

LEMMA TypesAre ==
    ASSUME TInv, ThreadTypes', LockInv', DeleteTypes', dirs' \in [Dirs -> DirType],
           cache' \in [Slots -> [path : Prefixes, dir : Dirs \cup {None}]],
           nextIndex' \in Slots, dirIVLock' \in Threads \cup {None}, renamed' \in BOOLEAN,
           kills' \in 0..MaxKills
    PROVE  TInv'
BY DEF TInv, TypeOK, ThreadTypes, DeleteTypes, DirType

LEMMA StepTypes == ASSUME TInv, NEW t \in Threads, Steps(t) PROVE TInv'
<1>1. TypeOK /\ ThreadTypes /\ LockInv /\ dirs \in [Dirs -> DirType] /\ kills \in 0..MaxKills
  BY DEF TInv, TypeOK, DirType
<1>2. ThreadTypes'
  BY <1>1, ResolveTypes, CreateRemoveTypes, MkdirRmdirTypes, RenameTypes DEF Steps
<1>3. LockInv' /\ dirIVLock' \in Threads \cup {None}
  BY ThreadStepLock DEF Steps
<1>4. dirs' \in [Dirs -> DirType]
  <2>1. CASE Resolve(t)
    BY <1>1, <2>1 DEF Resolve, LookupHit, LookupMiss, OpenDir, ReadDirIV, StoreCache
  <2> QED
    BY <1>1, <2>1, ThreadStepDirs DEF Steps
<1>5. /\ cache' \in [Slots -> [path : Prefixes, dir : Dirs \cup {None}]]
      /\ nextIndex' \in Slots /\ renamed' \in BOOLEAN /\ kills' = kills
  BY <1>1, ThreadStepRest DEF Steps
<1>6. DeleteTypes'
  BY <1>1, ThreadStepDelete
<1> QED
  BY <1>1, <1>2, <1>3, <1>4, <1>5, <1>6, TypesAre

LEMMA TypesStep == ASSUME TInv, [Next]_vars PROVE TInv'
<1>1. TypeOK /\ ThreadTypes /\ LockInv /\ dirs \in [Dirs -> DirType]
  BY DEF TInv, TypeOK, DirType
<1>2. DeleteTypes
  BY <1>1 DEF TypeOK, DeleteTypes
<1>3. /\ cache \in [Slots -> [path : Prefixes, dir : Dirs \cup {None}]]
      /\ nextIndex \in Slots /\ dirIVLock \in Threads \cup {None} /\ renamed \in BOOLEAN
      /\ kills \in 0..MaxKills
  BY <1>1 DEF TypeOK
<1>4. NoEntry \in [path : Prefixes, dir : Dirs \cup {None}]
  BY PrefixesAre DEF NoEntry
<1>5. CASE UNCHANGED vars
  BY <1>1, <1>5 DEF vars, threadVars, cacheVars, TInv, TypeOK, ThreadTypes, LockInv
<1>6. ASSUME NEW t \in Threads, NEW op \in AllOps, NEW p \in Paths, NEW q \in Paths \cup {None},
             op = "rename" => q \in Paths, op # "rename" => q = None, Begin(t, op, p, q)
      PROVE  TInv'
  <2>1. ThreadTypes'
    BY <1>1, <1>6, BeginTypes
  <2>2. LockInv'
    <3>1. pc[t] = "idle" /\ pc' = [pc EXCEPT ![t] = "lookup"] /\ dirIVLock' = dirIVLock
      BY <1>6 DEF Begin
    <3>2. "lookup" \in Locations /\ "lookup" \notin Locked /\ "idle" \notin Locked
      BY DEF Locations, Locked, Removing
    <3> QED
      BY <3>1, <3>2, LockStep
  <2>3. UNCHANGED <<dirs, torn, cacheVars, dirIVLock, renamed, kills>>
    BY <1>6 DEF Begin
  <2>4. DeleteTypes'
    BY <1>2, <2>3 DEF DeleteTypes, cacheVars
  <2> QED
    BY <1>1, <1>3, <2>1, <2>2, <2>3, <2>4, TypesAre DEF cacheVars
<1>7. ASSUME NEW t \in Threads, Call(t) PROVE TInv'
  BY <1>6, <1>7 DEF Call
<1>8. ASSUME NEW t \in Threads, Rename(t) PROVE TInv'
  <2>1. "rename" \in AllOps
    BY DEF AllOps
  <2> QED
    BY <1>6, <1>8, <2>1 DEF Rename
<1>9. ASSUME NEW t \in Threads, Race(t) PROVE TInv'
  <2>1. UNCHANGED <<threadVars, dirs, torn, cache, nextIndex, clearing, dirIVLock, renamed, kills>>
        /\ raced' = TRUE
    BY <1>9 DEF Race
  <2>2. ThreadTypes' /\ LockInv'
    BY <1>1, <2>1 DEF threadVars, ThreadTypes, LockInv
  <2>3. DeleteTypes'
    BY <1>2, <2>1 DEF DeleteTypes
  <2> QED
    BY <1>1, <1>3, <2>1, <2>2, <2>3, TypesAre
<1>10. CASE Expire
  <2>1. /\ UNCHANGED <<threadVars, dirs, torn, nextIndex, clearing, raced, dirIVLock, kills>>
        /\ cache' = [i \in Slots |-> NoEntry] /\ renamed' = FALSE
    BY <1>10 DEF Expire
  <2>2. ThreadTypes' /\ LockInv'
    BY <1>1, <2>1 DEF threadVars, ThreadTypes, LockInv
  <2>3. DeleteTypes'
    BY <1>2, <2>1 DEF DeleteTypes
  <2> QED
    BY <1>1, <1>3, <1>4, <2>1, <2>2, <2>3, TypesAre
<1>11. CASE Die
  <2>1. /\ kills' = kills + 1 /\ kills < MaxKills /\ UNCHANGED <<answer, calls, dirs, raced>>
        /\ pc' = [t \in Threads |-> "idle"] /\ loc' = [t \in Threads |-> Idle]
        /\ cache' = [i \in Slots |-> NoEntry] /\ nextIndex' = 0 /\ dirIVLock' = None
        /\ renamed' = FALSE /\ clearing' = None
        /\ torn' = torn \cup {f \in Dirs \X LongNames : \E t \in Threads : Fills(t, f[1], f[2])}
    BY <1>11 DEF Die
  <2>2. "idle" \in Locations \ Locked /\ Idle \in Local
    BY IdleIsLocal DEF Locations, Locked, Removing
  <2>3. ThreadTypes' /\ LockInv'
    BY <1>1, <2>1, <2>2, ConstantsAre DEF ThreadTypes, LockInv, Shape
  <2>4. kills' \in 0..MaxKills /\ nextIndex' \in Slots
    BY <1>3, <2>1, ConstantsAre
  <2>5. DeleteTypes'
    BY <1>2, <2>1 DEF DeleteTypes
  <2> QED
    BY <1>1, <1>4, <2>1, <2>3, <2>4, <2>5, TypesAre
<1> QED
  BY <1>5, <1>7, <1>8, <1>9, <1>10, <1>11, StepTypes DEF Next

\* Whatever the client calls, whatever fails and whenever the process is killed, the variables keep
\* their types: the round robin of the cache stays in its array, and what a call has not opened yet
\* it does not use.
THEOREM Types == Spec => []TypeOK
<1>1. TInv => TypeOK
  BY DEF TInv
<1> QED
  BY TypesInit, TypesStep, <1>1, PTL DEF Spec
-----------------------------------------------------------------------------
(* The disciplined client                                                  *)

\* No two calls have a path in common.
PathsDiffer ==
    /\ \A t \in Threads : loc[t].op = "rename" => loc[t].path # loc[t].to
    /\ \A t, u \in Threads : t # u => PathsOf(t) \cap PathsOf(u) = {}

\* A directory is renamed while nothing else goes on, and afterwards nothing begins.
RenamedAlone == renamed => \A t \in Threads : pc[t] \in {"idle", "drop_source"}

\* Nothing comes into a directory that was removed.
UnlinkedEmpty == \A d \in Dirs : ~Linked(d) => dirs[d] = NoDir

\* where gives each directory its path: the tree, ...
TreeAt(where) ==
    /\ where[Root] = << >>
    /\ \A d, e \in Dirs, n \in Names :
        dirs[d].entries[n] = e => where[e] = Append(where[d], n)

\* ... the cache ...
CacheAt(where) ==
    ~renamed => \A i \in Slots : cache[i].dir # None => where[cache[i].dir] = cache[i].path

\* ... and the calls agree with it.
HeldAt(where, t) ==
    /\ pc[t] \in Resolving \cup AtParent => where[loc[t].dirfd] = loc[t].at
    /\ loc[t].source # None => where[loc[t].source] = Parent(loc[t].path)
    /\ loc[t].target # None => where[loc[t].target] = Parent(loc[t].to)

\* At p there is no directory, nor will the one above it give one.
NoDirAt(where, p) ==
    \A d \in Dirs : where[d] = Parent(p) => dirs[d].entries[Basename(p)] \notin Dirs

\* gcf_rename moves a directory alone, and none to where one with a long name is.
RenameAt(where, t) ==
    loc[t].op = "rename" /\ pc[t] # "drop_source" =>
        /\ NoDirAt(where, loc[t].path) \/ Busy = {t}
        /\ IsLong(loc[t].to) => NoDirAt(where, loc[t].to) /\ ~loc[t].nested

\* What a thread in gcf_mkdir, gcf_open_write_mode, gcf_remove_file or gcf_rmdir knows of the entry
\* it works on.
MakeInv(t) ==
    /\ pc[t] \in {"fill_name", "open_create", "lock", "mkdirat", "write_iv"} /\ ~Removes(loc[t])
            /\ IsLong(loc[t].path)
        => Name(t) \in dirs[loc[t].dirfd].names
    /\ pc[t] \in {"fill_name", "open_create", "lock", "mkdirat"} /\ ~Removes(loc[t]) /\ IsLong(loc[t].path)
        => Entry(t) = None
    /\ pc[t] \in {"drop_name", "drop_removed", "drop_tmp", "drop_victim"} => Entry(t) = None
    /\ pc[t] = "write_iv" => Entry(t) = loc[t].victim
    /\ pc[t] \in {"lock", "move_iv", "rmdirat"} /\ Removes(loc[t]) => Entry(t) = loc[t].victim

\* The same for gcf_rename.
MoveInv(t) ==
    /\ pc[t] \in {"fill_target", "renameat"} /\ IsLong(loc[t].to) => NewName(t) \in dirs[loc[t].target].names
    /\ pc[t] \in {"fill_target", "renameat", "drop_target"} /\ IsLong(loc[t].to) /\ ~loc[t].had
        => NewEntry(t) = None
    /\ pc[t] \in {"fill_target", "drop_target"} => ~loc[t].had
    /\ pc[t] = "drop_source" => OldEntry(t) = None

\* Nobody gets into a directory that mkdir has made and not yet given its IV.
FreshInv(t) ==
    pc[t] = "write_iv" =>
        /\ dirs[loc[t].victim] = NoDir
        /\ \A i \in Slots : cache[i].dir # loc[t].victim
        /\ \A u \in Threads :
            /\ loc[t].victim \notin {loc[u].source, loc[u].target}
            /\ loc[u].dirfd = loc[t].victim => pc[u] = "read_iv"

\* Until the process is killed: a directory without IV is one that mkdir or rmdir has at work, ...
IVInv ==
    kills = 0 => \A d \in Dirs : Linked(d) /\ ~dirs[d].iv =>
        \E t \in Threads : pc[t] \in {"write_iv", "rmdirat"} /\ loc[t].victim = d

\* ... and a moved IV or a .name file without content is still to be removed or used.
OwesName(t, d, n) ==
    \/ /\ pc[t] \in {"fill_name", "open_create", "lock", "mkdirat", "drop_name", "drop_removed",
                     "drop_tmp", "drop_victim"}
       /\ pc[t] = "lock" => ~Removes(loc[t])
       /\ loc[t].dirfd = d /\ Name(t) = n
    \/ /\ pc[t] \in {"fill_target", "renameat", "drop_target"}
       /\ loc[t].target = d /\ NewName(t) = n /\ ~loc[t].had
    \/ pc[t] = "drop_source" /\ loc[t].source = d /\ OldName(t) = n

OwesIV(t, d, v) == pc[t] \in {"rmdirat", "drop_tmp"} /\ loc[t].dirfd = d /\ loc[t].victim = v

OwedInv ==
    kills = 0 => \A d \in Dirs :
        /\ \A v \in dirs[d].moved : \E t \in Threads : OwesIV(t, d, v)
        /\ \A n \in dirs[d].names :
            dirs[d].entries[n] # None \/ \E t \in Threads : OwesName(t, d, n)

\* Content with a long name has its .name file.
HasName ==
    \A d \in Dirs, n \in LongNames : dirs[d].entries[n] # None => n \in dirs[d].names

ThreadInv(where, t) ==
    HeldAt(where, t) /\ RenameAt(where, t) /\ MakeInv(t) /\ MoveInv(t) /\ FreshInv(t)

TreeInv(where) == TreeAt(where) /\ CacheAt(where) /\ UnlinkedEmpty /\ HasName

DInv(where) ==
    /\ PathsDiffer /\ RenamedAlone
    /\ TreeInv(where)
    /\ \A t \in Threads : ThreadInv(where, t)
    /\ IVInv /\ OwedInv

Places == [Dirs -> Seq(Names)]

IInv == TInv /\ \E where \in Places : DInv(where)

-----------------------------------------------------------------------------
(* The tree                                                                *)

\* An entry of a directory has a path of its own.
LEMMA OnePathEach ==
    ASSUME NEW s \in Seq(Names), NEW r \in Seq(Names), NEW n \in Names, NEW m \in Names,
           Append(s, n) = Append(r, m)
    PROVE  s = r /\ n = m
<1>1. Parent(Append(s, n)) = s /\ Basename(Append(s, n)) = n
  BY AppendIs
<1>2. Parent(Append(r, m)) = r /\ Basename(Append(r, m)) = m
  BY AppendIs
<1> QED
  BY <1>1, <1>2

\* What is linked is the root or an entry of a linked directory.
LEMMA LinkedIs ==
    ASSUME TypeOK, UnlinkedEmpty, NEW d \in Dirs, NEW n \in Names, dirs[d].entries[n] # None
    PROVE  Linked(d)
<1>1. NoDir.entries[n] = None
  BY DEF NoDir
<1> QED
  BY <1>1 DEF UnlinkedEmpty

LEMMA RootIsNoEntry ==
    ASSUME NEW where \in Places, TreeAt(where), NEW d \in Dirs, NEW n \in Names
    PROVE  dirs[d].entries[n] # Root
<1>1. where[d] \in Seq(Names)
  BY DEF Places
<1>2. Append(where[d], n) # << >>
  BY <1>1, AppendIs
<1> QED
  BY <1>2, ConstantsAre DEF TreeAt

\* Of some directories there is one whose path is as short as any.
LEMMA HighestIn ==
    ASSUME NEW where \in Places, NEW S \in SUBSET Dirs, S # {}
    PROVE  \E d \in S : \A e \in S : Len(where[d]) <= Len(where[e])
<1>1. \A d \in S : Len(where[d]) \in Nat
  BY DEF Places
<1>2. {Len(where[d]) : d \in S} \in SUBSET Nat /\ {Len(where[d]) : d \in S} # {}
  BY <1>1
<1>3. PICK n \in {Len(where[d]) : d \in S} :
        \A m \in {Len(where[d]) : d \in S} : ~ (<<m, n>> \in OpToRel(<, Nat))
  BY <1>2, WFMin, NatLessThanWellFounded, Zenon
<1>4. PICK d \in S : n = Len(where[d])
  BY <1>3
<1>5. ASSUME NEW e \in S PROVE ~(Len(where[e]) < Len(where[d]))
  <2>1. Len(where[e]) \in Nat /\ Len(where[d]) \in Nat
    BY <1>1
  <2>2. ~ (<<Len(where[e]), Len(where[d])>> \in OpToRel(<, Nat))
    BY <1>3, <1>4
  <2> QED
    BY <2>1, <2>2, Zenon DEF OpToRel
<1>6. ASSUME NEW e \in S PROVE Len(where[d]) <= Len(where[e])
  <2>1. PICK j \in Nat, k \in Nat : j = Len(where[d]) /\ k = Len(where[e])
    BY <1>1
  <2>2. ~(k < j)
    BY <2>1, <1>5
  <2> QED
    BY <2>1, <2>2
<1> QED
  BY <1>6

\* No two directories of the tree are at one path: else there are two at a shortest such path, which
\* are entries of the same name in one directory.
LEMMA OneAtAPath ==
    ASSUME TypeOK, UnlinkedEmpty, NEW where \in Places, TreeAt(where),
           NEW d \in Dirs, NEW e \in Dirs, Linked(d), Linked(e), where[d] = where[e]
    PROVE  d = e
<1> SUFFICES ASSUME d # e PROVE FALSE
  OBVIOUS
<1>1. PICK S \in SUBSET Dirs :
        S = {x \in Dirs : Linked(x) /\ \E y \in Dirs : Linked(y) /\ y # x /\ where[y] = where[x]}
  OBVIOUS
<1>2. d \in S
  BY <1>1
<1>3. PICK x \in S : \A z \in S : Len(where[x]) <= Len(where[z])
  BY <1>2, HighestIn
<1>4. PICK y \in Dirs : Linked(x) /\ Linked(y) /\ y # x /\ where[y] = where[x]
  BY <1>1, <1>3
<1>5. ASSUME NEW z \in Dirs, Linked(z), where[z] # << >>
      PROVE  \E f \in Dirs, n \in Names : dirs[f].entries[n] = z /\ Linked(f)
  <2>1. z # Root
    BY <1>5 DEF TreeAt
  <2>2. PICK f \in Dirs, n \in Names : dirs[f].entries[n] = z
    BY <1>5, <2>1 DEF Linked
  <2> QED
    BY <2>2, LinkedIs, ConstantsAre
<1>6. ASSUME NEW z \in Dirs, Linked(z), where[z] = << >> PROVE z = Root
  <2> SUFFICES ASSUME z # Root PROVE FALSE
    OBVIOUS
  <2>1. PICK f \in Dirs, n \in Names : dirs[f].entries[n] = z
    BY <1>6 DEF Linked
  <2>2. where[z] = Append(where[f], n) /\ where[f] \in Seq(Names)
    BY <2>1 DEF TreeAt, Places
  <2> QED
    BY <1>6, <2>2, AppendIs
<1>7. where[x] # << >>
  BY <1>4, <1>6
<1>8. PICK f \in Dirs, n \in Names : dirs[f].entries[n] = x /\ Linked(f)
  BY <1>4, <1>5, <1>7
<1>9. PICK g \in Dirs, m \in Names : dirs[g].entries[m] = y /\ Linked(g)
  BY <1>4, <1>5, <1>7
<1>10. /\ where[x] = Append(where[f], n) /\ where[f] \in Seq(Names)
       /\ where[y] = Append(where[g], m) /\ where[g] \in Seq(Names)
  BY <1>8, <1>9 DEF TreeAt, Places
<1>11. where[f] = where[g] /\ n = m /\ Len(where[f]) < Len(where[x])
  <2>1. Append(where[f], n) = Append(where[g], m)
    BY <1>4, <1>10
  <2>2. where[f] \in Seq(Names) /\ where[g] \in Seq(Names)
    BY <1>10
  <2>3. where[f] = where[g] /\ n = m
    BY <2>1, <2>2, OnePathEach
  <2>4. Len(where[f]) \in Nat /\ Len(where[x]) = Len(where[f]) + 1
    BY <1>10, AppendIs
  <2> QED
    BY <2>3, <2>4
<1>12. f # g
  BY <1>4, <1>8, <1>9, <1>11
<1>13. f \in S
  BY <1>1, <1>8, <1>9, <1>11, <1>12
<1>14. Len(where[x]) <= Len(where[f]) /\ Len(where[x]) \in Nat /\ Len(where[f]) \in Nat
  BY <1>3, <1>13 DEF Places
<1> QED
  BY <1>11, <1>14

LEMMA OneLink ==
    ASSUME TypeOK, UnlinkedEmpty, NEW where \in Places, TreeAt(where),
           NEW d \in Dirs, NEW e \in Dirs, NEW n \in Names, NEW m \in Names,
           dirs[d].entries[n] \in Dirs, dirs[d].entries[n] = dirs[e].entries[m]
    PROVE  d = e /\ n = m
<1>1. Linked(d) /\ Linked(e)
  BY LinkedIs, ConstantsAre
<1>2. PICK x \in Dirs : x = dirs[d].entries[n] /\ x = dirs[e].entries[m]
  OBVIOUS
<1>3. where[x] = Append(where[d], n) /\ where[x] = Append(where[e], m)
      /\ where[d] \in Seq(Names) /\ where[e] \in Seq(Names)
  BY <1>2 DEF TreeAt, Places
<1>4. where[d] = where[e] /\ n = m
  <2>1. Append(where[d], n) = Append(where[e], m)
    BY <1>3
  <2>2. where[d] \in Seq(Names) /\ where[e] \in Seq(Names)
    BY <1>3
  <2> QED
    BY <2>1, <2>2, OnePathEach
<1> QED
  BY <1>1, <1>4, OneAtAPath

\* There is a way to each directory of the tree: else take one at a shortest path, and go to it from the
\* directory above.
LEMMA WayTo ==
    ASSUME TypeOK, UnlinkedEmpty, HasName, NEW where \in Places, TreeAt(where),
           NEW d \in Dirs, Linked(d)
    PROVE  \E w \in Walks(where[d]) : where[d] # << >> => w[Len(where[d])] = d
<1> DEFINE Way(x) == \E w \in Walks(where[x]) : where[x] # << >> => w[Len(where[x])] = x
<1> SUFFICES ASSUME ~Way(d) PROVE FALSE
  OBVIOUS
<1>1. PICK S \in SUBSET Dirs : S = {x \in Dirs : Linked(x) /\ ~Way(x)}
  OBVIOUS
<1>2. PICK x \in S : \A z \in S : Len(where[x]) <= Len(where[z])
  BY <1>1, HighestIn
<1>3. x \in Dirs /\ Linked(x) /\ ~Way(x)
  BY <1>1, <1>2
<1>4. where[x] # << >>
  <2> SUFFICES ASSUME where[x] = << >> PROVE FALSE
    OBVIOUS
  <2>1. [i \in 1..0 |-> Root] \in Walks(<< >>)
    BY ConstantsAre DEF Walks
  <2> QED
    BY <1>3, <2>1
<1>5. PICK f \in Dirs, n \in Names : dirs[f].entries[n] = x
  BY <1>3, <1>4 DEF Linked, TreeAt
<1>6. Linked(f) /\ where[f] \in Seq(Names) /\ where[x] = Append(where[f], n)
  BY <1>5, LinkedIs, ConstantsAre DEF TreeAt, Places
<1> DEFINE k == Len(where[f])
<1>7. k \in Nat /\ Len(where[x]) = k + 1 /\ (\A i \in 1..k : where[x][i] = where[f][i])
      /\ where[x][k + 1] = n
  BY <1>6
<1>8. Way(f)
  <2>1. f \notin S
    BY <1>2, <1>7
  <2> QED
    BY <1>1, <1>6, <2>1
<1>9. PICK w \in Walks(where[f]) : where[f] # << >> => w[k] = f
  BY <1>8
<1>10. /\ w \in [1..k -> Dirs]
       /\ \A i \in 1..k : dirs[IF i = 1 THEN Root ELSE w[i - 1]].entries[where[f][i]] = w[i]
  BY <1>9 DEF Walks
<1> DEFINE v == [i \in 1..k + 1 |-> IF i = k + 1 THEN x ELSE w[i]]
<1>11. v \in [1..k + 1 -> Dirs] /\ v[k + 1] = x /\ \A i \in 1..k : v[i] = w[i]
  BY <1>7, <1>10
<1>12. dirs[f].entries[n] = x
  BY <1>5
<1>13. f = IF k + 1 = 1 THEN Root ELSE v[k]
  <2>1. CASE k = 0
    <3>1. where[f] = where[Root]
      BY <1>6, <2>1, EmptySeq DEF TreeAt
    <3>2. Linked(Root)
      BY DEF Linked
    <3>3. f = Root
      BY <1>6, <3>1, <3>2, OneAtAPath, ConstantsAre
    <3> QED
      BY <2>1, <3>3
  <2>2. CASE k # 0
    <3>1. where[f] # << >>
      BY <2>2, EmptySeq
    <3>2. w[k] = f /\ k \in 1..k
      BY <1>7, <1>9, <2>2, <3>1
    <3> QED
      BY <1>7, <1>11, <2>2, <3>2
  <2> QED
    BY <2>1, <2>2
<1> HIDE DEF v
<1>14. ASSUME NEW i \in 1..k + 1
       PROVE  dirs[IF i = 1 THEN Root ELSE v[i - 1]].entries[where[x][i]] = v[i]
  <2>1. CASE i = k + 1
    <3>1. (IF i = 1 THEN Root ELSE v[i - 1]) = f
      BY <1>7, <1>13, <2>1
    <3> QED
      BY <1>7, <1>11, <1>12, <2>1, <3>1
  <2>2. CASE i # k + 1
    <3>1. i \in 1..k
      BY <1>7, <2>2
    <3>2. (IF i = 1 THEN Root ELSE v[i - 1]) = (IF i = 1 THEN Root ELSE w[i - 1])
      BY <1>7, <1>11, <3>1
    <3> QED
      BY <1>7, <1>10, <1>11, <3>1, <3>2
  <2> QED
    BY <2>1, <2>2
<1>15. v \in Walks(where[x]) /\ v[Len(where[x])] = x
  BY <1>7, <1>11, <1>14 DEF Walks
<1> QED
  BY <1>3, <1>15

\* A way down a path ends in the directory of the tree that is there.
LEMMA WayEnds ==
    ASSUME TypeOK, UnlinkedEmpty, NEW where \in Places, TreeAt(where),
           NEW p \in Seq(Names) \ {<< >>}, NEW w \in Walks(p)
    PROVE  /\ w[Len(p)] \in Dirs /\ Linked(w[Len(p)]) /\ where[w[Len(p)]] = p
<1>1. /\ w \in [1..Len(p) -> Dirs] /\ Len(p) \in Nat \ {0}
      /\ \A i \in 1..Len(p) : dirs[IF i = 1 THEN Root ELSE w[i - 1]].entries[p[i]] = w[i]
  BY EmptySeq DEF Walks
<1> DEFINE from(i) == IF i = 1 THEN Root ELSE w[i - 1]
<1>2. ASSUME NEW i \in 1..Len(p)
      PROVE  /\ from(i) \in Dirs /\ p[i] \in Names /\ w[i] \in Dirs
             /\ dirs[from(i)].entries[p[i]] = w[i]
  <2>1. from(i) \in Dirs /\ p[i] \in Names /\ w[i] \in Dirs
    <3>1. p[i] \in Names /\ w[i] \in Dirs
      BY <1>1
    <3>2. CASE i = 1
      BY <3>1, <3>2, ConstantsAre
    <3>3. CASE i # 1
      <4>1. i - 1 \in 1..Len(p)
        BY <1>1, <3>3
      <4> QED
        BY <1>1, <3>1, <3>3, <4>1
    <3> QED
      BY <3>2, <3>3
  <2>2. dirs[from(i)].entries[p[i]] = w[i]
    BY <1>1, <2>1
  <2> QED
    BY <2>1, <2>2
<1> HIDE DEF from
<1>3. ASSUME NEW i \in 1..Len(p) PROVE where[w[i]] = Append(where[from(i)], p[i]) /\ Linked(w[i])
  <2>1. PICK d \in Dirs, e \in Dirs, m \in Names :
          d = from(i) /\ e = w[i] /\ m = p[i] /\ dirs[d].entries[m] = e
    BY <1>2
  <2>2. where[e] = Append(where[d], m)
    BY <2>1 DEF TreeAt
  <2>3. Linked(e)
    BY <2>1 DEF Linked
  <2> QED
    BY <2>1, <2>2, <2>3
<1> DEFINE Bad == {i \in 1..Len(p) : where[w[i]] # SubSeq(p, 1, i)}
<1>4. Bad = {}
  <2> SUFFICES ASSUME Bad # {} PROVE FALSE
    OBVIOUS
  <2>1. Bad \in SUBSET Nat
    BY <1>1
  <2>2. PICK i \in Bad : \A j \in Bad : ~ (<<j, i>> \in OpToRel(<, Nat))
    BY <2>1, WFMin, NatLessThanWellFounded, Zenon
  <2>3. i \in 1..Len(p) /\ i \in Nat /\ i - 1 \in 0..Len(p)
    BY <1>1
  <2>4. where[from(i)] = SubSeq(p, 1, i - 1)
    <3>1. CASE i = 1
      <4>1. SubSeq(p, 1, i - 1) = << >>
        BY <3>1, SubSeqEmpty
      <4>2. from(i) = Root
        BY <3>1 DEF from
      <4>3. where[Root] = << >>
        BY DEF TreeAt
      <4> QED
        BY <4>1, <4>2, <4>3
    <3>2. CASE i # 1
      <4>1. i - 1 \in 1..Len(p) /\ i - 1 \in Nat /\ i - 1 < i
        BY <2>3, <3>2
      <4>2. <<i - 1, i>> \in OpToRel(<, Nat)
        BY <2>3, <4>1 DEF OpToRel
      <4>3. i - 1 \notin Bad
        BY <2>2, <4>2
      <4> QED
        BY <3>2, <4>1, <4>3 DEF from
    <3> QED
      BY <3>1, <3>2
  <2>5. Append(SubSeq(p, 1, i - 1), p[i]) = SubSeq(p, 1, i)
    <3>0. PICK k \in 0..Len(p) : k = i - 1
      BY <2>3
    <3>1. PICK q \in Seq(Names) : q = SubSeq(p, 1, i) /\ Len(q) = i /\ \A j \in 1..i : q[j] = p[j]
      <4>1. i \in 0..Len(p)
        BY <2>3
      <4>2. /\ SubSeq(p, 1, i) \in Seq(Names) /\ Len(SubSeq(p, 1, i)) = i
            /\ \A j \in 1..i : SubSeq(p, 1, i)[j] = p[j]
        BY <4>1, PrefixOf
      <4> QED
        BY <4>2
    <3>2. PICK r \in Seq(Names) :
            r = SubSeq(p, 1, i - 1) /\ Len(r) = i - 1 /\ \A j \in 1..i - 1 : r[j] = p[j]
      <4>1. /\ SubSeq(p, 1, k) \in Seq(Names) /\ Len(SubSeq(p, 1, k)) = k
            /\ \A j \in 1..k : SubSeq(p, 1, k)[j] = p[j]
        BY <3>0, PrefixOf
      <4> QED
        BY <3>0, <4>1
    <3>3. p[i] \in Names
      BY <1>2, <2>3
    <3>4. Append(r, p[i]) \in Seq(Names) /\ Len(Append(r, p[i])) = i
          /\ \A j \in 1..i : Append(r, p[i])[j] = p[j]
      BY <2>3, <3>2, <3>3
    <3>5. Append(r, p[i]) = q
      BY <3>1, <3>4, SeqEqual
    <3> QED
      BY <3>1, <3>2, <3>5
  <2> QED
    BY <1>3, <2>2, <2>3, <2>4, <2>5
<1>5. Len(p) \in 1..Len(p) /\ Len(p) \notin Bad
  BY <1>1, <1>4
<1>6. where[w[Len(p)]] = SubSeq(p, 1, Len(p))
  BY <1>5
<1> QED
  BY <1>2, <1>3, <1>5, <1>6, SubSeqFull

LEMMA DirAtIs ==
    ASSUME TypeOK, UnlinkedEmpty, HasName, NEW where \in Places, TreeAt(where),
           NEW d \in Dirs, Linked(d)
    PROVE  DirAt(where[d]) = d
<1>1. where[d] \in Seq(Names)
  BY DEF Places
<1>2. CASE where[d] = << >>
  <2>1. Linked(Root) /\ where[Root] = where[d]
    BY <1>2 DEF Linked, TreeAt
  <2>2. d = Root
    BY <2>1, OneAtAPath, ConstantsAre
  <2> QED
    BY <1>2, <2>2 DEF DirAt
<1>3. CASE where[d] # << >>
  <2>1. Walks(where[d]) # {}
    BY WayTo
  <2>2. PICK w \in Walks(where[d]) : w = CHOOSE v \in Walks(where[d]) : TRUE
    BY <2>1
  <2>3. w[Len(where[d])] \in Dirs /\ Linked(w[Len(where[d])]) /\ where[w[Len(where[d])]] = where[d]
    BY <1>1, <1>3, WayEnds
  <2>4. w[Len(where[d])] = d
    BY <2>3, OneAtAPath
  <2> QED
    BY <1>3, <2>1, <2>2, <2>4 DEF DirAt
<1> QED
  BY <1>2, <1>3

\* What the client sees.
LEMMA SeesNoDir ==
    ASSUME TypeOK, UnlinkedEmpty, HasName, NEW where \in Places, TreeAt(where),
           NEW p \in Paths, KindAt(p) # "dir"
    PROVE  NoDirAt(where, p)
<1> SUFFICES ASSUME NEW d \in Dirs, where[d] = Parent(p), dirs[d].entries[Basename(p)] \in Dirs
             PROVE  FALSE
  BY DEF NoDirAt
<1>1. Basename(p) \in Names
  BY PrefixesAre, PathIs
<1>2. Linked(d)
  BY <1>1, LinkedIs, ConstantsAre
<1>3. DirAt(Parent(p)) = d
  BY <1>2, DirAtIs
<1> QED
  BY <1>3, ConstantsAre DEF KindAt
-----------------------------------------------------------------------------
(* A step of a call                                                        *)

\* It returns to the client or goes on with the call it is at; no other thread is concerned.
LEMMA ThreadMoves ==
    ASSUME TInv, NEW t \in Threads, Steps(t)
    PROVE  /\ pc[t] # "idle"
           /\ \A u \in Threads \ {t} : pc'[u] = pc[u] /\ loc'[u] = loc[u]
           /\ \/ pc'[t] = "idle" /\ loc'[t] = Idle
              \/ /\ pc'[t] # "idle" /\ loc'[t].op = loc[t].op /\ loc'[t].path = loc[t].path
                 /\ loc'[t].to = loc[t].to
<1> DEFINE Keeps(c) == c.op = loc[t].op /\ c.path = loc[t].path /\ c.to = loc[t].to
<1>1. /\ TypeOK /\ ThreadTypes /\ pc \in [Threads -> Locations] /\ loc \in [Threads -> Local]
      /\ loc[t] \in Local
  BY DEF TInv, ThreadTypes
<1>2. ThreadTypes'
  BY StepTypes DEF TInv
<1>3. pc[t] # "idle"
  BY Zenon DEF Steps, Resolve, LookupHit, LookupMiss, OpenDir, ReadDirIV, StoreCache, CreateRemove,
         Stat,
         Unlink, UnlinkFails, DropRemovedName, WriteLongName, WriteLongNameFails, FillName,
         FillNameFails, OpenCreate,
         OpenCreateFails, DropName, MkdirRmdir, LockDirIV, Mkdirat, MkdiratFails, WriteDirIV,
         WriteDirIVFails, Reopen, OpenVictim, MoveIV, MoveIVFails, Rmdirat, RmdiratFails, DropTmp,
         DropVictimName, Uncache, ClearCached, RenameSteps, WriteTargetName, WriteTargetNameFails,
         FillTarget, FillTargetFails, RemoveTarget,
         Renameat, RenameatFails, DropTargetName, DropSourceName
<1>4. (\E r : Return(t, r)) \/ \E q, c : GoOn(t, q, c) /\ Keeps(c)
  <2>1. Keeps(loc[t])
    OBVIOUS
  <2>2. CASE Undo(t) \/ Fail(t) \/ GiveUp(t)
    BY <2>1, <2>2 DEF Undo, Fail, GiveUp
  <2>3. ASSUME NEW d, Entered(t, d) PROVE \E q, c : GoOn(t, q, c) /\ Keeps(c)
    <3> DEFINE e == [loc[t] EXCEPT !.dirfd = d]
               f == [e EXCEPT !.source = d, !.goal = e.to, !.at = Parent(e.to), !.dirfd = None]
               g == [e EXCEPT !.target = d, !.dirfd = None]
    <3>1. Keeps(e) /\ Keeps(f) /\ Keeps(g)
      BY <1>1 DEF Local
    <3>2. \/ \E q : GoOn(t, q, e)
          \/ \E q : GoOn(t, q, f)
          \/ \E q : GoOn(t, q, g)
      BY <2>3 DEF Entered
    <3> HIDE DEF e, f, g, Keeps
    <3> QED
      BY <3>1, <3>2
  <2>4. CASE Resolve(t)
    <3>1. CASE LookupHit(t) \/ StoreCache(t)
      BY <2>3, <3>1 DEF LookupHit, StoreCache
    <3>2. CASE LookupMiss(t)
      <4> DEFINE e == [loc[t] EXCEPT !.dirfd = Root]
                 f == [loc[t] EXCEPT !.at = Parent(@)]
      <4>1. Keeps(e) /\ Keeps(f)
        BY <1>1 DEF Local
      <4>2. (\E q : GoOn(t, q, e)) \/ (\E q : GoOn(t, q, f))
        BY <3>2 DEF LookupMiss
      <4> HIDE DEF e, f, Keeps
      <4> QED
        BY <4>1, <4>2
    <3>3. CASE OpenDir(t) /\ ~Fail(t)
      <4> DEFINE name == loc[t].goal[Len(loc[t].at) + 1]
                 e == [loc[t] EXCEPT !.dirfd = dirs[loc[t].dirfd].entries[name], !.at = Append(@, name)]
      <4>1. Keeps(e)
        BY <1>1 DEF Local
      <4>2. GoOn(t, "read_iv", e)
        BY <3>3 DEF OpenDir
      <4> HIDE DEF e, Keeps
      <4> QED
        BY <4>1, <4>2
    <3>4. CASE ReadDirIV(t)
      BY <2>1, <2>2, <3>4 DEF ReadDirIV
    <3> QED
      BY <2>2, <2>4, <3>1, <3>2, <3>3, <3>4 DEF Resolve
  <2>5. CASE CreateRemove(t)
    BY <2>1, <2>2, <2>5 DEF CreateRemove, Stat, Unlink, UnlinkFails, DropRemovedName, WriteLongName,
         WriteLongNameFails, FillName, FillNameFails, OpenCreate, OpenCreateFails, DropName
  <2>6. CASE MkdirRmdir(t)
    <3>1. CASE Mkdirat(t) \/ OpenVictim(t)
      BY <1>1, <2>2, <3>1 DEF Mkdirat, OpenVictim, Local
    <3> QED
      BY <2>1, <2>2, <2>6, <3>1 DEF MkdirRmdir, LockDirIV, MkdiratFails, WriteDirIV,
         WriteDirIVFails, Reopen, MoveIV, MoveIVFails, Rmdirat, RmdiratFails, DropTmp,
         DropVictimName, Uncache, ClearCached, RmdirReturns
  <2>7. CASE RenameSteps(t)
    <3>1. CASE WriteTargetName(t) \/ RemoveTarget(t)
      <4> DEFINE e == [loc[t] EXCEPT !.had = TRUE]
                 f == [loc[t] EXCEPT !.had = FALSE]
                 g == [loc[t] EXCEPT !.nested = TRUE, !.goal = loc[t].to, !.at = Parent(loc[t].to)]
      <4>1. Keeps(e) /\ Keeps(f) /\ Keeps(g)
        BY <1>1 DEF Local
      <4>2. (\E q : GoOn(t, q, e)) \/ (\E q : GoOn(t, q, f)) \/ (\E q : GoOn(t, q, g))
        BY <3>1 DEF WriteTargetName, RemoveTarget
      <4> HIDE DEF e, f, g, Keeps
      <4> QED
        BY <4>1, <4>2
    <3> QED
      BY <2>1, <2>2, <2>7, <3>1 DEF RenameSteps, WriteTargetNameFails, FillTarget, FillTargetFails,
         Renameat, RenameatFails,
         DropTargetName, DropSourceName
  <2> QED
    BY <2>4, <2>5, <2>6, <2>7 DEF Steps
<1>5. CASE \E r : Return(t, r)
  BY <1>1, <1>3, <1>5 DEF Return
<1>6. CASE \E q, c : GoOn(t, q, c) /\ Keeps(c)
  <2>1. PICK q, c : GoOn(t, q, c) /\ Keeps(c)
    BY <1>6
  <2>2. pc' = [pc EXCEPT ![t] = q] /\ loc' = [loc EXCEPT ![t] = c]
    BY <2>1 DEF GoOn
  <2>3. pc'[t] = q /\ loc'[t] = c /\ \A u \in Threads \ {t} : pc'[u] = pc[u] /\ loc'[u] = loc[u]
    BY <1>1, <2>2
  <2>4. loc[t].op \in AllOps
    BY <1>1, <1>3, Locals DEF OpShape
  <2>5. q # "idle"
    <3>1. loc'[t].op # "none"
      BY <2>1, <2>3, <2>4 DEF AllOps
    <3>2. pc'[t] = "idle" => loc'[t] = Idle
      BY <1>2 DEF ThreadTypes, Shape
    <3> QED
      BY <2>3, <3>1, <3>2 DEF Idle
  <2> QED
    BY <1>3, <2>1, <2>3, <2>5
<1> QED
  BY <1>4, <1>5, <1>6

\* The entries a thread works on are at its paths.
LEMMA SlotsOf ==
    ASSUME TInv, NEW where \in Places, NEW t \in Threads, HeldAt(where, t)
    PROVE  /\ pc[t] # "idle" => loc[t].path \in PathsOf(t) \cap Paths
           /\ loc[t].op = "rename" => loc[t].to \in PathsOf(t) \cap Paths
           /\ pc[t] \in AtParent => /\ loc[t].goal \in PathsOf(t) \cap Paths
                                    /\ where[loc[t].dirfd] = Parent(loc[t].goal)
                                    /\ Append(where[loc[t].dirfd], Name(t)) = loc[t].goal
           /\ pc[t] \in InRename => /\ Append(where[loc[t].source], OldName(t)) = loc[t].path
                                    /\ Append(where[loc[t].target], NewName(t)) = loc[t].to
<1>1. \A p \in Paths : p # None /\ Append(Parent(p), Basename(p)) = p
  BY PrefixesAre, PathIs
<1>2. ThreadTypes /\ Shape(pc[t], loc[t])
  BY DEF TInv, ThreadTypes
<1>3. CASE pc[t] = "idle"
  <2>1. loc[t] = Idle
    BY <1>2, <1>3 DEF Shape
  <2> QED
    BY <1>3, <2>1 DEF Idle, AtParent, Making, Removing, InRename
<1>4. CASE pc[t] # "idle"
  <2>1. OpShape(loc[t]) /\ PlaceShape(pc[t], loc[t])
    BY <1>2, <1>4, Locals
  <2>2. loc[t].path \in PathsOf(t) \cap Paths /\ (loc[t].op = "rename" => loc[t].to \in PathsOf(t) \cap Paths)
    BY <1>1, <2>1 DEF OpShape, PathsOf
  <2>3. loc[t].goal \in PathsOf(t) \cap Paths
    BY <1>1, <2>1 DEF OpShape, PathsOf
  <2>4. pc[t] \in AtParent => where[loc[t].dirfd] = Parent(loc[t].goal)
    BY <2>1 DEF PlaceShape, HeldAt
  <2>5. pc[t] \in InRename => loc[t].op = "rename" /\ where[loc[t].source] = Parent(loc[t].path)
            /\ where[loc[t].target] = Parent(loc[t].to)
    BY <2>1 DEF PlaceShape, HeldAt
  <2> QED
    BY <1>1, <2>2, <2>3, <2>4, <2>5 DEF Name, OldName, NewName
<1> QED
  BY <1>3, <1>4

LEMMA IdleInv ==
    \A t \in Threads : pc[t] = "idle" /\ loc[t] = Idle => \A where : ThreadInv(where, t)
BY DEF ThreadInv, HeldAt, RenameAt, MakeInv, MoveInv, FreshInv, Idle, Resolving, AtParent, Making,
         Removing

\* gcf_rename calls gcf_rmdir only for a directory with a short name, and so has no .name file to
\* remove if that fails.
LEMMA FailReturns ==
    ASSUME TInv, NEW where, NEW t \in Threads, ThreadInv(where, t), pc[t] \in Resolving \cup AtParent,
           Fail(t)
    PROVE  Return(t, FALSE)
<1>1. CASE loc[t].nested
  <2>1. pc[t] # "idle" /\ pc[t] # "drop_source"
    BY DEF Resolving, AtParent, Making, Removing
  <2>2. loc[t].op = "rename"
    BY <1>1, <2>1, Locals DEF TInv, OpShape
  <2>3. ~IsLong(loc[t].to)
    BY <1>1, <2>1, <2>2 DEF ThreadInv, RenameAt
  <2> QED
    BY <1>1, <2>3 DEF Fail, Undo
<1>2. CASE ~loc[t].nested
  BY <1>2 DEF Fail
<1> QED
  BY <1>1, <1>2

-----------------------------------------------------------------------------
(* What a step of a call leaves as it is                                   *)

\* Only entries at the call's own paths change.
SameElsewhere(where, t) ==
    \A d \in Dirs, n \in Names :
        \/ Append(where[d], n) \in PathsOf(t)
        \/ /\ dirs'[d].entries[n] = dirs[d].entries[n]
           /\ n \in dirs'[d].names <=> n \in dirs[d].names

\* A directory that another thread is making is not touched, and not held.
FreshKept(t) ==
    \A u \in Threads \ {t} : pc[u] = "write_iv" =>
        /\ dirs'[loc[u].victim] = dirs[loc[u].victim]
        /\ \A i \in Slots : cache'[i].dir # loc[u].victim
        /\ loc[u].victim \notin {loc'[t].source, loc'[t].target}
        /\ loc'[t].dirfd = loc[u].victim => pc'[t] = "read_iv"

LEMMA Others ==
    ASSUME TInv, NEW where \in Places, NEW t \in Threads, Steps(t), SameElsewhere(where, t),
         FreshKept(t),
           NEW u \in Threads \ {t}, PathsDiffer, ThreadInv(where, u)
    PROVE  ThreadInv(where, u)'
<1>1. /\ pc'[u] = pc[u] /\ loc'[u] = loc[u] /\ pc[t] # "idle" /\ u \in Threads /\ u # t
      /\ \A w \in Threads \ {t} : pc'[w] = pc[w] /\ loc'[w] = loc[w]
  BY ThreadMoves
<1>2. HeldAt(where, u) /\ RenameAt(where, u) /\ MakeInv(u) /\ MoveInv(u) /\ FreshInv(u)
  BY DEF ThreadInv
<1>3. PathsOf(t) \cap PathsOf(u) = {}
  BY <1>1 DEF PathsDiffer
<1>4. ASSUME NEW p \in PathsOf(u) \cap Paths, NEW d \in Dirs, where[d] = Parent(p)
      PROVE  /\ dirs'[d].entries[Basename(p)] = dirs[d].entries[Basename(p)]
             /\ Basename(p) \in dirs'[d].names <=> Basename(p) \in dirs[d].names
  <2>1. p \in Seq(Names) /\ p # << >>
    BY PrefixesAre
  <2>2. Basename(p) \in Names /\ Append(where[d], Basename(p)) = p
    BY <1>4, <2>1, PathIs
  <2>3. p \notin PathsOf(t)
    BY <1>3
  <2> QED
    BY <2>2, <2>3 DEF SameElsewhere
<1>5. HeldAt(where, u)'
  BY <1>1, <1>2 DEF HeldAt
<1>6. RenameAt(where, u)'
  <2> SUFFICES ASSUME loc[u].op = "rename", pc[u] # "drop_source"
               PROVE  /\ NoDirAt(where, loc[u].path)'
                      /\ IsLong(loc[u].to) => NoDirAt(where, loc[u].to)' /\ ~loc[u].nested
    BY <1>1 DEF RenameAt
  <2>1. {t} \subseteq Busy
    BY <1>1 DEF Busy
  <2>2. NoDirAt(where, loc[u].path) /\ (IsLong(loc[u].to) => NoDirAt(where, loc[u].to) /\ ~loc[u].nested)
    BY <1>1, <1>2, <2>1 DEF RenameAt
  <2>3. pc[u] # "idle"
    BY DEF TInv, ThreadTypes, Shape, Idle
  <2>4. loc[u].path \in PathsOf(u) \cap Paths /\ loc[u].to \in PathsOf(u) \cap Paths
    BY <1>2, <2>3, SlotsOf
  <2>5. ASSUME NEW p \in PathsOf(u) \cap Paths, NoDirAt(where, p) PROVE NoDirAt(where, p)'
    BY <1>4, <2>5 DEF NoDirAt
  <2> QED
    BY <1>1, <2>2, <2>4, <2>5 DEF IsLong, NoDirAt
<1>7. ASSUME pc[u] \in AtParent
      PROVE  /\ dirs'[loc[u].dirfd].entries[Name(u)] = Entry(u)
             /\ Name(u) \in dirs'[loc[u].dirfd].names <=> Name(u) \in dirs[loc[u].dirfd].names
  <2>1. loc[u].goal \in PathsOf(u) \cap Paths /\ where[loc[u].dirfd] = Parent(loc[u].goal)
    BY <1>2, <1>7, SlotsOf
  <2>2. loc[u].dirfd \in Dirs
    BY <1>7, Locals DEF TInv, AtParent, Making, Removing
  <2> QED
    BY <1>4, <2>1, <2>2 DEF Name, Entry
<1>8. ASSUME pc[u] \in InRename
      PROVE  /\ dirs'[loc[u].source].entries[OldName(u)] = OldEntry(u)
             /\ dirs'[loc[u].target].entries[NewName(u)] = NewEntry(u)
             /\ NewName(u) \in dirs'[loc[u].target].names <=> NewName(u) \in dirs[loc[u].target].names
  <2>1. pc[u] # "idle"
    BY <1>8 DEF InRename
  <2>2. {loc[u].source, loc[u].target} \subseteq Dirs /\ loc[u].op = "rename"
    BY <1>8, <2>1, Locals DEF TInv
  <2>3. loc[u].path \in PathsOf(u) \cap Paths /\ loc[u].to \in PathsOf(u) \cap Paths
    BY <1>2, <2>1, <2>2, SlotsOf
  <2>4. where[loc[u].source] = Parent(loc[u].path) /\ where[loc[u].target] = Parent(loc[u].to)
    BY <1>2, <2>2, ConstantsAre DEF HeldAt
  <2> QED
    BY <1>4, <2>2, <2>3, <2>4 DEF OldName, NewName, OldEntry, NewEntry
<1>9. MakeInv(u)'
  <2>1. {"fill_name", "open_create", "lock", "mkdirat", "write_iv", "drop_name", "drop_removed",
         "drop_tmp", "drop_victim", "move_iv", "rmdirat"} \subseteq AtParent
    BY DEF AtParent, Making, Removing
  <2>2. CASE pc[u] \in AtParent
    BY <1>1, <1>2, <1>7, <2>2 DEF MakeInv, Name, Entry, Removes, IsLong
  <2>3. CASE pc[u] \notin AtParent
    BY <1>1, <2>1, <2>3 DEF MakeInv
  <2> QED
    BY <2>2, <2>3
<1>10. MoveInv(u)'
  <2>1. {"fill_target", "renameat", "drop_target", "drop_source"} \subseteq InRename
    BY DEF InRename
  <2>2. CASE pc[u] \in InRename
    BY <1>1, <1>2, <1>8, <2>2 DEF MoveInv, NewName, OldName, NewEntry, OldEntry, IsLong
  <2>3. CASE pc[u] \notin InRename
    BY <1>1, <2>1, <2>3 DEF MoveInv
  <2> QED
    BY <2>2, <2>3
<1>11. FreshInv(u)'
  <2> SUFFICES ASSUME pc[u] = "write_iv"
               PROVE  /\ dirs'[loc[u].victim] = NoDir
                      /\ \A i \in Slots : cache'[i].dir # loc[u].victim
                      /\ \A w \in Threads :
                          /\ loc[u].victim \notin {loc'[w].source, loc'[w].target}
                          /\ loc'[w].dirfd = loc[u].victim => pc'[w] = "read_iv"
    BY <1>1 DEF FreshInv
  <2>1. /\ dirs'[loc[u].victim] = dirs[loc[u].victim]
        /\ \A i \in Slots : cache'[i].dir # loc[u].victim
        /\ loc[u].victim \notin {loc'[t].source, loc'[t].target}
        /\ loc'[t].dirfd = loc[u].victim => pc'[t] = "read_iv"
    BY DEF FreshKept
  <2> QED
    BY <1>1, <1>2, <2>1 DEF FreshInv
<1> QED
  BY <1>5, <1>6, <1>9, <1>10, <1>11 DEF ThreadInv
-----------------------------------------------------------------------------
(* What the invariant needs of a step                                      *)

\* The directories a step may use: none of them is just being made by another thread.
Known(t) ==
    {None, Root, loc[t].source, loc[t].target} \cup {cache[i].dir : i \in Slots}
        \cup {d \in {loc[t].dirfd} : pc[t] # "read_iv"}

LEMMA FreshIsKept ==
    ASSUME TInv, NEW where \in Places, DInv(where), NEW t \in Threads,
           \A d \in Dirs : dirs'[d] = dirs[d] \/ d \in Known(t) \/ pc[t] \in Locked,
           \A i \in Slots : cache'[i].dir \in Known(t) \/ pc[t] \in Locked,
           {loc'[t].source, loc'[t].target} \subseteq Known(t),
           loc'[t].dirfd \in Known(t) \/ pc'[t] = "read_iv" \/ dirs[loc'[t].dirfd].iv
    PROVE  FreshKept(t)
<1> SUFFICES ASSUME NEW u \in Threads \ {t}, pc[u] = "write_iv"
             PROVE  /\ dirs'[loc[u].victim] = dirs[loc[u].victim]
                    /\ \A i \in Slots : cache'[i].dir # loc[u].victim
                    /\ loc[u].victim \notin {loc'[t].source, loc'[t].target}
                    /\ loc'[t].dirfd = loc[u].victim => pc'[t] = "read_iv"
  BY DEF FreshKept
<1>1. PICK v \in Dirs : v = loc[u].victim
  BY Locals DEF TInv
<1>2. dirIVLock = u /\ pc[t] \notin Locked
  BY DEF TInv, LockInv, Locked
<1>3. /\ dirs[v] = NoDir /\ (\A i \in Slots : cache[i].dir # v) /\ v \notin {loc[t].source, loc[t].target}
      /\ loc[t].dirfd = v => pc[t] = "read_iv"
  BY <1>1 DEF DInv, ThreadInv, FreshInv
<1>4. v # Root
  <2>1. loc[u].dirfd \in Dirs /\ Name(u) \in Names
    BY Locals DEF TInv, AtParent, Making
  <2>2. dirs[loc[u].dirfd].entries[Name(u)] = v
    BY <1>1 DEF DInv, ThreadInv, MakeInv, Entry
  <2> QED
    BY <2>1, <2>2, RootIsNoEntry DEF DInv, TreeInv
<1>5. v # None
  BY ConstantsAre
<1>6. v \notin Known(t)
  BY <1>3, <1>4, <1>5 DEF Known
<1>7. ~dirs[v].iv
  BY <1>3 DEF NoDir
<1> QED
  BY <1>1, <1>2, <1>6, <1>7

LEMMA SameDir ==
    ASSUME NEW x \in DirType, NEW y \in DirType, x.iv = y.iv, x.entries = y.entries,
           x.names = y.names, x.moved = y.moved
    PROVE  x = y
BY DEF DirType

\* A step that leaves the entries alone.
LEMMA TreeKept ==
    ASSUME TInv, NEW where \in Places, TreeInv(where),
           \A d \in Dirs, n \in Names : dirs'[d].entries[n] = dirs[d].entries[n],
           \A d \in Dirs : Linked(d) \/ dirs'[d] = dirs[d] \/ dirs'[d] = NoDir,
           \A d \in Dirs, n \in LongNames :
                dirs[d].entries[n] # None /\ n \in dirs[d].names => n \in dirs'[d].names,
           CacheAt(where)'
    PROVE  TreeInv(where)'
<1>1. TreeAt(where) /\ UnlinkedEmpty /\ HasName
  BY DEF TreeInv
<1>2. TreeAt(where)'
  BY <1>1 DEF TreeAt
<1>3. \A d \in Dirs : Linked(d) => Linked(d)'
  BY DEF Linked
<1>4. UnlinkedEmpty'
  BY <1>1, <1>3 DEF UnlinkedEmpty, NoDir
<1>5. HasName'
  BY <1>1, ConstantsAre DEF HasName
<1> QED
  BY <1>2, <1>4, <1>5 DEF TreeInv

LEMMA PathsKept ==
    ASSUME TInv, NEW t \in Threads, Steps(t), PathsDiffer
    PROVE  PathsDiffer'
<1>1. \A u \in Threads :
        \/ loc'[u].op = loc[u].op /\ loc'[u].path = loc[u].path /\ loc'[u].to = loc[u].to
        \/ loc'[u] = Idle
  BY ThreadMoves
<1>2. \A u \in Threads : PathsOf(u)' \subseteq PathsOf(u)
  BY <1>1 DEF PathsOf, Idle
<1>3. \A u \in Threads : loc'[u].op = "rename" => loc'[u].path # loc'[u].to
  BY <1>1 DEF PathsDiffer, Idle
<1>4. \A u, w \in Threads : u # w => (PathsOf(u) \cap PathsOf(w) = {})'
  BY <1>2 DEF PathsDiffer
<1> QED
  BY <1>3, <1>4 DEF PathsDiffer

\* After a directory was renamed a call can only remove the name it had.
LEMMA RenamedKept ==
    ASSUME TInv, NEW t \in Threads, Steps(t), RenamedAlone, renamed' = renamed
    PROVE  RenamedAlone'
<1> SUFFICES ASSUME renamed PROVE \A u \in Threads : pc'[u] \in {"idle", "drop_source"}
  BY DEF RenamedAlone
<1>1. pc[t] = "drop_source"
  BY ThreadMoves DEF RenamedAlone
<1>2. DropSourceName(t)
  BY <1>1 DEF Steps, Resolve, LookupHit, LookupMiss, OpenDir, ReadDirIV, StoreCache, CreateRemove, Stat,
         Unlink, UnlinkFails, DropRemovedName, WriteLongName, WriteLongNameFails, FillName,
         FillNameFails, OpenCreate,
         OpenCreateFails, DropName, MkdirRmdir, LockDirIV, Mkdirat, MkdiratFails, WriteDirIV,
         WriteDirIVFails, Reopen, OpenVictim, MoveIV, MoveIVFails, Rmdirat, RmdiratFails, DropTmp,
         DropVictimName, Uncache, ClearCached, RenameSteps, WriteTargetName, WriteTargetNameFails,
         FillTarget, FillTargetFails, RemoveTarget,
         Renameat, RenameatFails, DropTargetName
<1>3. pc'[t] = "idle"
  <2>1. pc \in [Threads -> Locations]
    BY DEF TInv, ThreadTypes
  <2> QED
    BY <1>2, <2>1 DEF DropSourceName, Return
<1> QED
  BY <1>3, ThreadMoves DEF RenamedAlone

LEMMA IVKept ==
    ASSUME TInv, NEW t \in Threads, Steps(t), IVInv, kills' = kills,
           \A d \in Dirs : Linked(d)' /\ ~dirs'[d].iv =>
                \/ /\ Linked(d) /\ ~dirs[d].iv
                   /\ ~(pc[t] \in {"write_iv", "rmdirat"} /\ loc[t].victim = d)
                \/ pc'[t] \in {"write_iv", "rmdirat"} /\ loc'[t].victim = d
    PROVE  IVInv'
<1> SUFFICES ASSUME kills = 0, NEW d \in Dirs, Linked(d)', ~dirs'[d].iv
             PROVE  \E u \in Threads : pc'[u] \in {"write_iv", "rmdirat"} /\ loc'[u].victim = d
  BY DEF IVInv
<1>1. CASE pc'[t] \in {"write_iv", "rmdirat"} /\ loc'[t].victim = d
  BY <1>1
<1>2. CASE /\ Linked(d) /\ ~dirs[d].iv
           /\ ~(pc[t] \in {"write_iv", "rmdirat"} /\ loc[t].victim = d)
  <2>1. PICK u \in Threads : pc[u] \in {"write_iv", "rmdirat"} /\ loc[u].victim = d
    BY <1>2 DEF IVInv
  <2>2. pc'[u] = pc[u] /\ loc'[u] = loc[u]
    BY <1>2, <2>1, ThreadMoves
  <2> QED
    BY <2>1, <2>2
<1> QED
  BY <1>1, <1>2

LEMMA OwedKept ==
    ASSUME TInv, NEW t \in Threads, Steps(t), OwedInv, kills' = kills,
           \A d \in Dirs, v \in Dirs : v \in dirs'[d].moved =>
                \/ v \in dirs[d].moved /\ ~OwesIV(t, d, v)
                \/ OwesIV(t, d, v)',
           \A d \in Dirs, n \in LongNames : n \in dirs'[d].names /\ dirs'[d].entries[n] = None =>
                \/ n \in dirs[d].names /\ dirs[d].entries[n] = None /\ ~OwesName(t, d, n)
                \/ OwesName(t, d, n)'
    PROVE  OwedInv'
<1> SUFFICES ASSUME kills = 0, NEW d \in Dirs
             PROVE  /\ \A v \in dirs'[d].moved : \E u \in Threads : OwesIV(u, d, v)'
                    /\ \A n \in dirs'[d].names :
                        dirs'[d].entries[n] # None \/ \E u \in Threads : OwesName(u, d, n)'
  BY DEF OwedInv
<1>1. \A u \in Threads \ {t} : pc'[u] = pc[u] /\ loc'[u] = loc[u]
  BY ThreadMoves
<1>2. \A u \in Threads \ {t} : \A v : OwesIV(u, d, v) => OwesIV(u, d, v)'
  BY <1>1 DEF OwesIV
<1>3. \A u \in Threads \ {t} : \A n : OwesName(u, d, n) => OwesName(u, d, n)'
  BY <1>1 DEF OwesName, Removes, Name, NewName, OldName
<1>4. dirs'[d].moved \subseteq Dirs /\ dirs'[d].names \subseteq LongNames
  BY StepTypes DEF TInv, TypeOK
<1>5. ASSUME NEW v \in dirs'[d].moved PROVE \E u \in Threads : OwesIV(u, d, v)'
  <2>1. CASE OwesIV(t, d, v)'
    BY <2>1
  <2>2. CASE v \in dirs[d].moved /\ ~OwesIV(t, d, v)
    BY <1>2, <2>2 DEF OwedInv
  <2> QED
    BY <1>4, <2>1, <2>2
<1>6. ASSUME NEW n \in dirs'[d].names, dirs'[d].entries[n] = None
      PROVE  \E u \in Threads : OwesName(u, d, n)'
  <2>1. CASE OwesName(t, d, n)'
    BY <2>1
  <2>2. CASE n \in dirs[d].names /\ dirs[d].entries[n] = None /\ ~OwesName(t, d, n)
    BY <1>3, <2>2 DEF OwedInv
  <2> QED
    BY <1>4, <1>6, <2>1, <2>2
<1> QED
  BY <1>5, <1>6

\* What is to be shown of a step, and that it is enough.
Good(where, t) ==
    /\ SameElsewhere(where, t) /\ FreshKept(t)
    /\ TreeInv(where)' /\ ThreadInv(where, t)' /\ IVInv' /\ OwedInv'

LEMMA GoodStep ==
    ASSUME TInv, NEW where \in Places, DInv(where), NEW t \in Threads, Steps(t), Good(where, t),
           RenamedAlone'
    PROVE  DInv(where)'
<1>1. PathsDiffer'
  BY PathsKept DEF DInv
<1>2. \A u \in Threads \ {t} : ThreadInv(where, u)'
  BY Others DEF DInv, Good
<1> QED
  BY <1>1, <1>2 DEF DInv, Good

\* A step that changes nothing on disk.
LEMMA Quiet ==
    ASSUME TInv, NEW where \in Places, DInv(where), NEW t \in Threads, Steps(t),
           UNCHANGED <<dirs, kills>>, CacheAt(where)', FreshKept(t), ThreadInv(where, t)',
           pc[t] \notin {"write_iv", "rmdirat", "drop_tmp"},
           \A d \in Dirs, n \in LongNames : OwesName(t, d, n) => OwesName(t, d, n)'
    PROVE  Good(where, t)
<1>1. SameElsewhere(where, t)
  BY DEF SameElsewhere
<1>2. TreeInv(where)'
  BY TreeKept DEF DInv
<1>3. IVInv'
  <2>1. \A d \in Dirs : Linked(d)' => Linked(d)
    BY DEF Linked
  <2> QED
    BY <2>1, IVKept DEF DInv
<1>4. OwedInv'
  <2>1. \A d, v \in Dirs : ~OwesIV(t, d, v)
    BY DEF OwesIV
  <2> QED
    BY <2>1, OwedKept DEF DInv
<1> QED
  BY <1>1, <1>2, <1>3, <1>4 DEF Good

\* gcf_rename knows as much of its paths after a step as before.
LEMMA RenameKept ==
    ASSUME TInv, NEW where \in Places, NEW t \in Threads, Steps(t), RenameAt(where, t),
           pc'[t] # "idle", pc[t] # "drop_source",
           loc[t].op = "rename" => \A d \in Dirs, n \in Names :
                dirs'[d].entries[n] \in Dirs => dirs[d].entries[n] \in Dirs,
           loc'[t].nested => loc[t].nested \/ ~IsLong(loc[t].to)
    PROVE  RenameAt(where, t)'
<1> SUFFICES ASSUME loc[t].op = "rename"
             PROVE  /\ NoDirAt(where, loc[t].path)' \/ (Busy = {t})'
                    /\ IsLong(loc[t].to) => NoDirAt(where, loc[t].to)' /\ ~loc'[t].nested
  <2>1. loc'[t].op = loc[t].op /\ loc'[t].to = loc[t].to
    BY ThreadMoves
  <2> QED
    BY <2>1 DEF RenameAt, IsLong
<1>1. /\ loc'[t].path = loc[t].path /\ loc'[t].to = loc[t].to
      /\ \A u \in Threads \ {t} : pc'[u] = pc[u]
  BY ThreadMoves
<1>2. /\ NoDirAt(where, loc[t].path) \/ Busy = {t}
      /\ IsLong(loc[t].to) => NoDirAt(where, loc[t].to) /\ ~loc[t].nested
  BY DEF RenameAt
<1>3. ASSUME NEW p \in Paths, NoDirAt(where, p) PROVE NoDirAt(where, p)'
  <2>1. Basename(p) \in Names
    BY PrefixesAre, PathIs
  <2> QED
    BY <1>3, <2>1 DEF NoDirAt
<1>4. Busy = {t} => (Busy = {t})'
  BY <1>1 DEF Busy
<1>5. loc[t].path \in Paths /\ loc[t].to \in Paths
  <2>1. pc[t] # "idle"
    BY ThreadMoves
  <2> QED
    BY <2>1, Locals DEF TInv
<1> QED
  BY <1>1, <1>2, <1>3, <1>4, <1>5 DEF NoDirAt, IsLong
-----------------------------------------------------------------------------
(* Resolving a path                                                        *)

LEMMA IdleInvPrimed ==
    \A t \in Threads : pc'[t] = "idle" /\ loc'[t] = Idle => \A where : ThreadInv(where, t)'
BY DEF ThreadInv, HeldAt, RenameAt, MakeInv, MoveInv, FreshInv, Idle, Resolving, AtParent, Making,
         Removing

LEMMA ReturnInv ==
    ASSUME TInv, NEW t \in Threads, NEW r, Return(t, r)
    PROVE  pc'[t] = "idle" /\ loc'[t] = Idle /\ \A where : ThreadInv(where, t)'
<1>1. pc \in [Threads -> Locations] /\ loc \in [Threads -> Local]
  BY DEF TInv, ThreadTypes
<1>2. pc'[t] = "idle" /\ loc'[t] = Idle
  BY <1>1 DEF Return
<1> QED
  BY <1>2, IdleInvPrimed

\* A call that fails with nothing to undo.
LEMMA QuietReturn ==
    ASSUME TInv, NEW where \in Places, DInv(where), NEW t \in Threads, Steps(t), NEW r, Return(t, r),
           UNCHANGED <<dirs, cacheVars, renamed, kills>>, pc[t] \notin {"write_iv", "rmdirat",
           "drop_tmp"},
           \A d \in Dirs, n \in LongNames : ~OwesName(t, d, n)
    PROVE  Good(where, t)
<1>1. loc'[t] = Idle /\ ThreadInv(where, t)'
  BY ReturnInv
<1>2. FreshKept(t)
  BY <1>1, FreshIsKept DEF Known, Idle, cacheVars
<1>3. CacheAt(where)'
  BY DEF DInv, TreeInv, CacheAt, cacheVars
<1> QED
  BY <1>1, <1>2, <1>3, Quiet

\* A place at which a call knows nothing yet of the entry it works on.
LEMMA StartInv ==
    ASSUME NEW t \in Threads,
           pc'[t] \in {"lookup", "read_iv", "store", "open_dir", "stat", "unlink", "open_victim",
                       "write_name", "open_create", "lock", "write_target", "renameat",
                       "uncache", "clear", "rename_again"},
           pc'[t] = "open_create" => ~IsLong(loc'[t].path),
           pc'[t] = "lock" => ~IsLong(loc'[t].path) /\ ~Removes(loc'[t]),
           pc'[t] = "renameat" => ~IsLong(loc'[t].to)
    PROVE  MakeInv(t)' /\ MoveInv(t)' /\ FreshInv(t)'
BY DEF MakeInv, MoveInv, FreshInv, IsLong

LEMMA EnteredInv ==
    ASSUME TInv, NEW where \in Places, DInv(where), NEW t \in Threads, Steps(t),
           pc[t] \in {"lookup", "store"}, UNCHANGED <<dirs, kills>>,
           NEW d \in Dirs, Entered(t, d), where[d] = loc[t].at, d \in Known(t)
    PROVE  /\ ThreadInv(where, t)'
           /\ {loc'[t].source, loc'[t].target} \subseteq Known(t)
           /\ loc'[t].dirfd \in Known(t)
<1> DEFINE c == loc[t]
           e == [c EXCEPT !.dirfd = d]
<1>1. /\ c \in Local /\ OpShape(c) /\ PlaceShape(pc[t], c) /\ pc[t] # "idle"
      /\ loc \in [Threads -> Local] /\ pc \in [Threads -> Locations]
  BY Locals DEF TInv, ThreadTypes
<1>2. HeldAt(where, t) /\ RenameAt(where, t)
  BY DEF DInv, ThreadInv
<1>3. ASSUME NEW q, NEW f \in Local, GoOn(t, q, f) PROVE pc'[t] = q /\ loc'[t] = f
  BY <1>1, <1>3 DEF GoOn
<1>4. e \in Local
  BY <1>1 DEF Local
<1>5. None \in Known(t) /\ {c.source, c.target} \subseteq Known(t)
  BY DEF Known
<1>6. ASSUME pc'[t] # "idle", loc'[t].nested = c.nested PROVE RenameAt(where, t)'
  BY <1>2, <1>6, RenameKept
<1>7. CASE e.at # Parent(e.goal)
  <2>1. pc'[t] = "open_dir" /\ loc'[t] = e
    BY <1>3, <1>4, <1>7 DEF Entered
  <2>2. /\ loc'[t].dirfd = d /\ loc'[t].at = c.at /\ loc'[t].source = c.source
        /\ loc'[t].target = c.target /\ loc'[t].path = c.path /\ loc'[t].to = c.to
        /\ loc'[t].nested = c.nested
    BY <1>1, <2>1 DEF Local
  <2>3. HeldAt(where, t)'
    BY <1>2, <2>1, <2>2 DEF HeldAt
  <2> QED
    BY <1>5, <1>6, <2>1, <2>2, <2>3, StartInv DEF ThreadInv
<1>8. CASE e.at = Parent(e.goal) /\ e.op = "rename" /\ e.goal = e.path /\ e.source = None
  <2> DEFINE f == [e EXCEPT !.source = d, !.goal = e.to, !.at = Parent(e.to), !.dirfd = None]
  <2>1. f \in Local
    <3>1. e.to \in Paths /\ Parent(e.to) \in Prefixes
      BY <1>1, <1>8, PrefixesAre DEF OpShape, Local
    <3> QED
      BY <1>4, <3>1 DEF Local
  <2>2. pc'[t] = "lookup" /\ loc'[t] = f
    BY <1>3, <1>8, <2>1 DEF Entered
  <2>3. /\ loc'[t].dirfd = None /\ loc'[t].source = d /\ loc'[t].path = c.path
        /\ loc'[t].target = c.target /\ loc'[t].to = c.to /\ loc'[t].nested = c.nested
    BY <1>1, <2>2 DEF Local
  <2>4. where[d] = Parent(c.path)
    BY <1>1, <1>8 DEF Local
  <2>5. HeldAt(where, t)'
    <3>1. "lookup" \notin Resolving \cup AtParent
      BY DEF Resolving, AtParent, Making, Removing
    <3> QED
      BY <1>2, <2>2, <2>3, <2>4, <3>1 DEF HeldAt
  <2> QED
    BY <1>5, <1>6, <2>2, <2>3, <2>5, StartInv DEF ThreadInv
<1>9. CASE /\ e.at = Parent(e.goal) /\ ~(e.op = "rename" /\ e.goal = e.path /\ e.source = None)
           /\ e.op = "rename" /\ ~e.nested
  <2> DEFINE f == [e EXCEPT !.target = d, !.dirfd = None]
             q == IF IsLong(c.to) THEN "write_target" ELSE "renameat"
  <2>1. c.op = "rename" /\ ~c.nested /\ c.source # None /\ c.goal = c.to /\ c.at = Parent(c.goal)
    <3>1. c.op = "rename" /\ ~c.nested /\ ~(c.goal = c.path /\ c.source = None)
          /\ c.at = Parent(c.goal)
      BY <1>1, <1>9 DEF Local
    <3> QED
      BY <1>1, <3>1 DEF PlaceShape, Resolving
  <2>2. f \in Local
    BY <1>4 DEF Local
  <2>3. pc'[t] = q /\ loc'[t] = f
    <3>1. AfterResolve(t) = q
      BY <1>1, <2>1, AfterResolveIs DEF OpShape
    <3> QED
      BY <1>3, <1>9, <2>2, <3>1 DEF Entered
  <2>4. /\ loc'[t].dirfd = None /\ loc'[t].source = c.source /\ loc'[t].path = c.path
        /\ loc'[t].target = d /\ loc'[t].to = c.to /\ loc'[t].nested = c.nested
    BY <1>1, <2>3 DEF Local
  <2>5. HeldAt(where, t)'
    <3>1. {"write_target", "renameat"} \cap (Resolving \cup AtParent) = {}
      BY DEF Resolving, AtParent, Making, Removing
    <3> QED
      BY <1>2, <2>1, <2>3, <2>4, <3>1 DEF HeldAt
  <2> QED
    BY <1>5, <1>6, <2>3, <2>4, <2>5, StartInv DEF ThreadInv, IsLong
<1>10. CASE /\ e.at = Parent(e.goal) /\ ~(e.op = "rename" /\ ~e.nested)
  <2> DEFINE q == AfterResolve(t)
  <2>1. ~(c.op = "rename" /\ ~c.nested) /\ (c.nested => c.op = "rename" /\ c.source # None)
    BY <1>1, <1>10 DEF Local, OpShape
  <2>2. ~(e.op = "rename" /\ e.goal = e.path /\ e.source = None)
    BY <1>1, <2>1 DEF Local
  <2>3. pc'[t] = q /\ loc'[t] = e
    BY <1>3, <1>4, <1>10, <2>2 DEF Entered
  <2>4. /\ c.op = "stat" => q = "stat"
        /\ c.op = "remove" => q = "unlink"
        /\ Removes(c) => q = "open_victim"
        /\ c.op = "create" => q = IF IsLong(c.path) THEN "write_name" ELSE "open_create"
        /\ c.op = "mkdir" => q = IF IsLong(c.path) THEN "write_name" ELSE "lock"
    BY <1>1, <2>1, AfterResolveIs DEF OpShape
  <2> HIDE DEF q
  <2>5. c.op \in {"stat", "remove", "create", "mkdir"} \/ Removes(c)
    BY <1>1, <2>1 DEF OpShape, AllOps, Removes
  <2>6. /\ loc'[t].dirfd = d /\ loc'[t].at = c.at /\ loc'[t].source = c.source
        /\ loc'[t].target = c.target /\ loc'[t].path = c.path /\ loc'[t].to = c.to
        /\ loc'[t].nested = c.nested /\ loc'[t].op = c.op
    BY <1>1, <2>3 DEF Local
  <2>7. HeldAt(where, t)'
    BY <1>2, <2>6 DEF HeldAt
  <2>8. /\ q \in {"stat", "unlink", "open_victim", "write_name", "open_create", "lock"}
        /\ q = "open_create" => ~IsLong(c.path)
        /\ q = "lock" => ~IsLong(c.path) /\ c.op = "mkdir"
    BY <2>4, <2>5
  <2>9. q = "lock" => ~Removes(loc'[t])
    BY <2>1, <2>6, <2>8 DEF Removes
  <2>10. MakeInv(t)' /\ MoveInv(t)' /\ FreshInv(t)'
    BY <2>3, <2>6, <2>8, <2>9, StartInv DEF IsLong
  <2> QED
    BY <1>5, <1>6, <2>3, <2>6, <2>7, <2>8, <2>10 DEF ThreadInv
<1> QED
  BY <1>7, <1>8, <1>9, <1>10

LEMMA ResolveGood ==
    ASSUME TInv, NEW where \in Places, DInv(where), NEW t \in Threads, Resolve(t)
    PROVE  Good(where, t)
<1> DEFINE c == loc[t]
<1>1. Steps(t) /\ UNCHANGED <<dirs, renamed, kills>> /\ pc[t] \in {"lookup"} \cup Resolving
  BY DEF Steps, Resolve, LookupHit, LookupMiss, OpenDir, ReadDirIV, StoreCache, Resolving
<1>2. /\ c \in Local /\ OpShape(c) /\ PlaceShape(pc[t], c) /\ pc[t] # "idle"
      /\ c.goal \in Paths /\ c.at \in Prefixes
      /\ loc \in [Threads -> Local] /\ pc \in [Threads -> Locations]
      /\ pc[t] \in Resolving => c.dirfd \in Dirs
      /\ TypeOK
  BY <1>1, Locals DEF TInv, ThreadTypes, Resolving
<1>3. /\ HeldAt(where, t) /\ RenameAt(where, t) /\ TreeAt(where) /\ CacheAt(where) /\ ~renamed
      /\ ThreadInv(where, t)
  BY <1>1 DEF DInv, TreeInv, ThreadInv, RenamedAlone, Resolving
<1>4. pc[t] \notin {"write_iv", "rmdirat", "drop_tmp"} /\ \A d \in Dirs, n \in LongNames : ~OwesName(t, d, n)
  BY <1>1 DEF OwesName, Resolving
<1>5. ASSUME CacheAt(where)', FreshKept(t), ThreadInv(where, t)' PROVE Good(where, t)
  BY <1>1, <1>4, <1>5, Quiet
<1>6. ASSUME NEW q, NEW f \in Local, GoOn(t, q, f) PROVE pc'[t] = q /\ loc'[t] = f
  BY <1>2, <1>6 DEF GoOn
<1>7. ASSUME pc'[t] # "idle", loc'[t].nested = c.nested PROVE RenameAt(where, t)'
  BY <1>1, <1>3, <1>7, RenameKept DEF Resolving
<1>8. None \in Known(t) /\ {c.source, c.target} \subseteq Known(t) /\ Root \in Known(t)
      /\ \A i \in Slots : cache[i].dir \in Known(t)
  BY DEF Known
<1>9. CASE Fail(t) /\ UNCHANGED cacheVars /\ pc[t] \in Resolving
  <2>1. Return(t, FALSE)
    BY <1>3, <1>9, FailReturns
  <2> QED
    BY <1>1, <1>4, <1>9, <2>1, QuietReturn
<1>10. UNCHANGED cacheVars => CacheAt(where)'
  BY <1>1, <1>3 DEF CacheAt, cacheVars
<1>11. CASE LookupHit(t)
  <2> DEFINE i == Lowest(Hits(c.at))
  <2>1. pc[t] = "lookup" /\ Entered(t, cache[i].dir) /\ UNCHANGED cacheVars /\ Hits(c.at) # {}
    BY <1>11 DEF LookupHit
  <2>2. i \in Slots /\ cache[i].dir \in Dirs /\ cache[i].path = c.at
    BY <1>2, <2>1, HitIs
  <2> HIDE DEF i
  <2>3. where[cache[i].dir] = c.at
    BY <1>3, <2>2, ConstantsAre DEF CacheAt
  <2>4. /\ ThreadInv(where, t)' /\ {loc'[t].source, loc'[t].target} \subseteq Known(t)
        /\ loc'[t].dirfd \in Known(t)
    BY <1>1, <1>8, <2>1, <2>2, <2>3, EnteredInv
  <2>5. FreshKept(t)
    BY <1>1, <1>8, <2>1, <2>4, FreshIsKept DEF cacheVars
  <2> QED
    BY <1>5, <1>10, <2>1, <2>4, <2>5
<1>12. CASE LookupMiss(t) /\ c.at = << >>
  <2> DEFINE e == [c EXCEPT !.dirfd = Root]
  <2>1. pc'[t] = "read_iv" /\ loc'[t] = e /\ UNCHANGED cacheVars
    <3>1. GoOn(t, "read_iv", e) /\ e \in Local /\ UNCHANGED cacheVars
      BY <1>2, <1>12, ConstantsAre DEF LookupMiss, Local
    <3> QED
      BY <1>6, <3>1
  <2>2. /\ loc'[t].dirfd = Root /\ loc'[t].at = c.at /\ loc'[t].source = c.source
        /\ loc'[t].target = c.target /\ loc'[t].path = c.path /\ loc'[t].to = c.to
        /\ loc'[t].nested = c.nested
    BY <1>2, <2>1 DEF Local
  <2>3. HeldAt(where, t)'
    BY <1>3, <1>12, <2>2 DEF HeldAt, TreeAt
  <2>4. ThreadInv(where, t)'
    BY <1>7, <2>1, <2>2, <2>3, StartInv DEF ThreadInv
  <2>5. FreshKept(t)
    BY <1>1, <1>8, <2>1, <2>2, FreshIsKept DEF cacheVars
  <2> QED
    BY <1>5, <1>10, <2>1, <2>4, <2>5
<1>13. CASE LookupMiss(t) /\ c.at # << >>
  <2> DEFINE e == [c EXCEPT !.at = Parent(c.at)]
  <2>1. pc'[t] = "lookup" /\ loc'[t] = e /\ UNCHANGED cacheVars /\ pc[t] = "lookup"
    <3>1. Parent(c.at) \in Prefixes
      BY <1>2, <1>13, StepUp DEF OpShape
    <3>2. GoOn(t, "lookup", e) /\ e \in Local /\ UNCHANGED cacheVars /\ pc[t] = "lookup"
      BY <1>2, <1>13, <3>1 DEF LookupMiss, Local
    <3> QED
      BY <1>6, <3>2
  <2>2. /\ loc'[t].dirfd = c.dirfd /\ loc'[t].source = c.source
        /\ loc'[t].target = c.target /\ loc'[t].path = c.path /\ loc'[t].to = c.to
        /\ loc'[t].nested = c.nested
    BY <1>2, <2>1 DEF Local
  <2>3. HeldAt(where, t)'
    <3>1. "lookup" \notin Resolving \cup AtParent
      BY DEF Resolving, AtParent, Making, Removing
    <3> QED
      BY <1>3, <2>1, <2>2, <3>1 DEF HeldAt
  <2>4. ThreadInv(where, t)'
    BY <1>7, <2>1, <2>2, <2>3, StartInv DEF ThreadInv
  <2>5. c.dirfd = None
    BY <1>2, <2>1 DEF PlaceShape
  <2>6. FreshKept(t)
    BY <1>1, <1>8, <2>1, <2>2, <2>5, FreshIsKept DEF cacheVars
  <2> QED
    BY <1>5, <1>10, <2>1, <2>4, <2>6
<1>14. CASE OpenDir(t) /\ ~Fail(t)
  <2> DEFINE name == c.goal[Len(c.at) + 1]
             entry == dirs[c.dirfd].entries[name]
             e == [c EXCEPT !.dirfd = entry, !.at = Append(c.at, name)]
  <2>1. pc[t] = "open_dir" /\ UNCHANGED cacheVars /\ entry \in Dirs /\ GoOn(t, "read_iv", e)
    BY <1>14 DEF OpenDir
  <2>2. name \in Names /\ Append(c.at, name) \in Prefixes
    BY <1>2, <2>1, StepDown DEF PlaceShape, OpShape
  <2>3. e \in Local
    BY <1>2, <2>1, <2>2, Zenon DEF Local
  <2>4. pc'[t] = "read_iv" /\ loc'[t] = e
    BY <1>6, <2>1, <2>3, Zenon
  <2>5. where[entry] = Append(c.at, name)
    <3>1. where[c.dirfd] = c.at /\ c.dirfd \in Dirs
      BY <1>2, <1>3, <2>1 DEF HeldAt, Resolving
    <3>2. PICK x \in Dirs, n \in Names : x = entry /\ n = name /\ dirs[c.dirfd].entries[n] = x
      BY <2>1, <2>2, Zenon
    <3>3. where[x] = Append(where[c.dirfd], n)
      BY <1>3, <3>1, <3>2, Zenon DEF TreeAt
    <3> QED
      BY <3>1, <3>2, <3>3, Zenon
  <2> HIDE DEF entry, name
  <2>6. /\ loc'[t].dirfd = entry /\ loc'[t].at = Append(c.at, name) /\ loc'[t].source = c.source
        /\ loc'[t].target = c.target /\ loc'[t].path = c.path /\ loc'[t].to = c.to
        /\ loc'[t].nested = c.nested
    BY <1>2, <2>4 DEF Local
  <2>7. HeldAt(where, t)'
    BY <1>3, <2>5, <2>6 DEF HeldAt
  <2>8. ThreadInv(where, t)'
    BY <1>7, <2>4, <2>6, <2>7, StartInv DEF ThreadInv
  <2>9. FreshKept(t)
    BY <1>1, <1>8, <2>1, <2>4, <2>6, FreshIsKept DEF cacheVars
  <2> QED
    BY <1>5, <1>10, <2>1, <2>8, <2>9
<1>15. CASE ReadDirIV(t) /\ ~Fail(t)
  <2>1. pc[t] = "read_iv" /\ UNCHANGED cacheVars /\ GoOn(t, "store", c) /\ dirs[c.dirfd].iv
    BY <1>15 DEF ReadDirIV
  <2>2. pc'[t] = "store" /\ loc'[t] = c
    BY <1>2, <1>6, <2>1
  <2>3. HeldAt(where, t)'
    BY <1>3, <2>1, <2>2 DEF HeldAt, Resolving
  <2>4. ThreadInv(where, t)'
    BY <1>7, <2>2, <2>3, StartInv DEF ThreadInv
  <2>5. FreshKept(t)
    BY <1>1, <1>8, <2>1, <2>2, FreshIsKept DEF cacheVars
  <2> QED
    BY <1>5, <1>10, <2>1, <2>4, <2>5
<1>16. CASE StoreCache(t)
  <2>1. /\ pc[t] = "store" /\ Entered(t, c.dirfd)
        /\ cache' = [cache EXCEPT ![nextIndex] = [path |-> c.at, dir |-> c.dirfd]]
    BY <1>16 DEF StoreCache
  <2>2. c.dirfd \in Dirs /\ where[c.dirfd] = c.at /\ c.dirfd \in Known(t)
    BY <1>2, <1>3, <2>1 DEF HeldAt, Resolving, Known
  <2>3. /\ ThreadInv(where, t)' /\ {loc'[t].source, loc'[t].target} \subseteq Known(t)
        /\ loc'[t].dirfd \in Known(t)
    BY <1>1, <2>1, <2>2, EnteredInv
  <2>4. \A i \in Slots : cache'[i] = IF i = nextIndex THEN [path |-> c.at, dir |-> c.dirfd] ELSE cache[i]
    BY <1>2, <2>1 DEF TypeOK
  <2>5. FreshKept(t)
    <3>1. \A i \in Slots : cache'[i].dir \in Known(t)
      BY <1>8, <2>2, <2>4
    <3> QED
      BY <1>1, <2>3, <3>1, FreshIsKept
  <2>6. CacheAt(where)'
    BY <1>3, <2>2, <2>4 DEF CacheAt
  <2> QED
    BY <1>5, <2>3, <2>5, <2>6
<1>17. CASE OpenDir(t) \/ ReadDirIV(t)
  <2>1. pc[t] \in Resolving /\ UNCHANGED cacheVars
    BY <1>17 DEF OpenDir, ReadDirIV, Resolving
  <2> QED
    BY <1>9, <1>14, <1>15, <1>17, <2>1
<1> QED
  BY <1>11, <1>12, <1>13, <1>16, <1>17 DEF Resolve
-----------------------------------------------------------------------------
(* One .name file or one entry                                             *)

WithNames(d, N) == [dirs EXCEPT ![d].names = N]

LEMMA NamesEdit ==
    ASSUME TInv, NEW d \in Dirs, NEW N \in SUBSET LongNames, dirs' = WithNames(d, N)
    PROVE  /\ \A x \in Dirs \ {d} : dirs'[x] = dirs[x]
           /\ dirs'[d].names = N /\ dirs'[d].iv = dirs[d].iv /\ dirs'[d].entries = dirs[d].entries
           /\ dirs'[d].moved = dirs[d].moved
<1>1. dirs \in [Dirs -> DirType]
  BY DEF TInv, TypeOK, DirType
<1>2. \A x \in Dirs \ {d} : dirs'[x] = dirs[x]
  BY <1>1 DEF WithNames
<1>3. dirs'[d] = [dirs[d] EXCEPT !.names = N] /\ dirs[d] \in DirType
  BY <1>1 DEF WithNames
<1>4. /\ dirs'[d].names = N /\ dirs'[d].iv = dirs[d].iv /\ dirs'[d].entries = dirs[d].entries
      /\ dirs'[d].moved = dirs[d].moved
  BY <1>3 DEF DirType
<1> QED
  BY <1>2, <1>4

LEMMA PutEdit ==
    ASSUME TInv, NEW d \in Dirs, NEW n \in Names, NEW e, dirs' = Put(d, n, e)
    PROVE  /\ \A x \in Dirs \ {d} : dirs'[x] = dirs[x]
           /\ dirs'[d].names = dirs[d].names /\ dirs'[d].iv = dirs[d].iv /\ dirs'[d].moved = dirs[d].moved
           /\ dirs'[d].entries[n] = e
           /\ \A m \in Names \ {n} : dirs'[d].entries[m] = dirs[d].entries[m]
<1>1. dirs \in [Dirs -> DirType]
  BY DEF TInv, TypeOK, DirType
<1>2. \A x \in Dirs \ {d} : dirs'[x] = dirs[x]
  BY <1>1 DEF Put
<1>3. dirs'[d] = [dirs[d] EXCEPT !.entries = [dirs[d].entries EXCEPT ![n] = e]] /\ dirs[d] \in DirType
  BY <1>1 DEF Put
<1>4. /\ dirs'[d].names = dirs[d].names /\ dirs'[d].iv = dirs[d].iv /\ dirs'[d].moved = dirs[d].moved
      /\ dirs'[d].entries = [dirs[d].entries EXCEPT ![n] = e]
  BY <1>3 DEF DirType
<1>5. dirs[d].entries \in [Names -> Kinds]
  BY <1>3 DEF DirType
<1> QED
  BY <1>2, <1>4, <1>5

\* A .name file is written or removed.
LEMMA NamesGood ==
    ASSUME TInv, NEW where \in Places, DInv(where), NEW t \in Threads, Steps(t),
           NEW d \in Dirs, NEW n \in LongNames, NEW N \in SUBSET LongNames,
           dirs' = WithNames(d, N), N \ {n} = dirs[d].names \ {n},
           Append(where[d], n) \in PathsOf(t),
           UNCHANGED <<cacheVars, renamed, kills>>, FreshKept(t), ThreadInv(where, t)',
           dirs[d].iv \/ N \subseteq dirs[d].names,
           n \in N \/ dirs[d].entries[n] = None,
           pc[t] \notin {"write_iv", "rmdirat", "drop_tmp"},
           \A x \in Dirs, m \in LongNames : OwesName(t, x, m) => x = d /\ m = n,
           n \in N => (n \in dirs[d].names /\ ~OwesName(t, d, n)) \/ OwesName(t, d, n)'
    PROVE  Good(where, t)
<1>1. /\ \A x \in Dirs \ {d} : dirs'[x] = dirs[x]
      /\ dirs'[d].names = N /\ dirs'[d].iv = dirs[d].iv /\ dirs'[d].entries = dirs[d].entries
      /\ dirs'[d].moved = dirs[d].moved
  BY NamesEdit
<1>2. \A x \in Dirs : dirs'[x].iv = dirs[x].iv /\ dirs'[x].entries = dirs[x].entries
                      /\ dirs'[x].moved = dirs[x].moved
  BY <1>1
<1>3. SameElsewhere(where, t)
  BY <1>1 DEF SameElsewhere
<1>4. TreeInv(where)'
  <2>1. CacheAt(where)'
    BY DEF DInv, TreeInv, CacheAt, cacheVars
  <2>2. Linked(d) \/ dirs'[d] = NoDir
    <3> SUFFICES ASSUME ~Linked(d) PROVE dirs'[d] = NoDir
      OBVIOUS
    <3>1. dirs[d] = NoDir
      BY DEF DInv, TreeInv, UnlinkedEmpty
    <3>2. N = {} /\ dirs[d].names = {}
      BY <3>1 DEF NoDir
    <3>3. dirs[d] \in DirType /\ dirs'[d] \in DirType
      BY StepTypes DEF TInv, TypeOK, DirType
    <3>4. dirs'[d] = dirs[d]
      BY <1>1, <3>2, <3>3, SameDir
    <3> QED
      BY <3>1, <3>4
  <2>3. \A x \in Dirs, m \in LongNames :
            dirs[x].entries[m] # None /\ m \in dirs[x].names => m \in dirs'[x].names
    BY <1>1
  <2> QED
    BY <1>1, <1>2, <2>1, <2>2, <2>3, TreeKept DEF DInv
<1>5. IVInv'
  <2>1. \A x \in Dirs : Linked(x)' => Linked(x)
    BY <1>2 DEF Linked
  <2> QED
    BY <1>2, <2>1, IVKept DEF DInv
<1>6. OwedInv'
  <2>1. \A x, v \in Dirs : ~OwesIV(t, x, v)
    BY DEF OwesIV
  <2>2. ASSUME NEW x \in Dirs, NEW m \in LongNames, m \in dirs'[x].names, dirs'[x].entries[m] = None
        PROVE  \/ m \in dirs[x].names /\ dirs[x].entries[m] = None /\ ~OwesName(t, x, m)
               \/ OwesName(t, x, m)'
    <3>1. CASE x = d /\ m = n
      BY <1>1, <1>2, <2>2, <3>1
    <3>2. CASE ~(x = d /\ m = n)
      BY <1>1, <1>2, <2>2, <3>2
    <3> QED
      BY <3>1, <3>2
  <2> QED
    BY <1>2, <2>1, <2>2, OwedKept DEF DInv
<1> QED
  BY <1>3, <1>4, <1>5, <1>6 DEF Good

LEMMA NotInItself ==
    ASSUME NEW where \in Places, TreeAt(where), NEW d \in Dirs, NEW n \in Names
    PROVE  dirs[d].entries[n] # d
<1>1. where[d] \in Seq(Names)
  BY DEF Places
<1>2. Append(where[d], n) # where[d]
  <2>1. Len(Append(where[d], n)) = Len(where[d]) + 1 /\ Len(where[d]) \in Nat
    BY <1>1, AppendIs
  <2> QED
    BY <2>1
<1> QED
  BY <1>2 DEF TreeAt

\* An entry of a directory is created or removed.
LEMMA PutGood ==
    ASSUME TInv, NEW where \in Places, DInv(where), NEW t \in Threads, Steps(t),
           NEW d \in Dirs, NEW n \in Names, NEW e \in Kinds, dirs' = Put(d, n, e), Linked(d),
           Append(where[d], n) \in PathsOf(t),
           UNCHANGED <<cacheVars, renamed, kills>>, FreshKept(t), ThreadInv(where, t)',
           e \in Dirs => where[e] = Append(where[d], n) /\ pc'[t] = "write_iv" /\ loc'[t].victim = e,
           dirs[d].entries[n] \in Dirs => e = None /\ dirs[dirs[d].entries[n]] = NoDir,
           n \in LongNames /\ e # None => n \in dirs[d].names,
           n \in LongNames /\ e = None => OwesName(t, d, n)',
           pc[t] \in {"write_iv", "rmdirat"} => dirs[d].entries[n] = loc[t].victim,
           \A x, v \in Dirs : OwesIV(t, x, v) => OwesIV(t, x, v)',
           \A x \in Dirs, m \in LongNames : OwesName(t, x, m) => x = d /\ m = n
    PROVE  Good(where, t)
<1>1. /\ \A x \in Dirs \ {d} : dirs'[x] = dirs[x]
      /\ dirs'[d].names = dirs[d].names /\ dirs'[d].iv = dirs[d].iv /\ dirs'[d].moved = dirs[d].moved
      /\ dirs'[d].entries[n] = e
      /\ \A m \in Names \ {n} : dirs'[d].entries[m] = dirs[d].entries[m]
  BY PutEdit
<1>2. /\ \A x \in Dirs : dirs'[x].iv = dirs[x].iv /\ dirs'[x].names = dirs[x].names
                         /\ dirs'[x].moved = dirs[x].moved
      /\ \A x \in Dirs, m \in Names : ~(x = d /\ m = n) => dirs'[x].entries[m] = dirs[x].entries[m]
  BY <1>1
<1>3. TreeAt(where) /\ UnlinkedEmpty /\ HasName /\ TypeOK
  BY DEF DInv, TreeInv, TInv
<1>4. SameElsewhere(where, t)
  BY <1>2 DEF SameElsewhere
<1>5. ASSUME NEW x \in Dirs, Linked(x)' PROVE Linked(x) \/ x = e
  BY <1>1, <1>2, <1>5 DEF Linked
<1>6. ASSUME NEW x \in Dirs, Linked(x) PROVE Linked(x)' \/ x = dirs[d].entries[n]
  BY <1>1, <1>2, <1>6 DEF Linked
<1>7. Linked(d)'
  BY <1>3, <1>6, NotInItself
<1>8. ASSUME NEW y \in Dirs, y = dirs[d].entries[n] PROVE ~Linked(y)'
  <2> SUFFICES ASSUME Linked(y)' PROVE FALSE
    OBVIOUS
  <2>1. y # Root
    BY <1>3, <1>8, RootIsNoEntry
  <2>2. PICK f \in Dirs, m \in Names : dirs'[f].entries[m] = y
    BY <2>1 DEF Linked
  <2>3. ~(f = d /\ m = n)
    BY <1>1, <1>8, <2>2, ConstantsAre
  <2>4. dirs[f].entries[m] = y
    BY <1>2, <2>2, <2>3
  <2>5. f = d /\ m = n
    BY <1>3, <1>8, <2>4, OneLink
  <2> QED
    BY <2>3, <2>5
<1>9. TreeInv(where)'
  <2>1. CacheAt(where)'
    BY DEF DInv, TreeInv, CacheAt, cacheVars
  <2>2. TreeAt(where)'
    <3> SUFFICES ASSUME NEW f \in Dirs, NEW x \in Dirs, NEW m \in Names, dirs'[f].entries[m] = x
                 PROVE  where[x] = Append(where[f], m)
      BY <1>3 DEF TreeAt
    <3>1. CASE f = d /\ m = n
      BY <1>1, <3>1
    <3>2. CASE ~(f = d /\ m = n)
      BY <1>2, <1>3, <3>2 DEF TreeAt
    <3> QED
      BY <3>1, <3>2
  <2>3. UnlinkedEmpty'
    <3> SUFFICES ASSUME NEW x \in Dirs, ~Linked(x)' PROVE dirs'[x] = NoDir
      BY DEF UnlinkedEmpty, NoDir
    <3>1. x # d
      BY <1>7
    <3>2. dirs[x] = NoDir
      BY <1>3, <1>6 DEF UnlinkedEmpty
    <3> QED
      BY <1>1, <3>1, <3>2
  <2>4. HasName'
    <3> SUFFICES ASSUME NEW f \in Dirs, NEW m \in LongNames, dirs'[f].entries[m] # None
                 PROVE  m \in dirs'[f].names
      BY DEF HasName
    <3>1. CASE f = d /\ m = n
      BY <1>1, <3>1
    <3>2. CASE ~(f = d /\ m = n)
      BY <1>2, <1>3, <3>2, ConstantsAre DEF HasName
    <3> QED
      BY <3>1, <3>2
  <2> QED
    BY <2>1, <2>2, <2>3, <2>4 DEF TreeInv
<1>10. IVInv'
  <2> SUFFICES ASSUME NEW x \in Dirs, Linked(x)', ~dirs'[x].iv
               PROVE  \/ /\ Linked(x) /\ ~dirs[x].iv
                         /\ ~(pc[t] \in {"write_iv", "rmdirat"} /\ loc[t].victim = x)
                      \/ pc'[t] \in {"write_iv", "rmdirat"} /\ loc'[t].victim = x
    BY IVKept DEF DInv
  <2>1. CASE x = e
    BY <2>1
  <2>2. CASE x # e
    <3>1. Linked(x) /\ ~dirs[x].iv
      BY <1>2, <1>5, <2>2
    <3>2. ~(pc[t] \in {"write_iv", "rmdirat"} /\ loc[t].victim = x)
      BY <1>8
    <3> QED
      BY <3>1, <3>2
  <2> QED
    BY <2>1, <2>2
<1>11. OwedInv'
  <2>1. ASSUME NEW x \in Dirs, NEW m \in LongNames, m \in dirs'[x].names, dirs'[x].entries[m] = None
        PROVE  \/ m \in dirs[x].names /\ dirs[x].entries[m] = None /\ ~OwesName(t, x, m)
               \/ OwesName(t, x, m)'
    <3>1. CASE x = d /\ m = n
      BY <1>1, <2>1, <3>1
    <3>2. CASE ~(x = d /\ m = n)
      BY <1>2, <2>1, <3>2, ConstantsAre
    <3> QED
      BY <3>1, <3>2
  <2> QED
    BY <1>2, <2>1, OwedKept DEF DInv
<1> QED
  BY <1>4, <1>9, <1>10, <1>11 DEF Good
-----------------------------------------------------------------------------
(* Creating and removing files                                             *)

LEMMA GoOnSame ==
    ASSUME TInv, NEW where \in Places, DInv(where), NEW t \in Threads, NEW q, GoOn(t, q, loc[t])
    PROVE  /\ pc'[t] = q /\ loc'[t] = loc[t]
           /\ pc[t] \in Resolving \cup AtParent \/ q \notin Resolving \cup AtParent => HeldAt(where, t)'
           /\ {loc'[t].source, loc'[t].target} \subseteq Known(t)
           /\ pc[t] # "read_iv" => loc'[t].dirfd \in Known(t)
<1>1. pc \in [Threads -> Locations] /\ loc \in [Threads -> Local]
  BY DEF TInv, ThreadTypes
<1>2. pc'[t] = q /\ loc'[t] = loc[t]
  BY <1>1 DEF GoOn
<1>3. HeldAt(where, t)
  BY DEF DInv, ThreadInv
<1> QED
  BY <1>2, <1>3 DEF HeldAt, Known

\* What a call that is not gcf_rename knows at each place.
LEMMA AtParentIs ==
    ASSUME TInv, NEW where \in Places, DInv(where), NEW t \in Threads, pc[t] \in AtParent
    PROVE  /\ loc[t].dirfd \in Dirs /\ loc[t].dirfd \in Known(t) /\ Name(t) \in Names
           /\ Append(where[loc[t].dirfd], Name(t)) \in PathsOf(t)
           /\ pc[t] \in Making \cup {"unlink", "drop_removed", "stat"} =>
                loc[t].op # "rename" /\ ~Removes(loc[t]) /\ loc[t].goal = loc[t].path
           /\ IsLong(loc[t].goal) <=> Name(t) \in LongNames
<1>1. pc[t] # "idle" /\ pc[t] # "read_iv"
  BY DEF AtParent, Making, Removing
<1>2. /\ loc[t].dirfd \in Dirs /\ Name(t) \in Names /\ OpShape(loc[t]) /\ PlaceShape(pc[t], loc[t])
  BY <1>1, Locals DEF TInv
<1>3. HeldAt(where, t)
  BY DEF DInv, ThreadInv
<1>4. Append(where[loc[t].dirfd], Name(t)) \in PathsOf(t)
  BY <1>3, SlotsOf
<1>5. pc[t] \in Making \cup {"unlink", "drop_removed", "stat"} =>
        loc[t].op \in {"create", "mkdir", "remove", "stat"}
  BY <1>2 DEF PlaceShape, Making
<1>6. loc[t].op \in {"create", "mkdir", "remove", "stat"} =>
        loc[t].op # "rename" /\ ~Removes(loc[t]) /\ loc[t].goal = loc[t].path
  BY <1>2, PrefixesAre DEF OpShape, Removes
<1> QED
  BY <1>1, <1>2, <1>4, <1>5, <1>6 DEF Known, IsLong, Name

\* A call that is not gcf_rename and makes nothing.
LEMMA NotRenameInv ==
    ASSUME TInv, NEW where \in Places, NEW t \in Threads, loc'[t].op # "rename",
           HeldAt(where, t)', MakeInv(t)', pc'[t] \notin InRename \cup {"write_iv"}
    PROVE  ThreadInv(where, t)'
BY DEF ThreadInv, RenameAt, MoveInv, FreshInv, InRename

\* The content was not created, and is not there.
LEMMA GiveUpInv ==
    ASSUME TInv, NEW where \in Places, DInv(where), NEW t \in Threads, GiveUp(t),
           pc[t] \in {"open_create", "mkdirat", "write_iv"},
           IsLong(loc[t].path) => dirs'[loc[t].dirfd].entries[Name(t)] = None
    PROVE  /\ ThreadInv(where, t)'
           /\ {loc'[t].source, loc'[t].target} \subseteq Known(t) /\ loc'[t].dirfd \in Known(t)
           /\ IsLong(loc[t].path) => pc'[t] = "drop_name" /\ loc'[t] = loc[t]
<1>1. pc[t] \in AtParent /\ pc[t] \in Making
  BY DEF AtParent, Making
<1>2. CASE IsLong(loc[t].path)
  <2>1. GoOn(t, "drop_name", loc[t])
    BY <1>2 DEF GiveUp
  <2>2. /\ pc'[t] = "drop_name" /\ loc'[t] = loc[t] /\ HeldAt(where, t)'
        /\ {loc'[t].source, loc'[t].target} \subseteq Known(t) /\ loc'[t].dirfd \in Known(t)
    BY <1>1, <2>1, GoOnSame
  <2>3. MakeInv(t)'
    BY <1>2, <2>2 DEF MakeInv, Entry, Name
  <2>4. loc[t].op # "rename"
    BY <1>1, AtParentIs
  <2> QED
    BY <1>2, <2>2, <2>3, <2>4, NotRenameInv DEF InRename
<1>3. CASE ~IsLong(loc[t].path)
  <2>1. Return(t, FALSE)
    BY <1>3 DEF GiveUp
  <2>2. loc'[t] = Idle /\ ThreadInv(where, t)'
    BY <2>1, ReturnInv
  <2> QED
    BY <1>3, <2>2 DEF Idle, Known
<1> QED
  BY <1>2, <1>3

LEMMA NameDropped ==
    ASSUME TInv, NEW where \in Places, DInv(where), NEW t \in Threads, Steps(t),
           NEW d \in Dirs, NEW n \in LongNames,
           dirs' = WithNames(d, dirs[d].names \ {n}),
           Append(where[d], n) \in PathsOf(t),
           UNCHANGED <<cacheVars, renamed, kills>>, FreshKept(t), ThreadInv(where, t)',
           dirs[d].entries[n] = None,
           pc[t] \notin {"write_iv", "rmdirat", "drop_tmp"},
           \A x \in Dirs, m \in LongNames : OwesName(t, x, m) => x = d /\ m = n
    PROVE  Good(where, t)
<1>1. PICK N \in SUBSET LongNames : N = dirs[d].names \ {n}
  BY DEF TInv, TypeOK
<1>2. dirs' = WithNames(d, N)
  BY <1>1
<1>3. N \ {n} = dirs[d].names \ {n}
  BY <1>1
<1>4. dirs[d].iv \/ N \subseteq dirs[d].names
  BY <1>1
<1>5. n \in N \/ dirs[d].entries[n] = None
  OBVIOUS
<1>6. n \in N => (n \in dirs[d].names /\ ~OwesName(t, d, n)) \/ OwesName(t, d, n)'
  BY <1>1
<1> QED
  BY <1>2, <1>3, <1>4, <1>5, <1>6, NamesGood

LEMMA CreateRemoveGood ==
    ASSUME TInv, NEW where \in Places, DInv(where), NEW t \in Threads, CreateRemove(t)
    PROVE  Good(where, t)
<1> DEFINE c == loc[t]
<1>1. /\ Steps(t) /\ UNCHANGED <<cacheVars, renamed, kills>>
      /\ pc[t] \in Making \cup {"unlink", "drop_removed", "stat"} /\ pc[t] \in AtParent
      /\ pc[t] \notin {"write_iv", "rmdirat", "drop_tmp"} /\ pc[t] \notin {"lock", "mkdirat"}
  BY DEF Steps, CreateRemove, Stat, Unlink, UnlinkFails, DropRemovedName, WriteLongName,
         WriteLongNameFails, FillName, FillNameFails, OpenCreate, OpenCreateFails, DropName, Making,
         AtParent
<1>2. PICK d \in Dirs, n \in Names :
      /\ d = c.dirfd /\ n = Name(t) /\ d \in Known(t) /\ Append(where[d], n) \in PathsOf(t)
      /\ c.op # "rename" /\ ~Removes(c) /\ c.goal = c.path /\ (IsLong(c.path) <=> n \in LongNames)
  BY <1>1, AtParentIs
<1>3. PlaceShape(pc[t], c)
  <2>1. pc[t] # "idle"
    BY <1>1 DEF AtParent, Making, Removing
  <2> QED
    BY <2>1, Locals DEF TInv
<1>4. MakeInv(t) /\ TreeAt(where) /\ UnlinkedEmpty /\ TypeOK
  BY DEF DInv, ThreadInv, TreeInv, TInv
<1>5. CacheAt(where)'
  BY <1>1 DEF DInv, TreeInv, CacheAt, cacheVars
<1>6. \A x \in Dirs, m \in LongNames : OwesName(t, x, m) =>
        x = d /\ m = n /\ pc[t] \in {"fill_name", "open_create", "drop_name", "drop_removed"}
  BY <1>1, <1>2 DEF OwesName, Making
<1>7. \A x, v \in Dirs : ~OwesIV(t, x, v)
  BY <1>1 DEF OwesIV
<1>8. \A i \in Slots : cache'[i].dir \in Known(t)
  BY <1>1 DEF cacheVars, Known
<1>9. ASSUME \A x \in Dirs \ {d} : dirs'[x] = dirs[x], NEW q, GoOn(t, q, c)
      PROVE  FreshKept(t)
  <2>1. {loc'[t].source, loc'[t].target} \subseteq Known(t) /\ loc'[t].dirfd \in Known(t)
    BY <1>1, <1>9, GoOnSame DEF AtParent, Making, Removing
  <2> QED
    BY <1>2, <1>8, <1>9, <2>1, FreshIsKept
<1>10. ASSUME \A x \in Dirs \ {d} : dirs'[x] = dirs[x], NEW r, Return(t, r)
       PROVE  FreshKept(t) /\ ThreadInv(where, t)'
  <2>1. loc'[t] = Idle /\ ThreadInv(where, t)'
    BY <1>10, ReturnInv
  <2>2. {loc'[t].source, loc'[t].target} \subseteq Known(t) /\ loc'[t].dirfd \in Known(t)
    BY <2>1 DEF Idle, Known
  <2> QED
    BY <1>2, <1>8, <1>10, <2>1, <2>2, FreshIsKept
<1>11. CASE Stat(t) \/ UnlinkFails(t) \/ WriteLongNameFails(t)
  <2>1. UNCHANGED dirs /\ (\E r : Return(t, r)) /\ pc[t] \in {"stat", "unlink", "write_name"}
    BY <1>11 DEF Stat, UnlinkFails, WriteLongNameFails
  <2> QED
    BY <1>1, <1>6, <2>1, QuietReturn
<1>12. CASE OpenCreateFails(t)
  <2>1. pc[t] = "open_create" /\ GiveUp(t) /\ UNCHANGED dirs
    BY <1>12 DEF OpenCreateFails
  <2>2. IsLong(c.path) => Entry(t) = None
    BY <1>2, <1>4, <2>1 DEF MakeInv
  <2>3. /\ ThreadInv(where, t)'
        /\ {loc'[t].source, loc'[t].target} \subseteq Known(t) /\ loc'[t].dirfd \in Known(t)
        /\ IsLong(c.path) => pc'[t] = "drop_name" /\ loc'[t] = c
    BY <1>2, <2>1, <2>2, GiveUpInv DEF Entry
  <2>4. FreshKept(t)
    BY <1>8, <2>1, <2>3, FreshIsKept
  <2>5. ASSUME NEW x \in Dirs, NEW m \in LongNames, OwesName(t, x, m) PROVE OwesName(t, x, m)'
    BY <1>2, <1>6, <2>3, <2>5 DEF OwesName, Name
  <2> QED
    BY <1>1, <1>5, <2>1, <2>3, <2>4, <2>5, Quiet
<1>13. CASE WriteLongName(t)
  <2>1. /\ pc[t] = "write_name" /\ dirs[d].iv /\ n \notin dirs[d].names
        /\ GoOn(t, "fill_name", c)
        /\ dirs' = WithNames(d, dirs[d].names \cup {n})
    BY <1>2, <1>13 DEF WriteLongName, WithNames
  <2>2. n \in LongNames /\ IsLong(c.path)
    BY <1>2, <1>3, <2>1 DEF PlaceShape
  <2>0. PICK N \in SUBSET LongNames :
            N = dirs[d].names \cup {n} /\ dirs' = WithNames(d, N)
    BY <1>2, <1>4, <2>1, <2>2 DEF TypeOK
  <2>3. pc'[t] = "fill_name" /\ loc'[t] = c /\ HeldAt(where, t)'
    BY <1>1, <2>1, GoOnSame
  <2>4. /\ \A x \in Dirs \ {d} : dirs'[x] = dirs[x]
        /\ dirs'[d].names = N /\ dirs'[d].entries = dirs[d].entries
    BY <1>2, <2>0, NamesEdit
  <2>5. FreshKept(t)
    BY <1>9, <2>1, <2>4
  <2>6. Entry(t) = None
    BY <1>2, <1>4, <2>1, <2>2 DEF DInv, TreeInv, HasName, Entry
  <2>7. MakeInv(t)'
    BY <1>2, <2>0, <2>3, <2>4, <2>6 DEF MakeInv, Entry, Name
  <2>8. ThreadInv(where, t)'
    BY <1>2, <2>3, <2>7, NotRenameInv DEF InRename
  <2>9. OwesName(t, d, n)'
    BY <1>2, <2>3 DEF OwesName, Name
  <2>10. N \ {n} = dirs[d].names \ {n} /\ n \in N /\ dirs' = WithNames(d, N)
    BY <2>0, <2>1
  <2>11. \A x \in Dirs, m \in LongNames : ~OwesName(t, x, m)
    BY <1>6, <2>1
  <2> QED
    BY <1>1, <1>2, <2>1, <2>2, <2>5, <2>8, <2>9, <2>10, <2>11, NamesGood
<1>14. CASE DropName(t) \/ DropRemovedName(t)
  <2>1. /\ pc[t] \in {"drop_name", "drop_removed"}
        /\ dirs' = WithNames(d, dirs[d].names \ {n})
        /\ \E r : Return(t, r)
    BY <1>2, <1>14 DEF DropName, DropRemovedName, WithNames
  <2>2. n \in LongNames
    BY <1>2, <1>3, <2>1 DEF PlaceShape
  <2>3. \A x \in Dirs \ {d} : dirs'[x] = dirs[x]
    BY <1>2, <1>4, <2>1 DEF TypeOK, WithNames
  <2>4. FreshKept(t) /\ ThreadInv(where, t)'
    BY <1>10, <2>1, <2>3
  <2>5. dirs[d].entries[n] = None
    BY <1>2, <1>4, <2>1 DEF MakeInv, Entry
  <2>6. \A x \in Dirs, m \in LongNames : OwesName(t, x, m) => x = d /\ m = n
    BY <1>6
  <2> QED
    BY <1>1, <1>2, <2>1, <2>2, <2>4, <2>5, <2>6, NameDropped
<1>15. CASE OpenCreate(t)
  <2>1. /\ pc[t] = "open_create" /\ Linked(d) /\ Entry(t) \in {None, File} /\ Return(t, TRUE)
        /\ dirs' = Put(d, n, File)
    BY <1>2, <1>15 DEF OpenCreate
  <2>2. \A x \in Dirs \ {d} : dirs'[x] = dirs[x]
    BY <1>2, <2>1, PutEdit
  <2>3. FreshKept(t) /\ ThreadInv(where, t)'
    BY <1>10, <2>1, <2>2
  <2>4. n \in LongNames => n \in dirs[d].names
    BY <1>2, <1>4, <2>1 DEF MakeInv
  <2>5. File \in Kinds /\ File \notin Dirs /\ File # None /\ dirs[d].entries[n] \notin Dirs
    BY <1>2, <2>1, ConstantsAre DEF Kinds, Entry
  <2> QED
    BY <1>1, <1>2, <1>6, <1>7, <2>1, <2>3, <2>4, <2>5, PutGood
<1>16. CASE Unlink(t)
  <2>1. pc[t] = "unlink" /\ Entry(t) = File /\ dirs' = Put(d, n, None)
    BY <1>2, <1>16 DEF Unlink
  <2>2. /\ \A x \in Dirs \ {d} : dirs'[x] = dirs[x]
        /\ dirs'[d].entries[n] = None
    BY <1>2, <2>1, PutEdit
  <2>3. dirs[d].entries[n] = File /\ File \notin Dirs /\ File # None /\ None \in Kinds /\ None \notin Dirs
    BY <1>2, <2>1, ConstantsAre DEF Entry, Kinds
  <2>4. Linked(d)
    BY <1>2, <1>4, <2>3, LinkedIs
  <2>5. \A x \in Dirs, m \in LongNames : ~OwesName(t, x, m)
    BY <1>6, <2>1
  <2>6. CASE IsLong(c.path)
    <3>1. GoOn(t, "drop_removed", c)
      BY <1>16, <2>6 DEF Unlink
    <3>2. pc'[t] = "drop_removed" /\ loc'[t] = c /\ HeldAt(where, t)'
      BY <1>1, <3>1, GoOnSame
    <3>3. FreshKept(t)
      BY <1>9, <2>2, <3>1
    <3>4. MakeInv(t)'
      BY <1>2, <2>2, <3>2 DEF MakeInv, Entry, Name
    <3>5. ThreadInv(where, t)'
      BY <1>2, <3>2, <3>4, NotRenameInv DEF InRename
    <3>6. OwesName(t, d, n)'
      BY <1>2, <3>2 DEF OwesName, Name
    <3> QED
      BY <1>1, <1>2, <1>7, <2>1, <2>3, <2>4, <2>5, <3>3, <3>5, <3>6, PutGood
  <2>7. CASE ~IsLong(c.path)
    <3>1. Return(t, TRUE)
      BY <1>16, <2>7 DEF Unlink
    <3>2. FreshKept(t) /\ ThreadInv(where, t)'
      BY <1>10, <2>2, <3>1
    <3>3. n \notin LongNames
      BY <1>2, <2>7
    <3> QED
      BY <1>1, <1>2, <1>7, <2>1, <2>3, <2>4, <2>5, <3>2, <3>3, PutGood
  <2> QED
    BY <2>6, <2>7
<1>17. CASE FillName(t) \/ FillNameFails(t)
  <2>1. PICK q \in {"lock", "open_create", "drop_name"} :
            pc[t] = "fill_name" /\ GoOn(t, q, c) /\ dirs' = dirs
    BY <1>17 DEF FillName, FillNameFails, AfterName
  <2>2. pc'[t] = q /\ loc'[t] = c /\ HeldAt(where, t)'
    BY <1>1, <2>1, GoOnSame
  <2>3. FreshKept(t)
    BY <1>9, <2>1
  <2>4. IsLong(c.path)
    BY <1>3, <2>1 DEF PlaceShape
  <2>5. MakeInv(t)'
    <3>1. n \in dirs[d].names /\ dirs[d].entries[n] = None
      BY <1>2, <1>4, <2>1, <2>4 DEF MakeInv, Entry
    <3>2. dirs'[loc'[t].dirfd] = dirs[d] /\ Name(t)' = n /\ ~Removes(loc'[t])
      BY <1>2, <2>1, <2>2 DEF Name, Removes
    <3> QED
      BY <2>1, <2>2, <3>1, <3>2 DEF MakeInv, Entry
  <2>6. ThreadInv(where, t)'
    BY <1>2, <2>2, <2>5, NotRenameInv DEF InRename
  <2>7. ASSUME NEW x \in Dirs, NEW m \in LongNames, OwesName(t, x, m) PROVE OwesName(t, x, m)'
    BY <1>2, <1>6, <2>2, <2>7 DEF OwesName, Name, Removes
  <2> QED
    BY <1>1, <1>5, <2>1, <2>3, <2>6, <2>7, Quiet
<1> QED
  BY <1>11, <1>12, <1>13, <1>14, <1>15, <1>16, <1>17 DEF CreateRemove
-----------------------------------------------------------------------------
(* mkdirWithIv and gcf_rmdir                                               *)

\* An IV is written or moved.
LEMMA IVsGood ==
    ASSUME TInv, NEW where \in Places, DInv(where), NEW t \in Threads, Steps(t),
           \A x \in Dirs : dirs'[x].entries = dirs[x].entries /\ dirs'[x].names = dirs[x].names,
           \A x \in Dirs : Linked(x) \/ dirs'[x] = dirs[x],
           UNCHANGED <<cacheVars, renamed, kills>>, FreshKept(t), ThreadInv(where, t)',
           \A x \in Dirs : Linked(x) /\ ~dirs'[x].iv =>
                \/ ~dirs[x].iv /\ ~(pc[t] \in {"write_iv", "rmdirat"} /\ loc[t].victim = x)
                \/ pc'[t] \in {"write_iv", "rmdirat"} /\ loc'[t].victim = x,
           \A x \in Dirs, v \in Dirs : v \in dirs'[x].moved =>
                \/ v \in dirs[x].moved /\ ~OwesIV(t, x, v)
                \/ OwesIV(t, x, v)',
           \A x \in Dirs, m \in LongNames : OwesName(t, x, m) => OwesName(t, x, m)'
    PROVE  Good(where, t)
<1>1. SameElsewhere(where, t)
  BY DEF SameElsewhere
<1>2. CacheAt(where)'
  BY DEF DInv, TreeInv, CacheAt, cacheVars
<1>3. TreeInv(where)'
  <2>1. \A x \in Dirs, m \in Names : dirs'[x].entries[m] = dirs[x].entries[m]
    OBVIOUS
  <2>2. \A x \in Dirs : Linked(x) \/ dirs'[x] = dirs[x] \/ dirs'[x] = NoDir
    OBVIOUS
  <2>3. \A x \in Dirs, m \in LongNames :
            dirs[x].entries[m] # None /\ m \in dirs[x].names => m \in dirs'[x].names
    OBVIOUS
  <2> QED
    BY <1>2, <2>1, <2>2, <2>3, TreeKept DEF DInv
<1>4. IVInv'
  <2>1. \A x \in Dirs : Linked(x)' => Linked(x)
    BY DEF Linked
  <2> QED
    BY <2>1, IVKept DEF DInv
<1>5. OwedInv'
  <2>1. \A x \in Dirs, m \in LongNames : m \in dirs'[x].names /\ dirs'[x].entries[m] = None =>
            \/ m \in dirs[x].names /\ dirs[x].entries[m] = None /\ ~OwesName(t, x, m)
            \/ OwesName(t, x, m)'
    OBVIOUS
  <2> QED
    BY <2>1, OwedKept DEF DInv
<1> QED
  BY <1>1, <1>3, <1>4, <1>5 DEF Good

\* A directory nobody has may get any path.
LEMMA FreeMoves ==
    ASSUME TInv, NEW where \in Places, DInv(where), NEW v \in FreeDirs, NEW p \in Seq(Names)
    PROVE  \E w \in Places : /\ DInv(w) /\ w[v] = p
                             /\ \A d \in Dirs \ {v} : w[d] = where[d]
<1>1. PICK w \in Places : w[v] = p /\ \A d \in Dirs \ {v} : w[d] = where[d]
  <2>1. v \in Dirs
    BY DEF FreeDirs
  <2>2. [where EXCEPT ![v] = p] \in Places
    BY <2>1 DEF Places
  <2>3. /\ [where EXCEPT ![v] = p][v] = p
        /\ \A d \in Dirs \ {v} : [where EXCEPT ![v] = p][d] = where[d]
    BY <2>1 DEF Places
  <2> QED
    BY <2>2, <2>3
<1>2. /\ v \in Dirs /\ ~Linked(v) /\ \A i \in Slots : cache[i].dir # v
      /\ \A t \in Threads : v \notin {loc[t].dirfd, loc[t].source, loc[t].target}
  BY DEF FreeDirs
<1>3. TypeOK /\ TreeAt(where) /\ CacheAt(where) /\ UnlinkedEmpty /\ HasName
  BY DEF TInv, DInv, TreeInv
<1>4. dirs[v] = NoDir /\ v # Root
  BY <1>2, <1>3 DEF UnlinkedEmpty, Linked
<1>5. TreeAt(w)
  <2>1. w[Root] = << >>
    BY <1>1, <1>3, <1>4, ConstantsAre DEF TreeAt
  <2>2. ASSUME NEW d \in Dirs, NEW e \in Dirs, NEW n \in Names, dirs[d].entries[n] = e
        PROVE  w[e] = Append(w[d], n)
    <3>1. Linked(d) /\ Linked(e)
      BY <1>3, <2>2, LinkedIs, ConstantsAre DEF Linked
    <3>2. d # v /\ e # v
      BY <1>2, <3>1
    <3> QED
      BY <1>1, <1>3, <2>2, <3>2 DEF TreeAt
  <2> QED
    BY <2>1, <2>2 DEF TreeAt
<1>6. CacheAt(w)
  <2>1. \A i \in Slots : cache[i].dir \in Dirs \cup {None}
    BY <1>3 DEF TypeOK
  <2> QED
    BY <1>1, <1>2, <1>3, <2>1 DEF CacheAt
<1>7. ASSUME NEW q \in Paths, NoDirAt(where, q) PROVE NoDirAt(w, q)
  <2>1. Basename(q) \in Names
    BY PrefixesAre, PathIs
  <2>2. dirs[v].entries[Basename(q)] \notin Dirs
    BY <1>4, <2>1, ConstantsAre DEF NoDir
  <2> QED
    BY <1>1, <1>7, <2>2 DEF NoDirAt
<1>8. ASSUME NEW t \in Threads PROVE ThreadInv(w, t)
  <2>1. ThreadInv(where, t) /\ loc[t] \in Local
    BY DEF DInv, TInv, ThreadTypes
  <2>2. {loc[t].source, loc[t].target, loc[t].dirfd} \subseteq Dirs \cup {None}
    BY <2>1 DEF Local
  <2>3. HeldAt(w, t)
    <3>1. pc[t] \in Resolving \cup AtParent => loc[t].dirfd \in Dirs
      BY Locals DEF TInv, Resolving, AtParent, Making, Removing
    <3> QED
      BY <1>1, <1>2, <2>1, <2>2, <3>1 DEF ThreadInv, HeldAt
  <2>4. RenameAt(w, t)
    <3> SUFFICES ASSUME loc[t].op = "rename", pc[t] # "drop_source"
                 PROVE  /\ NoDirAt(w, loc[t].path) \/ Busy = {t}
                        /\ IsLong(loc[t].to) => NoDirAt(w, loc[t].to) /\ ~loc[t].nested
      BY DEF RenameAt
    <3>1. pc[t] # "idle"
      BY DEF TInv, ThreadTypes, Shape, Idle
    <3>2. loc[t].path \in Paths /\ loc[t].to \in Paths
      BY <3>1, Locals DEF TInv
    <3> QED
      BY <1>7, <2>1, <3>2 DEF ThreadInv, RenameAt
  <2> QED
    BY <2>1, <2>3, <2>4 DEF ThreadInv
<1>9. DInv(w)
  BY <1>3, <1>5, <1>6, <1>8 DEF DInv, TreeInv
<1> QED
  BY <1>1, <1>9
\* What a call in mkdirWithIv or gcf_rmdir knows at each place.
LEMMA MkdirRmdirIs ==
    ASSUME TInv, NEW where \in Places, DInv(where), NEW t \in Threads, pc[t] \in AtParent
    PROVE  /\ PlaceShape(pc[t], loc[t]) /\ pc[t] \notin {"idle", "read_iv", "drop_source"}
           /\ ThreadInv(where, t) /\ TreeAt(where) /\ CacheAt(where) /\ UnlinkedEmpty
           /\ HasName /\ TypeOK
           /\ pc[t] \notin Making => \A x \in Dirs, m \in LongNames : OwesName(t, x, m) =>
                /\ x = loc[t].dirfd /\ m = Name(t)
                /\ pc[t] \in {"lock", "mkdirat", "drop_removed", "drop_tmp", "drop_victim"}
           /\ pc[t] \notin {"rmdirat", "drop_tmp"} => \A x, v \in Dirs : ~OwesIV(t, x, v)
<1>1. pc[t] \notin {"idle", "read_iv", "drop_source", "fill_target", "renameat", "drop_target"}
  BY DEF AtParent, Making, Removing
<1>2. PlaceShape(pc[t], loc[t])
  BY <1>1, Locals DEF TInv
<1>3. pc[t] \notin Making => \A x \in Dirs, m \in LongNames : OwesName(t, x, m) =>
        /\ x = loc[t].dirfd /\ m = Name(t)
        /\ pc[t] \in {"lock", "mkdirat", "drop_removed", "drop_tmp", "drop_victim"}
  BY <1>1 DEF OwesName, Making
<1>4. pc[t] \notin {"rmdirat", "drop_tmp"} => \A x, v \in Dirs : ~OwesIV(t, x, v)
  BY DEF OwesIV
<1> QED
  BY <1>1, <1>2, <1>3, <1>4 DEF DInv, TreeInv, TInv

\* A call goes on in mkdirWithIv or gcf_rmdir; the directories it is in stay what they are.
LEMMA GoesOn ==
    ASSUME TInv, NEW where \in Places, DInv(where), NEW t \in Threads, Steps(t),
           pc[t] \in AtParent, NEW q, q # "idle", GoOn(t, q, loc[t]),
           loc[t].op = "rename" => \A d \in Dirs, n \in Names :
                dirs'[d].entries[n] \in Dirs => dirs[d].entries[n] \in Dirs
    PROVE  /\ pc'[t] = q /\ loc'[t] = loc[t] /\ HeldAt(where, t)' /\ RenameAt(where, t)'
           /\ {loc'[t].source, loc'[t].target} \subseteq Known(t) /\ loc'[t].dirfd \in Known(t)
<1>1. pc[t] # "read_iv" /\ pc[t] # "drop_source"
  BY DEF AtParent, Making, Removing
<1>2. /\ pc'[t] = q /\ loc'[t] = loc[t] /\ HeldAt(where, t)'
      /\ {loc'[t].source, loc'[t].target} \subseteq Known(t) /\ loc'[t].dirfd \in Known(t)
  BY <1>1, GoOnSame
<1>3. RenameAt(where, t)'
  <2>1. RenameAt(where, t)
    BY DEF DInv, ThreadInv
  <2> QED
    BY <1>1, <1>2, <2>1, RenameKept
<1> QED
  BY <1>2, <1>3

LEMMA MkdirGood ==
    ASSUME TInv, NEW where \in Places, DInv(where), NEW t \in Threads,
           Mkdirat(t) \/ MkdiratFails(t) \/ WriteDirIV(t) \/ WriteDirIVFails(t) \/ Reopen(t)
    PROVE  \E w \in Places : DInv(w) /\ Good(w, t)
<1> DEFINE c == loc[t]
<1>1. /\ Steps(t) /\ UNCHANGED <<cacheVars, renamed, kills>>
      /\ pc[t] \in Making /\ pc[t] \in AtParent
      /\ pc[t] \in {"mkdirat", "write_iv", "reopen"} /\ (pc[t] # "reopen" => pc[t] \in Locked)
  BY DEF Steps, MkdirRmdir, Mkdirat, MkdiratFails, WriteDirIV, WriteDirIVFails, Reopen, Making,
         AtParent, Locked
<1>2. PICK d \in Dirs, n \in Names :
      /\ d = c.dirfd /\ n = Name(t) /\ d \in Known(t) /\ Append(where[d], n) \in PathsOf(t)
      /\ c.op # "rename" /\ ~Removes(c) /\ c.goal = c.path /\ (IsLong(c.path) <=> n \in LongNames)
  BY <1>1, AtParentIs
<1>3. /\ ThreadInv(where, t) /\ TreeAt(where) /\ UnlinkedEmpty /\ TypeOK /\ MakeInv(t) /\ FreshInv(t)
      /\ HeldAt(where, t)
  BY <1>1, MkdirRmdirIs DEF ThreadInv
<1>4. /\ CacheAt(where)' /\ \A i \in Slots : cache'[i].dir = cache[i].dir
  BY <1>1 DEF DInv, TreeInv, CacheAt, cacheVars
<1>5. \A x \in Dirs, m \in LongNames : OwesName(t, x, m) =>
        x = d /\ m = n /\ pc[t] = "mkdirat"
  BY <1>1, <1>2 DEF OwesName
<1>6. \A x, v \in Dirs : ~OwesIV(t, x, v)
  BY <1>1 DEF OwesIV
<1>7. pc \in [Threads -> Locations] /\ loc \in [Threads -> Local] /\ c \in Local
  BY DEF TInv, ThreadTypes
<1>8. pc[t] = "write_iv" => c.victim \in Dirs /\ dirs[d].entries[n] = c.victim /\ dirs[c.victim] = NoDir
  <2>1. pc[t] = "write_iv" => c.victim \in Dirs
    BY Locals DEF TInv
  <2> QED
    BY <1>2, <1>3, <2>1 DEF MakeInv, FreshInv, Entry
<1>9. ASSUME {loc'[t].source, loc'[t].target} \subseteq Known(t), loc'[t].dirfd \in Known(t),
             pc[t] # "reopen"
      PROVE  FreshKept(t)
  <2>1. \A i \in Slots : cache'[i].dir \in Known(t)
    BY <1>4 DEF Known
  <2> QED
    BY <1>1, <1>9, <2>1, FreshIsKept
<1>10. CASE Mkdirat(t)
  <2> DEFINE p == Append(where[d], n)
  <2>1. PICK v \in FreeDirs :
          /\ pc[t] = "mkdirat" /\ Linked(d) /\ dirs[d].entries[n] = None
          /\ dirs' = Put(d, n, v) /\ GoOn(t, "write_iv", [c EXCEPT !.victim = v])
    <3>1. FreeDirs # {} /\ FreeDirs \in SUBSET Nat
      BY <1>10 DEF Mkdirat, FreeDirs, Dirs
    <3>2. Lowest(FreeDirs) \in FreeDirs
      BY <3>1, LowestIn
    <3> QED
      BY <1>2, <1>10, <3>2 DEF Mkdirat, Entry
  <2>2. /\ v \in Dirs /\ ~Linked(v) /\ (\A i \in Slots : cache[i].dir # v)
        /\ \A u \in Threads : v \notin {loc[u].dirfd, loc[u].source, loc[u].target}
    BY DEF FreeDirs
  <2>3. p \in Seq(Names) /\ v # d
    BY <2>1, <2>2, AppendIs DEF Places
  <2>4. PICK w \in Places : DInv(w) /\ w[v] = p /\ \A x \in Dirs \ {v} : w[x] = where[x]
    <3>1. PICK s \in Seq(Names) : s = p
      BY <2>3
    <3>2. \E y \in Places : DInv(y) /\ y[v] = s /\ \A x \in Dirs \ {v} : y[x] = where[x]
      BY FreeMoves, ZenonT(40)
    <3> QED
      BY <3>1, <3>2
  <2>5. w[v] = Append(w[d], n) /\ Append(w[d], n) \in PathsOf(t)
    BY <1>2, <2>3, <2>4
  <2>6. pc'[t] = "write_iv" /\ loc'[t] = [c EXCEPT !.victim = v]
        /\ \A u \in Threads \ {t} : pc'[u] = pc[u] /\ loc'[u] = loc[u]
    BY <1>7, <2>1 DEF GoOn
  <2>7. /\ loc'[t].op = c.op /\ loc'[t].path = c.path /\ loc'[t].to = c.to /\ loc'[t].goal = c.goal
        /\ loc'[t].at = c.at /\ loc'[t].dirfd = c.dirfd /\ loc'[t].source = c.source
        /\ loc'[t].target = c.target /\ loc'[t].victim = v /\ loc'[t].nested = c.nested
    BY <1>7, <2>2, <2>6 DEF Local
  <2>8. /\ \A x \in Dirs \ {d} : dirs'[x] = dirs[x]
        /\ dirs'[d].names = dirs[d].names /\ dirs'[d].entries[n] = v
    BY <1>2, <2>1, <2>2, PutEdit
  <2>9. HeldAt(w, t)'
    <3>1. HeldAt(w, t)
      BY <2>4 DEF DInv, ThreadInv
    <3> QED
      BY <1>1, <2>7, <3>1 DEF HeldAt
  <2>10. RenameAt(w, t)'
    BY <1>2, <2>7 DEF RenameAt
  <2>11. MakeInv(t)'
    <3>1. IsLong(c.path) => n \in dirs[d].names
      BY <1>2, <1>3, <2>1 DEF MakeInv
    <3>2. Name(t)' = n /\ loc'[t].dirfd = d
      BY <1>2, <2>7 DEF Name
    <3> QED
      BY <2>6, <2>7, <2>8, <3>1, <3>2 DEF MakeInv, Entry, IsLong
  <2>12. FreshInv(t)'
    <3>1. dirs'[v] = NoDir
      BY <1>3, <2>2, <2>3, <2>8 DEF UnlinkedEmpty
    <3>2. ASSUME NEW u \in Threads PROVE v \notin {loc'[u].source, loc'[u].target, loc'[u].dirfd}
      <4>1. CASE u = t
        BY <2>2, <2>7, <4>1
      <4>2. CASE u # t
        BY <2>2, <2>6, <4>2
      <4> QED
        BY <4>1, <4>2
    <3> QED
      BY <1>4, <2>2, <2>7, <3>1, <3>2 DEF FreshInv, NoDir
  <2>13. ThreadInv(w, t)'
    <3>1. MoveInv(t)'
      BY <2>6 DEF MoveInv
    <3> QED
      BY <2>9, <2>10, <2>11, <2>12, <3>1 DEF ThreadInv
  <2>14. FreshKept(t)
    BY <1>2, <1>9, <2>1, <2>7 DEF Known
  <2>15. v \in Kinds /\ v # None
    BY <2>2, ConstantsAre DEF Kinds
  <2>16. n \in LongNames => n \in dirs[d].names
    BY <1>2, <1>3, <2>1 DEF MakeInv
  <2>17. dirs[d].entries[n] \notin Dirs
    BY <2>1, ConstantsAre
  <2>18. \A x \in Dirs, m \in LongNames : OwesName(t, x, m) => x = d /\ m = n
    BY <1>5
  <2>19. Good(w, t)
    BY <1>1, <1>6, <2>1, <2>4, <2>5, <2>6, <2>7, <2>13, <2>14, <2>15, <2>16, <2>17, <2>18, PutGood
  <2> QED
    BY <2>4, <2>19
<1>11. CASE MkdiratFails(t)
  <2>1. pc[t] = "mkdirat" /\ GiveUp(t) /\ UNCHANGED dirs
    BY <1>11 DEF MkdiratFails
  <2>2. IsLong(c.path) => Entry(t) = None
    BY <1>2, <1>3, <2>1 DEF MakeInv
  <2>3. /\ ThreadInv(where, t)'
        /\ {loc'[t].source, loc'[t].target} \subseteq Known(t) /\ loc'[t].dirfd \in Known(t)
        /\ IsLong(c.path) => pc'[t] = "drop_name" /\ loc'[t] = c
    BY <1>2, <2>1, <2>2, GiveUpInv DEF Entry
  <2>4. FreshKept(t)
    BY <1>9, <2>1, <2>3
  <2>5. ASSUME NEW x \in Dirs, NEW m \in LongNames, OwesName(t, x, m) PROVE OwesName(t, x, m)'
    BY <1>2, <1>5, <2>3, <2>5 DEF OwesName, Name
  <2>6. Good(where, t)
    BY <1>1, <1>4, <2>1, <2>3, <2>4, <2>5, Quiet
  <2> QED
    BY <2>6
<1>12. CASE WriteDirIV(t)
  <2>1. pc[t] = "write_iv" /\ GoOn(t, "reopen", c) /\ dirs' = [dirs EXCEPT ![c.victim].iv = TRUE]
    BY <1>12 DEF WriteDirIV
  <2>2. /\ pc'[t] = "reopen" /\ loc'[t] = c /\ HeldAt(where, t)'
        /\ {loc'[t].source, loc'[t].target} \subseteq Known(t) /\ loc'[t].dirfd \in Known(t)
    BY <1>1, <2>1, GoOnSame
  <2>3. ThreadInv(where, t)'
    BY <1>2, <2>2, NotRenameInv DEF InRename, MakeInv
  <2>4. FreshKept(t)
    BY <1>9, <2>1, <2>2
  <2>5. PICK v \in Dirs : v = c.victim /\ dirs[d].entries[n] = v
    BY <1>8, <2>1
  <2>6. /\ \A x \in Dirs \ {v} : dirs'[x] = dirs[x]
        /\ dirs'[v].iv = TRUE /\ dirs'[v].entries = dirs[v].entries
        /\ dirs'[v].names = dirs[v].names /\ dirs'[v].moved = dirs[v].moved
    BY <1>3, <2>1, <2>5 DEF TypeOK
  <2>7. Linked(v)
    BY <1>2, <2>5 DEF Linked
  <2>8. \A x \in Dirs : dirs'[x].entries = dirs[x].entries /\ dirs'[x].names = dirs[x].names
    BY <2>6
  <2>9. \A x \in Dirs : Linked(x) \/ dirs'[x] = dirs[x]
    BY <2>6, <2>7
  <2>10. \A x \in Dirs : Linked(x) /\ ~dirs'[x].iv =>
                \/ ~dirs[x].iv /\ ~(pc[t] \in {"write_iv", "rmdirat"} /\ c.victim = x)
                \/ pc'[t] \in {"write_iv", "rmdirat"} /\ loc'[t].victim = x
    BY <2>5, <2>6
  <2>11. \A x \in Dirs, u \in Dirs : u \in dirs'[x].moved =>
                \/ u \in dirs[x].moved /\ ~OwesIV(t, x, u)
                \/ OwesIV(t, x, u)'
    BY <1>6, <2>6
  <2>12. \A x \in Dirs, m \in LongNames : OwesName(t, x, m) => OwesName(t, x, m)'
    BY <1>5, <2>1
  <2>13. Good(where, t)
    BY <1>1, <2>3, <2>4, <2>8, <2>9, <2>10, <2>11, <2>12, IVsGood
  <2> QED
    BY <2>13
<1>13. CASE WriteDirIVFails(t)
  <2>1. pc[t] = "write_iv" /\ GiveUp(t)
    BY <1>13 DEF WriteDirIVFails
  <2>2. PICK v \in Dirs : v = c.victim /\ dirs[d].entries[n] = v /\ dirs[v] = NoDir
    BY <1>8, <2>1
  <2>3. dirs' = Put(d, n, None)
    BY <1>2, <1>13, <2>2 DEF WriteDirIVFails, Entry, IsEmpty
  <2>4. dirs'[d].entries[n] = None
    BY <1>2, <2>3, PutEdit
  <2>5. /\ ThreadInv(where, t)'
        /\ {loc'[t].source, loc'[t].target} \subseteq Known(t) /\ loc'[t].dirfd \in Known(t)
        /\ IsLong(c.path) => pc'[t] = "drop_name" /\ loc'[t] = c
    BY <1>2, <2>1, <2>4, GiveUpInv
  <2>6. FreshKept(t)
    BY <1>9, <2>1, <2>5
  <2>7. Linked(d)
    BY <1>3, <2>2, LinkedIs, ConstantsAre
  <2>8. n \in LongNames => OwesName(t, d, n)'
    BY <1>2, <2>5 DEF OwesName, Name
  <2>9. \A x \in Dirs, m \in LongNames : OwesName(t, x, m) => x = d /\ m = n
    BY <1>5
  <2>10. None \in Kinds /\ None \notin Dirs
    BY ConstantsAre DEF Kinds
  <2>11. dirs[d].entries[n] \in Dirs => dirs[dirs[d].entries[n]] = NoDir
    BY <2>2
  <2>12. Good(where, t)
    BY <1>1, <1>2, <1>6, <2>1, <2>2, <2>3, <2>5, <2>6, <2>7, <2>8, <2>9, <2>10, <2>11, PutGood
  <2> QED
    BY <2>12
<1>14. CASE Reopen(t)
  <2>1. pc[t] = "reopen" /\ (\E r : Return(t, r)) /\ UNCHANGED dirs
    BY <1>14 DEF Reopen
  <2>2. \A x \in Dirs, m \in LongNames : ~OwesName(t, x, m)
    BY <1>5, <2>1
  <2>3. Good(where, t)
    BY <1>1, <2>1, <2>2, QuietReturn
  <2> QED
    BY <2>3
<1> QED
  BY <1>10, <1>11, <1>12, <1>13, <1>14
LEMMA RmdirGood ==
    ASSUME TInv, NEW where \in Places, DInv(where), NEW t \in Threads,
           \/ LockDirIV(t) \/ OpenVictim(t) \/ MoveIV(t) \/ MoveIVFails(t) \/ Rmdirat(t)
           \/ RmdiratFails(t) \/ DropTmp(t) \/ DropVictimName(t)
           \/ Uncache(t) \/ ClearCached(t)
    PROVE  Good(where, t)
<1> DEFINE c == loc[t]
<1>1. /\ Steps(t) /\ UNCHANGED <<renamed, kills>> /\ pc[t] \in Removing \cup {"lock"}
      /\ pc[t] \in AtParent /\ pc[t] \notin {"write_iv", "read_iv"} /\ pc[t] \notin Making
  BY DEF Steps, MkdirRmdir, LockDirIV, OpenVictim, MoveIV, MoveIVFails, Rmdirat, RmdiratFails,
         DropTmp, DropVictimName, Uncache, ClearCached, Removing, AtParent, Making
<1>2. PICK d \in Dirs, n \in Names :
      /\ d = c.dirfd /\ n = Name(t) /\ d \in Known(t) /\ Append(where[d], n) \in PathsOf(t)
      /\ IsLong(c.goal) <=> n \in LongNames
  BY <1>1, AtParentIs
<1>3. /\ PlaceShape(pc[t], c) /\ ThreadInv(where, t) /\ TreeAt(where) /\ CacheAt(where)
      /\ UnlinkedEmpty /\ TypeOK /\ MakeInv(t) /\ HeldAt(where, t) /\ RenameAt(where, t)
  BY <1>1, MkdirRmdirIs DEF ThreadInv
<1>4. \A x \in Dirs, m \in LongNames : OwesName(t, x, m) =>
        /\ x = d /\ m = n
        /\ pc[t] \in {"lock", "drop_tmp", "drop_victim"} /\ (pc[t] = "lock" => ~Removes(c))
  BY <1>1, <1>2 DEF OwesName, Removing, Making
<1>5. \A x, v \in Dirs : OwesIV(t, x, v) => x = d /\ v = c.victim /\ pc[t] \in {"rmdirat", "drop_tmp"}
  BY <1>2 DEF OwesIV
<1>6. pc \in [Threads -> Locations] /\ loc \in [Threads -> Local] /\ c \in Local /\ OpShape(c)
  BY <1>1, Locals DEF TInv, ThreadTypes, AtParent, Making, Removing
<1>7. pc[t] \in Removing => Removes(c)
  BY <1>3 DEF PlaceShape
<1>8. pc[t] \in {"lock", "move_iv", "rmdirat"} /\ Removes(c) =>
        c.victim \in Dirs /\ dirs[d].entries[n] = c.victim
  <2>1. pc[t] \in {"lock", "move_iv", "rmdirat"} /\ Removes(c) => c.victim \in Dirs
    BY <1>3, <1>6 DEF PlaceShape, Local, Removing
  <2> QED
    BY <1>2, <1>3, <2>1 DEF MakeInv, Entry
<1>9. ASSUME UNCHANGED cacheVars
      PROVE  CacheAt(where)' /\ \A i \in Slots : cache'[i].dir \in Known(t)
  BY <1>1, <1>3, <1>9 DEF CacheAt, cacheVars, Known
<1>10. ASSUME \A x \in Dirs \ {d} : dirs'[x] = dirs[x] \/ pc[t] \in Locked,
              UNCHANGED cacheVars \/ pc[t] \in Locked,
              {loc'[t].source, loc'[t].target} \subseteq Known(t), loc'[t].dirfd \in Known(t)
       PROVE  FreshKept(t)
  <2>1. \A x \in Dirs : dirs'[x] = dirs[x] \/ x \in Known(t) \/ pc[t] \in Locked
    BY <1>2, <1>10
  <2>2. \A i \in Slots : cache'[i].dir \in Known(t) \/ pc[t] \in Locked
    BY <1>9, <1>10
  <2> QED
    BY <1>10, <2>1, <2>2, FreshIsKept
<1>11. ASSUME Fail(t), UNCHANGED <<dirs, cacheVars>>, pc[t] \in {"open_victim", "move_iv"}
       PROVE  Good(where, t)
  <2>1. Return(t, FALSE)
    BY <1>1, <1>3, <1>11, FailReturns
  <2>2. \A x \in Dirs, m \in LongNames : ~OwesName(t, x, m)
    BY <1>4, <1>11
  <2> QED
    BY <1>1, <1>11, <2>1, <2>2, QuietReturn
<1>12. CASE LockDirIV(t)
  <2> DEFINE q == IF c.op = "mkdir" THEN "mkdirat" ELSE "move_iv"
  <2>1. pc[t] = "lock" /\ GoOn(t, q, c) /\ UNCHANGED <<dirs, cacheVars>>
    BY <1>12 DEF LockDirIV
  <2>2. /\ pc'[t] = q /\ loc'[t] = c /\ HeldAt(where, t)' /\ RenameAt(where, t)'
        /\ {loc'[t].source, loc'[t].target} \subseteq Known(t) /\ loc'[t].dirfd \in Known(t)
    BY <1>1, <2>1, GoesOn
  <2>3. q = "mkdirat" <=> ~Removes(c)
    BY <1>3, <1>6, <2>1 DEF PlaceShape, OpShape, Removes
  <2>4. MakeInv(t)'
    <3>1. /\ loc'[t].dirfd = c.dirfd /\ Name(t)' = Name(t) /\ dirs' = dirs /\ Entry(t)' = Entry(t)
          /\ Removes(loc'[t]) <=> Removes(c)
      BY <2>1, <2>2 DEF Name, Entry
    <3>2. MakeInv(t) /\ pc[t] = "lock"
      BY <1>3, <2>1
    <3>3. CASE q = "mkdirat"
      BY <2>2, <2>3, <3>1, <3>2, <3>3 DEF MakeInv
    <3>4. CASE q = "move_iv"
      BY <2>2, <2>3, <3>1, <3>2, <3>4 DEF MakeInv
    <3> QED
      BY <3>3, <3>4
  <2>5. ThreadInv(where, t)'
    BY <2>2, <2>4 DEF ThreadInv, MoveInv, FreshInv
  <2>6. FreshKept(t)
    BY <1>10, <2>1, <2>2
  <2>7. ASSUME NEW x \in Dirs, NEW m \in LongNames, OwesName(t, x, m) PROVE OwesName(t, x, m)'
    <3>1. q = "mkdirat" /\ x = d /\ m = n
      BY <1>4, <2>1, <2>3, <2>7
    <3> QED
      BY <1>2, <2>2, <3>1 DEF OwesName, Name
  <2> QED
    BY <1>1, <1>9, <2>1, <2>5, <2>6, <2>7, Quiet
<1>13. CASE OpenVictim(t) /\ ~Fail(t)
  <2>1. PICK v \in Dirs : /\ pc[t] = "open_victim" /\ v = dirs[d].entries[n]
                          /\ GoOn(t, "lock", [c EXCEPT !.victim = v]) /\ UNCHANGED <<dirs, cacheVars>>
    BY <1>2, <1>13 DEF OpenVictim, Entry
  <2>2. pc'[t] = "lock" /\ loc'[t] = [c EXCEPT !.victim = v]
    BY <1>6, <2>1 DEF GoOn
  <2>3. /\ loc'[t].op = c.op /\ loc'[t].path = c.path /\ loc'[t].to = c.to /\ loc'[t].goal = c.goal
        /\ loc'[t].at = c.at /\ loc'[t].dirfd = c.dirfd /\ loc'[t].source = c.source
        /\ loc'[t].target = c.target /\ loc'[t].victim = v /\ loc'[t].nested = c.nested
    BY <1>6, <2>2 DEF Local
  <2>4. HeldAt(where, t)'
    BY <1>1, <1>3, <2>3 DEF HeldAt
  <2>5. RenameAt(where, t)'
    BY <1>1, <1>3, <2>1, <2>2, <2>3, RenameKept DEF Removing
  <2>6. MakeInv(t)'
    <3>1. Entry(t)' = v /\ Removes(loc'[t])
      BY <1>1, <1>2, <1>7, <2>1, <2>3 DEF Entry, Name, Removing, Removes
    <3> QED
      BY <2>2, <2>3, <3>1 DEF MakeInv
  <2>7. ThreadInv(where, t)'
    BY <2>2, <2>4, <2>5, <2>6 DEF ThreadInv, MoveInv, FreshInv
  <2>8. FreshKept(t)
    BY <1>2, <1>10, <2>1, <2>3 DEF Known
  <2>9. \A x \in Dirs, m \in LongNames : OwesName(t, x, m) => OwesName(t, x, m)'
    BY <1>4, <2>1
  <2> QED
    BY <1>1, <1>9, <2>1, <2>7, <2>8, <2>9, Quiet
<1>14. CASE MoveIV(t)
  <2>1. PICK v \in Dirs : /\ pc[t] = "move_iv" /\ v = c.victim /\ dirs[d].entries[n] = v
                          /\ GoOn(t, "rmdirat", c) /\ UNCHANGED cacheVars
                          /\ dirs' = [dirs EXCEPT ![v].iv = FALSE, ![d].moved = @ \cup {v}]
    BY <1>2, <1>7, <1>8, <1>14 DEF MoveIV, Removing
  <2>2. v # d /\ Linked(v) /\ Linked(d) /\ pc[t] \in Locked
    BY <1>3, <2>1, NotInItself, LinkedIs, ConstantsAre DEF Linked, Locked, Removing
  <2>3. /\ \A x \in Dirs \ {d, v} : dirs'[x] = dirs[x]
        /\ dirs'[v].iv = FALSE /\ dirs'[v].entries = dirs[v].entries
        /\ dirs'[v].names = dirs[v].names /\ dirs'[v].moved = dirs[v].moved
        /\ dirs'[d].iv = dirs[d].iv /\ dirs'[d].entries = dirs[d].entries
        /\ dirs'[d].names = dirs[d].names /\ dirs'[d].moved = dirs[d].moved \cup {v}
    <3>1. dirs \in [Dirs -> DirType]
      BY <1>3 DEF TypeOK, DirType
    <3>2. /\ \A x \in Dirs \ {d, v} : dirs'[x] = dirs[x]
          /\ dirs'[v] = [dirs[v] EXCEPT !.iv = FALSE]
          /\ dirs'[d] = [dirs[d] EXCEPT !.moved = @ \cup {v}]
      BY <2>1, <2>2, <3>1
    <3> QED
      BY <3>1, <3>2 DEF DirType
  <2>4. \A x \in Dirs : dirs'[x].entries = dirs[x].entries /\ dirs'[x].names = dirs[x].names
    BY <2>3
  <2>5. /\ pc'[t] = "rmdirat" /\ loc'[t] = c /\ HeldAt(where, t)' /\ RenameAt(where, t)'
        /\ {loc'[t].source, loc'[t].target} \subseteq Known(t) /\ loc'[t].dirfd \in Known(t)
    <3>1. \A x \in Dirs, m \in Names : dirs'[x].entries[m] \in Dirs => dirs[x].entries[m] \in Dirs
      BY <2>4
    <3> QED
      BY <1>1, <2>1, <3>1, GoesOn
  <2>6. ThreadInv(where, t)'
    <3>1. Entry(t)' = v
      BY <1>2, <2>1, <2>4, <2>5 DEF Entry, Name
    <3> QED
      BY <2>1, <2>5, <3>1 DEF ThreadInv, MakeInv, MoveInv, FreshInv
  <2>7. FreshKept(t)
    BY <1>10, <2>2, <2>5
  <2>8. \A x \in Dirs : Linked(x) \/ dirs'[x] = dirs[x]
    BY <2>2, <2>3
  <2>9. ASSUME NEW x \in Dirs, ~dirs'[x].iv
        PROVE  \/ ~dirs[x].iv /\ ~(pc[t] \in {"write_iv", "rmdirat"} /\ c.victim = x)
               \/ pc'[t] \in {"write_iv", "rmdirat"} /\ loc'[t].victim = x
    BY <2>1, <2>3, <2>5, <2>9
  <2>10. ASSUME NEW x \in Dirs, NEW u \in Dirs, u \in dirs'[x].moved
         PROVE  (u \in dirs[x].moved /\ ~OwesIV(t, x, u)) \/ OwesIV(t, x, u)'
    <3>1. CASE x = d /\ u = v
      BY <1>2, <2>1, <2>5, <3>1 DEF OwesIV
    <3>2. CASE ~(x = d /\ u = v)
      BY <1>5, <2>1, <2>3, <2>10, <3>2
    <3> QED
      BY <3>1, <3>2
  <2>11. \A x \in Dirs, m \in LongNames : OwesName(t, x, m) => OwesName(t, x, m)'
    BY <1>4, <2>1
  <2> QED
    BY <1>1, <2>1, <2>4, <2>6, <2>7, <2>8, <2>9, <2>10, <2>11, IVsGood
<1>15. CASE MoveIVFails(t)
  BY <1>11, <1>15 DEF MoveIVFails
<1>16. CASE Rmdirat(t)
  <2>1. PICK v \in Dirs : /\ pc[t] = "rmdirat" /\ v = c.victim /\ dirs[d].entries[n] = v
                          /\ dirs[v] = NoDir /\ GoOn(t, "drop_tmp", c) /\ UNCHANGED cacheVars
                          /\ dirs' = Put(d, n, None)
    BY <1>2, <1>7, <1>8, <1>16 DEF Rmdirat, Removing, IsEmpty, Entry
  <2>2. /\ \A x \in Dirs \ {d} : dirs'[x] = dirs[x]
        /\ dirs'[d].entries[n] = None
        /\ \A m \in Names \ {n} : dirs'[d].entries[m] = dirs[d].entries[m]
    BY <1>2, <2>1, PutEdit
  <2>3. /\ pc'[t] = "drop_tmp" /\ loc'[t] = c /\ HeldAt(where, t)' /\ RenameAt(where, t)'
        /\ {loc'[t].source, loc'[t].target} \subseteq Known(t) /\ loc'[t].dirfd \in Known(t)
    <3>1. \A x \in Dirs, m \in Names : dirs'[x].entries[m] \in Dirs => dirs[x].entries[m] \in Dirs
      BY <2>2, ConstantsAre
    <3> QED
      BY <1>1, <2>1, <3>1, GoesOn
  <2>4. ThreadInv(where, t)'
    <3>1. Entry(t)' = None
      BY <1>2, <2>2, <2>3 DEF Entry, Name
    <3> QED
      BY <2>3, <3>1 DEF ThreadInv, MakeInv, MoveInv, FreshInv
  <2>5. FreshKept(t)
    BY <1>10, <2>1, <2>2, <2>3
  <2>6. Linked(d) /\ None \in Kinds /\ None \notin Dirs
    BY <1>3, <2>1, LinkedIs, ConstantsAre DEF Kinds
  <2>7. OwesName(t, d, n)'
    BY <1>2, <2>3 DEF OwesName, Name
  <2>8. \A x, u \in Dirs : OwesIV(t, x, u) => OwesIV(t, x, u)'
    BY <2>3 DEF OwesIV
  <2>9. \A x \in Dirs, m \in LongNames : OwesName(t, x, m) => x = d /\ m = n
    BY <1>4
  <2>10. dirs[d].entries[n] \in Dirs => dirs[dirs[d].entries[n]] = NoDir
    BY <2>1
  <2> QED
    BY <1>1, <1>2, <2>1, <2>4, <2>5, <2>6, <2>7, <2>8, <2>9, <2>10, PutGood
<1>17. CASE RmdiratFails(t)
  <2>1. PICK v \in Dirs : /\ pc[t] = "rmdirat" /\ v = c.victim /\ dirs[d].entries[n] = v
                          /\ Fail(t) /\ UNCHANGED cacheVars
                          /\ dirs' = [dirs EXCEPT ![v].iv = TRUE, ![d].moved = @ \ {v}]
    BY <1>2, <1>7, <1>8, <1>17 DEF RmdiratFails, Removing
  <2>2. v # d /\ Linked(v) /\ Linked(d) /\ pc[t] \in Locked
    BY <1>3, <2>1, NotInItself, LinkedIs, ConstantsAre DEF Linked, Locked, Removing
  <2>3. /\ \A x \in Dirs \ {d, v} : dirs'[x] = dirs[x]
        /\ dirs'[v].iv = TRUE /\ dirs'[v].entries = dirs[v].entries
        /\ dirs'[v].names = dirs[v].names /\ dirs'[v].moved = dirs[v].moved
        /\ dirs'[d].iv = dirs[d].iv /\ dirs'[d].entries = dirs[d].entries
        /\ dirs'[d].names = dirs[d].names /\ dirs'[d].moved = dirs[d].moved \ {v}
    <3>1. dirs \in [Dirs -> DirType]
      BY <1>3 DEF TypeOK, DirType
    <3>2. /\ \A x \in Dirs \ {d, v} : dirs'[x] = dirs[x]
          /\ dirs'[v] = [dirs[v] EXCEPT !.iv = TRUE]
          /\ dirs'[d] = [dirs[d] EXCEPT !.moved = @ \ {v}]
      BY <2>1, <2>2, <3>1
    <3> QED
      BY <3>1, <3>2 DEF DirType
  <2>4. \A x \in Dirs : dirs'[x].entries = dirs[x].entries /\ dirs'[x].names = dirs[x].names
    BY <2>3
  <2>5. loc'[t] = Idle /\ ThreadInv(where, t)'
    <3>1. Return(t, FALSE)
      BY <1>1, <1>3, <2>1, FailReturns
    <3> QED
      BY <3>1, ReturnInv
  <2>6. {loc'[t].source, loc'[t].target} \subseteq Known(t) /\ loc'[t].dirfd \in Known(t)
    BY <2>5 DEF Idle, Known
  <2>7. FreshKept(t)
    BY <1>10, <2>2, <2>6
  <2>8. \A x \in Dirs : Linked(x) \/ dirs'[x] = dirs[x]
    BY <2>2, <2>3
  <2>9. ASSUME NEW x \in Dirs, ~dirs'[x].iv
        PROVE  ~dirs[x].iv /\ ~(pc[t] \in {"write_iv", "rmdirat"} /\ c.victim = x)
    BY <2>1, <2>3, <2>9
  <2>10. ASSUME NEW x \in Dirs, NEW u \in Dirs, u \in dirs'[x].moved
         PROVE  u \in dirs[x].moved /\ ~OwesIV(t, x, u)
    BY <1>5, <2>1, <2>3, <2>10
  <2>11. \A x \in Dirs, m \in LongNames : OwesName(t, x, m) => OwesName(t, x, m)'
    BY <1>4, <2>1
  <2> QED
    BY <1>1, <2>1, <2>4, <2>5, <2>7, <2>8, <2>9, <2>10, <2>11, IVsGood
<1>18. CASE DropTmp(t)
  <2> DEFINE q == IF n \in LongNames THEN "drop_victim" ELSE "uncache"
  <2>1. /\ pc[t] = "drop_tmp" /\ GoOn(t, q, c) /\ UNCHANGED cacheVars
        /\ dirs' = [dirs EXCEPT ![d].moved = @ \ {c.victim}]
    BY <1>2, <1>18 DEF DropTmp
  <2>2. /\ \A x \in Dirs \ {d} : dirs'[x] = dirs[x]
        /\ dirs'[d].iv = dirs[d].iv /\ dirs'[d].entries = dirs[d].entries
        /\ dirs'[d].names = dirs[d].names /\ dirs'[d].moved = dirs[d].moved \ {c.victim}
    BY <1>3, <2>1 DEF TypeOK
  <2>3. \A x \in Dirs : dirs'[x].entries = dirs[x].entries /\ dirs'[x].names = dirs[x].names
                        /\ dirs'[x].iv = dirs[x].iv
    BY <2>2
  <2>4. /\ pc'[t] = q /\ loc'[t] = c /\ HeldAt(where, t)' /\ RenameAt(where, t)'
        /\ {loc'[t].source, loc'[t].target} \subseteq Known(t) /\ loc'[t].dirfd \in Known(t)
    <3>1. \A x \in Dirs, m \in Names : dirs'[x].entries[m] \in Dirs => dirs[x].entries[m] \in Dirs
      BY <2>3
    <3> QED
      BY <1>1, <2>1, <3>1, GoesOn
  <2>5. ThreadInv(where, t)'
    <3>1. Entry(t)' = None
      BY <1>2, <1>3, <2>1, <2>3, <2>4 DEF Entry, Name, MakeInv
    <3> QED
      BY <2>4, <3>1 DEF ThreadInv, MakeInv, MoveInv, FreshInv
  <2>6. FreshKept(t)
    BY <1>10, <2>1, <2>2, <2>4
  <2>7. \A x \in Dirs : Linked(x) \/ dirs'[x] = dirs[x]
    <3> SUFFICES ASSUME ~Linked(d) PROVE dirs'[d] = dirs[d]
      BY <2>2
    <3>1. dirs[d].moved = {}
      BY <1>3 DEF UnlinkedEmpty, NoDir
    <3>2. dirs[d] \in DirType /\ dirs'[d] \in DirType
      BY <1>1, <1>3, StepTypes DEF TInv, TypeOK, DirType
    <3>3. dirs'[d].moved = dirs[d].moved
      BY <2>2, <3>1
    <3> QED
      BY <2>2, <3>2, <3>3, SameDir
  <2>8. \A x \in Dirs : ~dirs'[x].iv =>
            ~dirs[x].iv /\ ~(pc[t] \in {"write_iv", "rmdirat"} /\ c.victim = x)
    BY <2>1, <2>3
  <2>9. ASSUME NEW x \in Dirs, NEW u \in Dirs, u \in dirs'[x].moved
        PROVE  u \in dirs[x].moved /\ ~OwesIV(t, x, u)
    BY <1>5, <2>2, <2>9
  <2>10. ASSUME NEW x \in Dirs, NEW m \in LongNames, OwesName(t, x, m) PROVE OwesName(t, x, m)'
    <3>1. x = d /\ m = n /\ q = "drop_victim"
      BY <1>4, <2>10
    <3> QED
      BY <1>2, <2>4, <3>1 DEF OwesName, Name
  <2> QED
    BY <1>1, <2>1, <2>3, <2>5, <2>6, <2>7, <2>8, <2>9, <2>10, IVsGood
<1>19. CASE DropVictimName(t)
  <2>1. /\ pc[t] = "drop_victim" /\ GoOn(t, "uncache", c) /\ UNCHANGED cacheVars
        /\ dirs' = WithNames(d, dirs[d].names \ {n})
    BY <1>2, <1>19 DEF DropVictimName, WithNames
  <2>2. n \in LongNames /\ dirs[d].entries[n] = None
    BY <1>2, <1>3, <2>1 DEF PlaceShape, MakeInv, Entry
  <2>3. /\ \A x \in Dirs \ {d} : dirs'[x] = dirs[x]
        /\ \A x \in Dirs : dirs'[x].entries = dirs[x].entries
    BY <1>3, <2>1 DEF TypeOK, WithNames
  <2>4. /\ pc'[t] = "uncache" /\ loc'[t] = c /\ HeldAt(where, t)' /\ RenameAt(where, t)'
        /\ {loc'[t].source, loc'[t].target} \subseteq Known(t) /\ loc'[t].dirfd \in Known(t)
    <3>1. \A x \in Dirs, m \in Names : dirs'[x].entries[m] \in Dirs => dirs[x].entries[m] \in Dirs
      BY <2>3
    <3> QED
      BY <1>1, <2>1, <3>1, GoesOn
  <2>5. ThreadInv(where, t)'
    BY <2>4, StartInv DEF ThreadInv
  <2>6. FreshKept(t)
    BY <1>10, <2>1, <2>3, <2>4
  <2>7. \A x \in Dirs, m \in LongNames : OwesName(t, x, m) => x = d /\ m = n
    BY <1>4
  <2> QED
    BY <1>1, <1>2, <2>1, <2>2, <2>5, <2>6, <2>7, NameDropped
<1>20. CASE RmdirReturns(t) /\ (Uncache(t) \/ ClearCached(t))
  <2>1. pc[t] \in {"uncache", "clear"} /\ RmdirReturns(t) /\ UNCHANGED dirs /\ pc[t] \in Locked
    BY <1>20 DEF Uncache, ClearCached, Locked, Removing
  <2>2. \A i \in Slots : cache'[i] = cache[i] \/ cache'[i].dir = None
    <3>1. cache' = cache \/ cache' = [cache EXCEPT ![clearing] = NoEntry]
      BY <1>20 DEF Uncache, ClearCached
    <3>2. NoEntry.dir = None
      BY DEF NoEntry
    <3> QED
      BY <1>3, <3>1, <3>2 DEF TypeOK
  <2>3. CacheAt(where)'
    BY <1>1, <1>3, <2>2 DEF CacheAt
  <2>4. \A x \in Dirs, m \in LongNames : OwesName(t, x, m) => OwesName(t, x, m)'
    BY <1>4, <2>1
  <2>5. ThreadInv(where, t)' /\ {loc'[t].source, loc'[t].target} \subseteq Known(t)
        /\ loc'[t].dirfd \in Known(t)
    <3>1. CASE c.nested
      <4>1. GoOn(t, "rename_again", c)
        BY <2>1, <3>1 DEF RmdirReturns
      <4>2. /\ pc'[t] = "rename_again" /\ loc'[t] = c /\ HeldAt(where, t)' /\ RenameAt(where, t)'
            /\ {loc'[t].source, loc'[t].target} \subseteq Known(t) /\ loc'[t].dirfd \in Known(t)
        BY <1>1, <2>1, <4>1, GoesOn
      <4> QED
        BY <4>2, StartInv DEF ThreadInv
    <3>2. CASE ~c.nested
      <4>1. Return(t, TRUE)
        BY <2>1, <3>2 DEF RmdirReturns
      <4>2. loc'[t] = Idle /\ ThreadInv(where, t)'
        BY <4>1, ReturnInv
      <4> QED
        BY <4>2 DEF Idle, Known
    <3> QED
      BY <3>1, <3>2
  <2>6. FreshKept(t)
    BY <1>10, <2>1, <2>5
  <2> QED
    BY <1>1, <2>1, <2>3, <2>4, <2>5, <2>6, Quiet
<1>21. CASE OpenVictim(t) /\ Fail(t)
  BY <1>11, <1>21 DEF OpenVictim
<1>22. CASE Uncache(t) /\ ~RmdirReturns(t)
  <2>1. /\ pc[t] = "uncache" /\ GoOn(t, "clear", c) /\ UNCHANGED <<dirs, cache>>
        /\ pc[t] \in Locked
    BY <1>22 DEF Uncache, Locked, Removing
  <2>2. /\ pc'[t] = "clear" /\ loc'[t] = c /\ HeldAt(where, t)' /\ RenameAt(where, t)'
        /\ {loc'[t].source, loc'[t].target} \subseteq Known(t) /\ loc'[t].dirfd \in Known(t)
    BY <1>1, <2>1, GoesOn
  <2>3. ThreadInv(where, t)'
    BY <2>2, StartInv DEF ThreadInv
  <2>4. CacheAt(where)' /\ \A i \in Slots : cache'[i].dir \in Known(t)
    BY <1>1, <1>3, <2>1 DEF CacheAt, Known
  <2>5. FreshKept(t)
    BY <2>1, <2>2, <2>4, FreshIsKept, <1>1
  <2>6. \A x \in Dirs, m \in LongNames : OwesName(t, x, m) => OwesName(t, x, m)'
    BY <1>4, <2>1
  <2> QED
    BY <1>1, <2>1, <2>3, <2>4, <2>5, <2>6, Quiet
<1>23. ClearCached(t) => RmdirReturns(t)
  BY DEF ClearCached
<1> QED
  BY <1>12, <1>13, <1>14, <1>15, <1>16, <1>17, <1>18, <1>19, <1>20, <1>21, <1>22, <1>23
-----------------------------------------------------------------------------
(* gcf_rename                                                              *)

LEMMA MkdirRmdirGood ==
    ASSUME TInv, NEW where \in Places, DInv(where), NEW t \in Threads, MkdirRmdir(t)
    PROVE  \E w \in Places : DInv(w) /\ Good(w, t)
BY MkdirGood, RmdirGood DEF MkdirRmdir

LEMMA InRenameIs ==
    ASSUME TInv, NEW where \in Places, DInv(where), NEW t \in Threads, pc[t] \in InRename
    PROVE  /\ loc[t].source \in Dirs \cap Known(t) /\ loc[t].target \in Dirs \cap Known(t)
           /\ OldName(t) \in Names /\ NewName(t) \in Names
           /\ loc[t].path \in PathsOf(t) /\ loc[t].to \in PathsOf(t) /\ loc[t].path # loc[t].to
           /\ loc[t].path \in Seq(Names) /\ loc[t].to \in Seq(Names)
           /\ Append(where[loc[t].source], OldName(t)) = loc[t].path
           /\ Append(where[loc[t].target], NewName(t)) = loc[t].to
           /\ loc[t].op = "rename" /\ PlaceShape(pc[t], loc[t]) /\ ThreadInv(where, t)
           /\ pc[t] \notin Resolving \cup AtParent \cup {"idle", "lookup"}
           /\ (pc[t] \in {"write_target", "fill_target", "renameat"} => loc[t].dirfd = None)
           /\ \A x \in Dirs, m \in LongNames : OwesName(t, x, m) =>
                \/ /\ pc[t] \in {"fill_target", "renameat", "drop_target"} /\ ~loc[t].had
                   /\ x = loc[t].target /\ m = NewName(t)
                \/ pc[t] = "drop_source" /\ x = loc[t].source /\ m = OldName(t)
<1>1. pc[t] \notin Resolving \cup AtParent \cup {"idle", "lookup"}
  BY DEF InRename, Resolving, AtParent, Making, Removing
<1>2. OpShape(loc[t]) /\ PlaceShape(pc[t], loc[t]) /\ ThreadInv(where, t) /\ HeldAt(where, t)
  BY <1>1, Locals DEF TInv, DInv, ThreadInv
<1>3. loc[t].op = "rename" /\ loc[t].source \in Dirs /\ loc[t].target \in Dirs
  BY <1>1, <1>2, Locals DEF TInv, PlaceShape
<1>4. /\ loc[t].path \in PathsOf(t) \cap Paths /\ loc[t].to \in PathsOf(t) \cap Paths
      /\ Append(where[loc[t].source], OldName(t)) = loc[t].path
      /\ Append(where[loc[t].target], NewName(t)) = loc[t].to
  BY <1>1, <1>2, <1>3, SlotsOf
<1>5. loc[t].path \in Seq(Names) /\ loc[t].to \in Seq(Names) /\ OldName(t) \in Names /\ NewName(t) \in Names
  BY <1>4, PrefixesAre, PathIs DEF OldName, NewName
<1>6. loc[t].path # loc[t].to
  BY <1>3 DEF DInv, PathsDiffer
<1>7. pc[t] \in {"write_target", "fill_target", "renameat"} => loc[t].dirfd = None
  BY <1>2 DEF PlaceShape
<1>8. \A x \in Dirs, m \in LongNames : OwesName(t, x, m) =>
                \/ /\ pc[t] \in {"fill_target", "renameat", "drop_target"} /\ ~loc[t].had
                   /\ x = loc[t].target /\ m = NewName(t)
                \/ pc[t] = "drop_source" /\ x = loc[t].source /\ m = OldName(t)
  BY DEF InRename, OwesName
<1> QED
  BY <1>1, <1>2, <1>3, <1>4, <1>5, <1>6, <1>7, <1>8 DEF Known

\* What gcf_rename does with .name files, and where it fails or calls gcf_rmdir.
LEMMA RenameNamesGood ==
    ASSUME TInv, NEW where \in Places, DInv(where), NEW t \in Threads,
           \/ WriteTargetName(t) \/ WriteTargetNameFails(t)
           \/ FillTarget(t) \/ FillTargetFails(t) \/ RemoveTarget(t)
           \/ \E from \in {"renameat", "rename_again"} : RenameatFails(t, from)
           \/ DropTargetName(t) \/ DropSourceName(t)
    PROVE  Good(where, t)
<1> DEFINE c == loc[t]
<1>1. /\ Steps(t) /\ UNCHANGED <<cacheVars, renamed, kills>> /\ pc[t] \in InRename
      /\ pc[t] \notin {"write_iv", "read_iv", "rmdirat", "drop_tmp"}
  BY DEF Steps, RenameSteps, WriteTargetName, WriteTargetNameFails, FillTarget, FillTargetFails,
         RemoveTarget, RenameatFails,
         DropTargetName, DropSourceName, InRename
<1>2. PICK s \in Dirs, u \in Dirs, o \in Names, n \in Names :
      /\ s = c.source /\ u = c.target /\ o = OldName(t) /\ n = NewName(t)
      /\ s \in Known(t) /\ u \in Known(t)
      /\ Append(where[s], o) \in PathsOf(t) /\ Append(where[u], n) \in PathsOf(t)
  <2>1. /\ c.source \in Dirs /\ c.target \in Dirs /\ c.source \in Known(t) /\ c.target \in Known(t)
        /\ OldName(t) \in Names /\ NewName(t) \in Names
        /\ Append(where[c.source], OldName(t)) \in PathsOf(t)
        /\ Append(where[c.target], NewName(t)) \in PathsOf(t)
    BY <1>1, InRenameIs
  <2> QED
    BY <2>1, Zenon
<1>3. /\ c.op = "rename" /\ PlaceShape(pc[t], c) /\ ThreadInv(where, t)
      /\ pc[t] \notin Resolving \cup AtParent \cup {"idle", "lookup"}
      /\ (pc[t] \in {"write_target", "fill_target", "renameat"} => c.dirfd = None)
  BY <1>1, InRenameIs
<1>4. \A x \in Dirs, m \in LongNames : OwesName(t, x, m) =>
        \/ pc[t] \in {"fill_target", "renameat", "drop_target"} /\ ~c.had /\ x = u /\ m = n
        \/ pc[t] = "drop_source" /\ x = s /\ m = o
  BY <1>1, <1>2, InRenameIs
<1>5. /\ pc \in [Threads -> Locations] /\ loc \in [Threads -> Local] /\ c \in Local /\ OpShape(c)
      /\ TypeOK /\ HasName /\ TreeAt(where)
  BY <1>3, Locals DEF TInv, ThreadTypes, DInv, TreeInv
<1>6. HeldAt(where, t) /\ RenameAt(where, t) /\ MoveInv(t)
  BY <1>3 DEF ThreadInv
<1>7. (IsLong(c.to) <=> n \in LongNames) /\ (IsLong(c.path) <=> o \in LongNames)
  BY <1>2 DEF IsLong, OldName, NewName
<1>8. CacheAt(where)' /\ \A i \in Slots : cache'[i].dir \in Known(t)
  BY <1>1 DEF DInv, TreeInv, CacheAt, cacheVars, Known
<1>9. ASSUME NEW x \in {s, u}, \A y \in Dirs \ {x} : dirs'[y] = dirs[y], NEW r, Return(t, r)
      PROVE  FreshKept(t) /\ ThreadInv(where, t)'
  <2>1. loc'[t] = Idle /\ ThreadInv(where, t)'
    BY <1>9, ReturnInv
  <2>2. {loc'[t].source, loc'[t].target} \subseteq Known(t) /\ loc'[t].dirfd \in Known(t)
    BY <2>1 DEF Idle, Known
  <2> QED
    BY <1>2, <1>8, <1>9, <2>1, <2>2, FreshIsKept
<1>10. CASE WriteTargetName(t)
  <2>1. /\ pc[t] = "write_target" /\ dirs[u].iv
        /\ dirs' = WithNames(u, dirs[u].names \cup {n})
    BY <1>2, <1>10 DEF WriteTargetName, WithNames
  <2>2. n \in LongNames
    BY <1>3, <1>7, <2>1 DEF PlaceShape
  <2>3. PICK N \in SUBSET LongNames :
            /\ dirs' = WithNames(u, N) /\ N \ {n} = dirs[u].names \ {n} /\ n \in N
    <3>1. dirs[u].names \cup {n} \in SUBSET LongNames
      BY <1>5, <2>2 DEF TypeOK
    <3>2. (dirs[u].names \cup {n}) \ {n} = dirs[u].names \ {n}
      OBVIOUS
    <3> QED
      BY <2>1, <3>1, <3>2
  <2>4. IF n \in dirs[u].names THEN GoOn(t, "renameat", [c EXCEPT !.had = TRUE])
        ELSE GoOn(t, "fill_target", [c EXCEPT !.had = FALSE])
    BY <1>2, <1>10 DEF WriteTargetName
  <2>5. PICK b \in BOOLEAN, q \in {"renameat", "fill_target"} :
            /\ b <=> n \in dirs[u].names
            /\ b <=> q = "renameat"
            /\ GoOn(t, q, [c EXCEPT !.had = b])
    <3>1. CASE n \in dirs[u].names
      <4>1. GoOn(t, "renameat", [c EXCEPT !.had = TRUE])
        BY <2>4, <3>1
      <4> QED
        BY <3>1, <4>1
    <3>2. CASE n \notin dirs[u].names
      <4>1. GoOn(t, "fill_target", [c EXCEPT !.had = FALSE])
        BY <2>4, <3>2
      <4> QED
        BY <3>2, <4>1
    <3> QED
      BY <3>1, <3>2
  <2>6. pc'[t] = q /\ loc'[t] = [c EXCEPT !.had = b]
    BY <1>5, <2>5 DEF GoOn
  <2>7. /\ loc'[t].op = c.op /\ loc'[t].path = c.path /\ loc'[t].to = c.to /\ loc'[t].goal = c.goal
        /\ loc'[t].at = c.at /\ loc'[t].dirfd = c.dirfd /\ loc'[t].source = c.source
        /\ loc'[t].target = c.target /\ loc'[t].nested = c.nested /\ (loc'[t].had <=> b)
    BY <1>5, <2>6 DEF Local
  <2>8. /\ \A x \in Dirs \ {u} : dirs'[x] = dirs[x]
        /\ \A x \in Dirs : dirs'[x].entries = dirs[x].entries
        /\ dirs'[u].names = N
    BY <2>3, NamesEdit
  <2>9. HeldAt(where, t)'
    <3>1. q \notin Resolving \cup AtParent
      BY DEF Resolving, AtParent, Making, Removing
    <3> QED
      BY <1>6, <2>6, <2>7, <3>1 DEF HeldAt
  <2>10. RenameAt(where, t)'
    <3>1. \A x \in Dirs, m \in Names : dirs'[x].entries[m] \in Dirs => dirs[x].entries[m] \in Dirs
      BY <2>8
    <3> QED
      BY <1>1, <1>6, <2>1, <2>6, <2>7, <3>1, RenameKept
  <2>11. ~b => dirs[u].entries[n] = None
    BY <1>5, <2>2, <2>5 DEF HasName
  <2>12. MoveInv(t)'
    <3>1. NewName(t)' = n /\ NewEntry(t)' = dirs[u].entries[n] /\ loc'[t].target = u
      BY <1>2, <2>7, <2>8 DEF NewName, NewEntry
    <3> QED
      BY <2>3, <2>5, <2>6, <2>7, <2>8, <2>11, <3>1 DEF MoveInv
  <2>13. ThreadInv(where, t)'
    BY <2>6, <2>9, <2>10, <2>12 DEF ThreadInv, MakeInv, FreshInv
  <2>14. FreshKept(t)
    <3>1. c.dirfd = None
      BY <1>3, <2>1
    <3>2. {loc'[t].source, loc'[t].target} \subseteq Known(t) /\ loc'[t].dirfd \in Known(t)
      BY <1>2, <2>7, <3>1 DEF Known
    <3>3. \A x \in Dirs : dirs'[x] = dirs[x] \/ x \in Known(t) \/ pc[t] \in Locked
      BY <1>2, <2>8
    <3> QED
      BY <1>8, <3>2, <3>3, FreshIsKept
  <2>15. \A x \in Dirs, m \in LongNames : ~OwesName(t, x, m)
    BY <1>4, <2>1
  <2>16. n \in N => (n \in dirs[u].names /\ ~OwesName(t, u, n)) \/ OwesName(t, u, n)'
    <3>1. ~b => OwesName(t, u, n)'
      BY <1>2, <2>6, <2>7 DEF OwesName, NewName
    <3> QED
      BY <2>2, <2>5, <2>15, <3>1
  <2>17. n \in N \/ dirs[u].entries[n] = None
    BY <2>3
  <2>18. \A x \in Dirs, m \in LongNames : OwesName(t, x, m) => x = u /\ m = n
    BY <2>15
  <2> QED
    BY <1>1, <1>2, <2>1, <2>2, <2>3, <2>13, <2>14, <2>16, <2>17, <2>18, NamesGood
<1>11. CASE WriteTargetNameFails(t)
  <2>1. pc[t] = "write_target" /\ Return(t, FALSE) /\ UNCHANGED dirs
    BY <1>11 DEF WriteTargetNameFails
  <2>2. \A x \in Dirs, m \in LongNames : ~OwesName(t, x, m)
    BY <1>4, <2>1
  <2> QED
    BY <1>1, <2>1, <2>2, QuietReturn
<1>12. CASE RemoveTarget(t)
  <2> DEFINE e == [c EXCEPT !.nested = TRUE, !.goal = c.to, !.at = Parent(c.to)]
  <2>1. pc[t] = "renameat" /\ dirs[u].entries[n] \in Dirs /\ GoOn(t, "lookup", e) /\ UNCHANGED dirs
    BY <1>2, <1>12 DEF RemoveTarget, InTheWay, NewEntry
  <2>2. e \in Local
    <3>1. c.to \in Paths /\ Parent(c.to) \in Prefixes
      BY <1>3, <1>5, PrefixesAre DEF OpShape
    <3> QED
      BY <1>5, <3>1 DEF Local
  <2>3. pc'[t] = "lookup" /\ loc'[t] = e
    BY <1>5, <2>1, <2>2 DEF GoOn
  <2>4. /\ loc'[t].op = c.op /\ loc'[t].path = c.path /\ loc'[t].to = c.to
        /\ loc'[t].dirfd = c.dirfd /\ loc'[t].source = c.source /\ loc'[t].target = c.target
    BY <1>5, <2>3 DEF Local
  <2>5. ~IsLong(c.to)
    <3>1. ~NoDirAt(where, c.to)
      <4>1. where[u] = Parent(c.to)
        BY <1>2, <1>6, ConstantsAre DEF HeldAt
      <4>2. n = Basename(c.to)
        BY <1>2 DEF NewName
      <4> QED
        BY <2>1, <4>1, <4>2 DEF NoDirAt
    <3> QED
      BY <1>3, <1>6, <2>1, <3>1 DEF RenameAt
  <2>6. HeldAt(where, t)'
    <3>1. "lookup" \notin Resolving \cup AtParent
      BY DEF Resolving, AtParent, Making, Removing
    <3> QED
      BY <1>6, <2>3, <2>4, <3>1 DEF HeldAt
  <2>7. RenameAt(where, t)'
    BY <1>1, <1>6, <2>1, <2>3, <2>5, RenameKept
  <2>8. ThreadInv(where, t)'
    BY <2>3, <2>6, <2>7, StartInv DEF ThreadInv
  <2>9. FreshKept(t)
    <3>1. {loc'[t].source, loc'[t].target} \subseteq Known(t) /\ loc'[t].dirfd \in Known(t)
      BY <1>2, <1>3, <2>1, <2>4 DEF Known
    <3> QED
      BY <1>8, <2>1, <3>1, FreshIsKept
  <2>10. \A x \in Dirs, m \in LongNames : OwesName(t, x, m) => OwesName(t, x, m)'
    BY <1>4, <1>7, <2>1, <2>5
  <2> QED
    BY <1>1, <1>8, <2>1, <2>8, <2>9, <2>10, Quiet
<1>13. CASE \E from \in {"renameat", "rename_again"} : RenameatFails(t, from)
  <2>1. pc[t] \in {"renameat", "rename_again"} /\ Undo(t) /\ UNCHANGED dirs
    BY <1>13 DEF RenameatFails
  <2>2. CASE IsLong(c.to) /\ ~c.had
    <3>1. GoOn(t, "drop_target", c)
      BY <2>1, <2>2 DEF Undo
    <3>2. pc[t] = "renameat"
      BY <1>3, <1>6, <2>1, <2>2 DEF PlaceShape, RenameAt
    <3>3. pc'[t] = "drop_target" /\ loc'[t] = c
      BY <1>5, <3>1 DEF GoOn
    <3>4. HeldAt(where, t)'
      <4>1. "drop_target" \notin Resolving \cup AtParent
        BY DEF Resolving, AtParent, Making, Removing
      <4> QED
        BY <1>6, <3>3, <4>1 DEF HeldAt
    <3>5. RenameAt(where, t)'
      BY <1>1, <1>6, <2>1, <3>2, <3>3, RenameKept
    <3>6. MoveInv(t)'
      BY <1>6, <2>1, <2>2, <3>2, <3>3 DEF MoveInv, NewEntry, NewName
    <3>7. ThreadInv(where, t)'
      BY <3>3, <3>4, <3>5, <3>6 DEF ThreadInv, MakeInv, FreshInv
    <3>8. FreshKept(t)
      <4>1. {loc'[t].source, loc'[t].target} \subseteq Known(t) /\ loc'[t].dirfd \in Known(t)
        BY <1>2, <1>3, <3>2, <3>3 DEF Known
      <4> QED
        BY <1>8, <2>1, <4>1, FreshIsKept
    <3>9. ASSUME NEW x \in Dirs, NEW m \in LongNames, OwesName(t, x, m) PROVE OwesName(t, x, m)'
      BY <1>2, <1>4, <2>2, <3>2, <3>3, <3>9 DEF OwesName, NewName
    <3> QED
      BY <1>1, <1>8, <2>1, <3>7, <3>8, <3>9, Quiet
  <2>3. CASE ~(IsLong(c.to) /\ ~c.had)
    <3>1. Return(t, FALSE)
      BY <2>1, <2>3 DEF Undo
    <3>2. \A x \in Dirs, m \in LongNames : ~OwesName(t, x, m)
      BY <1>4, <1>7, <2>1, <2>3
    <3> QED
      BY <1>1, <2>1, <3>1, <3>2, QuietReturn
  <2> QED
    BY <2>2, <2>3
<1>14. CASE DropTargetName(t)
  <2>1. pc[t] = "drop_target" /\ Return(t, FALSE) /\ dirs' = WithNames(u, dirs[u].names \ {n})
    BY <1>2, <1>14 DEF DropTargetName, WithNames
  <2>2. IsLong(c.to) /\ n \in LongNames /\ dirs[u].entries[n] = None
    BY <1>2, <1>3, <1>6, <1>7, <2>1 DEF PlaceShape, MoveInv, NewEntry
  <2>3. \A x \in Dirs \ {u} : dirs'[x] = dirs[x]
    BY <1>5, <2>1 DEF TypeOK, WithNames
  <2>4. FreshKept(t) /\ ThreadInv(where, t)'
    BY <1>9, <2>1, <2>3
  <2>5. \A x \in Dirs, m \in LongNames : OwesName(t, x, m) => x = u /\ m = n
    BY <1>4, <2>1
  <2> QED
    BY <1>1, <1>2, <2>1, <2>2, <2>4, <2>5, NameDropped
<1>15. CASE DropSourceName(t)
  <2>1. pc[t] = "drop_source" /\ Return(t, TRUE) /\ dirs' = WithNames(s, dirs[s].names \ {o})
    BY <1>2, <1>15 DEF DropSourceName, WithNames
  <2>2. o \in LongNames /\ dirs[s].entries[o] = None
    BY <1>2, <1>3, <1>6, <1>7, <2>1 DEF PlaceShape, MoveInv, OldEntry
  <2>3. \A x \in Dirs \ {s} : dirs'[x] = dirs[x]
    BY <1>5, <2>1 DEF TypeOK, WithNames
  <2>4. FreshKept(t) /\ ThreadInv(where, t)'
    BY <1>9, <2>1, <2>3
  <2>5. \A x \in Dirs, m \in LongNames : OwesName(t, x, m) => x = s /\ m = o
    BY <1>4, <2>1
  <2> QED
    BY <1>1, <1>2, <2>1, <2>2, <2>4, <2>5, NameDropped
<1>16. CASE FillTarget(t) \/ FillTargetFails(t)
  <2>1. PICK q \in {"renameat", "drop_target"} :
            pc[t] = "fill_target" /\ GoOn(t, q, c) /\ UNCHANGED dirs
    BY <1>16 DEF FillTarget, FillTargetFails
  <2>2. pc'[t] = q /\ loc'[t] = c
    BY <1>5, <2>1 DEF GoOn
  <2>3. HeldAt(where, t)'
    <3>1. q \notin Resolving \cup AtParent
      BY DEF Resolving, AtParent, Making, Removing
    <3> QED
      BY <1>6, <2>2, <3>1 DEF HeldAt
  <2>4. RenameAt(where, t)'
    BY <1>1, <1>6, <2>1, <2>2, RenameKept
  <2>5. MoveInv(t)'
    <3>1. ~c.had /\ IsLong(c.to)
      BY <1>3, <1>6, <2>1 DEF MoveInv, PlaceShape
    <3> QED
      BY <1>6, <2>1, <2>2, <3>1 DEF MoveInv, NewEntry, NewName
  <2>6. ThreadInv(where, t)'
    BY <2>2, <2>3, <2>4, <2>5 DEF ThreadInv, MakeInv, FreshInv
  <2>7. FreshKept(t)
    <3>1. {loc'[t].source, loc'[t].target} \subseteq Known(t) /\ loc'[t].dirfd \in Known(t)
      BY <1>2, <1>3, <2>1, <2>2 DEF Known
    <3> QED
      BY <1>8, <2>1, <3>1, FreshIsKept
  <2>8. ASSUME NEW x \in Dirs, NEW m \in LongNames, OwesName(t, x, m) PROVE OwesName(t, x, m)'
    BY <1>2, <1>4, <2>1, <2>2, <2>8 DEF OwesName, NewName
  <2> QED
    BY <1>1, <1>8, <2>1, <2>6, <2>7, <2>8, Quiet
<1> QED
  BY <1>10, <1>11, <1>12, <1>13, <1>14, <1>15, <1>16
\* The path of what was below a path of length k, when that path has become q.
Moved(p, k, q) ==
    [i \in 1..Len(q) + (Len(p) - k) |-> IF i <= Len(q) THEN q[i] ELSE p[k + (i - Len(q))]]

LEMMA MovedHas ==
    \A p, q \in Seq(Names), k, j \in Nat : Len(p) = k + j =>
        /\ Moved(p, k, q) \in Seq(Names) /\ Len(Moved(p, k, q)) = Len(q) + j
        /\ \A i \in 1..Len(q) : Moved(p, k, q)[i] = q[i]
        /\ \A i \in 1..j : Moved(p, k, q)[Len(q) + i] = p[k + i]
<1> SUFFICES ASSUME NEW p \in Seq(Names), NEW q \in Seq(Names), NEW k \in Nat, NEW j \in Nat,
                    Len(p) = k + j
             PROVE  /\ Moved(p, k, q) \in Seq(Names) /\ Len(Moved(p, k, q)) = Len(q) + j
                    /\ \A i \in 1..Len(q) : Moved(p, k, q)[i] = q[i]
                    /\ \A i \in 1..j : Moved(p, k, q)[Len(q) + i] = p[k + i]
  OBVIOUS
<1>1. PICK l \in Nat : l = Len(q)
  OBVIOUS
<1>2. Len(q) + (Len(p) - k) = l + j
  BY <1>1
<1> DEFINE f == [i \in 1..l + j |-> IF i <= l THEN q[i] ELSE p[k + (i - l)]]
<1>3. Moved(p, k, q) = f
  BY <1>1, <1>2 DEF Moved
<1>4. ASSUME NEW i \in 1..l + j PROVE f[i] \in Names
  <2>1. CASE i <= l
    BY <1>1, <2>1
  <2>2. CASE ~(i <= l)
    <3>1. k + (i - l) \in 1..Len(p)
      BY <1>1, <2>2
    <3>2. p[k + (i - l)] \in Names
      BY <3>1
    <3> QED
      BY <2>2, <3>2
  <2> QED
    BY <2>1, <2>2
<1>5. f \in [1..l + j -> Names] /\ l + j \in Nat
  BY <1>4
<1>6. \A i \in 1..l : f[i] = q[i]
  OBVIOUS
<1>7. ASSUME NEW i \in 1..j PROVE f[l + i] = p[k + i]
  <2>1. l + i \in 1..l + j /\ ~(l + i <= l) /\ (l + i) - l = i
    OBVIOUS
  <2>2. f[l + i] = p[k + ((l + i) - l)]
    BY <2>1
  <2> QED
    BY <2>1, <2>2
<1> HIDE DEF f
<1>8. f \in Seq(Names) /\ Len(f) = l + j
  <2>1. f \in Seq(Names)
    BY <1>5, IsASeq
  <2>2. DOMAIN f = 1..l + j
    BY <1>5
  <2> QED
    BY <1>5, <2>1, <2>2, LenProperties
<1> QED
  BY <1>1, <1>3, <1>6, <1>7, <1>8

LEMMA MovedIs ==
    ASSUME NEW p \in Seq(Names), NEW q \in Seq(Names), NEW k \in Nat, k <= Len(p)
    PROVE  /\ Moved(p, k, q) \in Seq(Names)
           /\ k = Len(p) => Moved(p, k, q) = q
           /\ \A m \in Names : Moved(Append(p, m), k, q) = Append(Moved(p, k, q), m)
<1>1. PICK j \in Nat : Len(p) = k + j
  <2>1. Len(p) - k \in Nat /\ Len(p) = k + (Len(p) - k)
    OBVIOUS
  <2> QED
    BY <2>1, Zenon
<1>2. PICK l \in Nat : l = Len(q)
  OBVIOUS
<1>3. PICK r : r = Moved(p, k, q)
  OBVIOUS
<1>4. r \in Seq(Names) /\ Len(r) = l + j /\ (\A i \in 1..l : r[i] = q[i])
      /\ \A i \in 1..j : r[l + i] = p[k + i]
  <2>1. \A y \in Nat : Len(p) = k + y =>
            /\ Moved(p, k, q) \in Seq(Names) /\ Len(Moved(p, k, q)) = Len(q) + y
            /\ \A i \in 1..Len(q) : Moved(p, k, q)[i] = q[i]
            /\ \A i \in 1..y : Moved(p, k, q)[Len(q) + i] = p[k + i]
    BY MovedHas, ZenonT(40)
  <2> QED
    BY <1>1, <1>2, <1>3, <2>1, Zenon
<1>5. ASSUME k = Len(p) PROVE r = q
  <2>1. j = 0
    BY <1>1, <1>5
  <2> QED
    BY <1>2, <1>4, <2>1, SeqEqual
<1>6. ASSUME NEW m \in Names PROVE Moved(Append(p, m), k, q) = Append(r, m)
  <2>1. PICK w \in Seq(Names) : w = Append(p, m) /\ Len(w) = k + (j + 1)
                               /\ (\A i \in 1..j : w[k + i] = p[k + i]) /\ w[k + (j + 1)] = m
    <3>1. /\ Append(p, m) \in Seq(Names) /\ Len(Append(p, m)) = Len(p) + 1
          /\ \A i \in 1..Len(p) : Append(p, m)[i] = p[i]
          /\ Append(p, m)[Len(p) + 1] = m
      OBVIOUS
    <3>2. \A i \in 1..j : k + i \in 1..Len(p)
      BY <1>1
    <3>3. Len(p) + 1 = k + (j + 1)
      BY <1>1
    <3> QED
      BY <3>1, <3>2, <3>3
  <2>2. PICK s : s = Moved(w, k, q)
    OBVIOUS
  <2>3. s \in Seq(Names) /\ Len(s) = l + (j + 1) /\ (\A i \in 1..l : s[i] = q[i])
        /\ \A i \in 1..j + 1 : s[l + i] = w[k + i]
    <3>1. j + 1 \in Nat
      BY <1>1
    <3>2. \A y \in Nat : Len(w) = k + y =>
            /\ Moved(w, k, q) \in Seq(Names) /\ Len(Moved(w, k, q)) = Len(q) + y
            /\ \A i \in 1..Len(q) : Moved(w, k, q)[i] = q[i]
            /\ \A i \in 1..y : Moved(w, k, q)[Len(q) + i] = w[k + i]
      BY MovedHas, ZenonT(40)
    <3>3. /\ Moved(w, k, q) \in Seq(Names) /\ Len(Moved(w, k, q)) = Len(q) + (j + 1)
          /\ \A i \in 1..Len(q) : Moved(w, k, q)[i] = q[i]
          /\ \A i \in 1..j + 1 : Moved(w, k, q)[Len(q) + i] = w[k + i]
      BY <2>1, <3>1, <3>2, Zenon
    <3> QED
      BY <1>2, <2>2, <3>3, Zenon
  <2>4. PICK x \in Seq(Names) : x = Append(r, m) /\ Len(x) = l + j + 1
                               /\ (\A i \in 1..l + j : x[i] = r[i]) /\ x[l + j + 1] = m
    <3>1. /\ Append(r, m) \in Seq(Names) /\ Len(Append(r, m)) = Len(r) + 1
          /\ \A i \in 1..Len(r) : Append(r, m)[i] = r[i]
          /\ Append(r, m)[Len(r) + 1] = m
      BY <1>4
    <3> QED
      BY <1>4, <3>1
  <2>5. ASSUME NEW i \in 1..Len(s) PROVE s[i] = x[i]
    <3>1. CASE i <= l
      <4>1. i \in 1..l /\ i \in 1..l + j
        BY <2>3, <3>1
      <4> QED
        BY <1>4, <2>3, <2>4, <4>1
    <3>2. CASE i = l + (j + 1)
      <4>1. s[i] = m
        <5>1. j + 1 \in 1..j + 1
          BY <1>1
        <5> QED
          BY <2>1, <2>3, <3>2, <5>1
      <4> QED
        BY <2>4, <3>2, <4>1
    <3>3. CASE i > l /\ i # l + (j + 1)
      <4>1. PICK h \in 1..j : i = l + h
        <5>1. i - l \in 1..j /\ i = l + (i - l)
          BY <2>3, <3>3
        <5> QED
          BY <5>1
      <4>2. s[i] = p[k + h] /\ r[i] = p[k + h]
        <5>1. h \in 1..j + 1
          BY <4>1
        <5>2. s[l + h] = w[k + h]
          BY <2>3, <5>1
        <5> QED
          BY <1>4, <2>1, <4>1, <5>2
      <4>3. i \in 1..l + j
        BY <4>1
      <4> QED
        BY <2>4, <4>2, <4>3
    <3> QED
      BY <2>3, <3>1, <3>2, <3>3
  <2>6. s = x
    BY <2>3, <2>4, <2>5, SeqEqual
  <2> QED
    BY <2>1, <2>2, <2>4, <2>6
<1> QED
  BY <1>3, <1>4, <1>5, <1>6

\* A directory and all below it.
LEMMA BelowIs ==
    ASSUME TypeOK, UnlinkedEmpty, NEW where \in Places, TreeAt(where), NEW e \in Dirs
    PROVE  /\ Below(e, e)
           /\ \A f, x \in Dirs, m \in Names : Below(f, e) /\ dirs[f].entries[m] = x => Below(x, e)
           /\ \A f, x \in Dirs, m \in Names :
                Below(x, e) /\ x # e /\ dirs[f].entries[m] = x => Below(f, e)
           /\ \A f \in Dirs : Below(f, e) => Len(where[e]) <= Len(where[f])
<1> DEFINE Closed(S) == e \in S /\ \A f \in S, n \in Names :
                            dirs[f].entries[n] \in Dirs => dirs[f].entries[n] \in S
<1>1. \A f : Below(f, e) <=> \A S \in SUBSET Dirs : Closed(S) => f \in S
  BY DEF Below
<1>2. ASSUME NEW f \in Dirs, NEW x \in Dirs, NEW m \in Names, Below(f, e), dirs[f].entries[m] = x
      PROVE  Below(x, e)
  BY <1>1, <1>2
<1>3. ASSUME NEW f \in Dirs, NEW x \in Dirs, NEW m \in Names, Below(x, e), x # e,
             dirs[f].entries[m] = x
      PROVE  Below(f, e)
  <2> SUFFICES ASSUME NEW S \in SUBSET Dirs, Closed(S), f \notin S PROVE FALSE
    BY <1>1
  <2>1. Closed(S \ {x})
    <3> SUFFICES ASSUME NEW g \in S \ {x}, NEW n \in Names, dirs[g].entries[n] \in Dirs
                 PROVE  dirs[g].entries[n] \in S \ {x}
      BY <1>3
    <3>1. dirs[g].entries[n] \in S
      OBVIOUS
    <3>2. ASSUME dirs[g].entries[n] = x PROVE FALSE
      <4>1. g = f
        BY <1>3, <3>2, OneLink
      <4> QED
        BY <4>1
    <3> QED
      BY <3>1, <3>2
  <2> QED
    BY <1>1, <1>3, <2>1
<1>4. ASSUME NEW f \in Dirs, Below(f, e) PROVE Len(where[e]) <= Len(where[f])
  <2>0. \A d \in Dirs : where[d] \in Seq(Names) /\ Len(where[d]) \in Nat
    BY DEF Places
  <2>1. PICK S \in SUBSET Dirs : S = {d \in Dirs : Len(where[e]) <= Len(where[d])}
    OBVIOUS
  <2>2. Closed(S)
    <3>1. e \in S
      BY <2>0, <2>1
    <3>2. ASSUME NEW g \in S, NEW n \in Names, dirs[g].entries[n] \in Dirs
          PROVE  dirs[g].entries[n] \in S
      <4>1. PICK x \in Dirs : x = dirs[g].entries[n]
        BY <3>2
      <4>2. where[x] = Append(where[g], n)
        BY <4>1 DEF TreeAt
      <4>3. Len(where[x]) = Len(where[g]) + 1
        BY <2>0, <4>2, AppendIs
      <4> QED
        BY <2>0, <2>1, <4>1, <4>3
    <3> QED
      BY <3>1, <3>2
  <2> QED
    BY <1>1, <1>4, <2>1, <2>2
<1>5. Below(e, e)
  BY <1>1
<1> QED
  BY <1>2, <1>3, <1>4, <1>5
LEMMA RenameatEdit ==
    ASSUME TInv, NEW s \in Dirs, NEW u \in Dirs, NEW o \in Names, NEW n \in Names, ~(s = u /\ o = n),
           NEW e, dirs' = [Put(u, n, e) EXCEPT ![s].entries[o] = None]
    PROVE  /\ \A x \in Dirs : dirs'[x].iv = dirs[x].iv /\ dirs'[x].names = dirs[x].names
                              /\ dirs'[x].moved = dirs[x].moved
           /\ dirs'[u].entries[n] = e /\ dirs'[s].entries[o] = None
           /\ \A x \in Dirs, m \in Names : ~(x = u /\ m = n) /\ ~(x = s /\ m = o) =>
                dirs'[x].entries[m] = dirs[x].entries[m]
           /\ \A x \in Dirs \ {s, u} : dirs'[x] = dirs[x]
<1>1. dirs \in [Dirs -> DirType]
  BY DEF TInv, TypeOK, DirType
<1>2. PICK f : f = [dirs[u].entries EXCEPT ![n] = e]
  OBVIOUS
<1>3. PICK h : h = [dirs[u] EXCEPT !.entries = f]
  OBVIOUS
<1>4. PICK D : D = [dirs EXCEPT ![u] = h]
  OBVIOUS
<1>5. Put(u, n, e) = D
  BY <1>2, <1>3, <1>4 DEF Put
<1>6. /\ h.iv = dirs[u].iv /\ h.names = dirs[u].names /\ h.moved = dirs[u].moved /\ h.entries = f
      /\ h = [iv |-> dirs[u].iv, entries |-> f, names |-> dirs[u].names, moved |-> dirs[u].moved]
  BY <1>1, <1>3 DEF DirType
<1>7. f[n] = e /\ (\A m \in Names \ {n} : f[m] = dirs[u].entries[m]) /\ DOMAIN f = Names
  <2>1. dirs[u].entries \in [Names -> Kinds]
    BY <1>1 DEF DirType
  <2> QED
    BY <1>2, <2>1
<1>8. D[u] = h /\ (\A x \in Dirs \ {u} : D[x] = dirs[x]) /\ D = [x \in Dirs |-> D[x]]
  BY <1>1, <1>4
<1>9. dirs' = [D EXCEPT ![s].entries[o] = None]
  BY <1>5
<1>10. PICK g : g = [D[s].entries EXCEPT ![o] = None]
  OBVIOUS
<1>11. PICK k : k = [D[s] EXCEPT !.entries = g]
  OBVIOUS
<1>12. dirs' = [D EXCEPT ![s] = k]
  BY <1>9, <1>10, <1>11
<1>13. dirs'[s] = k /\ \A x \in Dirs \ {s} : dirs'[x] = D[x]
  BY <1>8, <1>12
<1>14. /\ D[s].iv = dirs[s].iv /\ D[s].names = dirs[s].names /\ D[s].moved = dirs[s].moved
       /\ \A m \in Names : ~(s = u /\ m = n) => D[s].entries[m] = dirs[s].entries[m]
       /\ s = u => D[s].entries[n] = e
       /\ D[s].entries = [m \in Names |-> D[s].entries[m]]
       /\ D[s] = [iv |-> D[s].iv, entries |-> D[s].entries, names |-> D[s].names, moved |-> D[s].moved]
  <2>1. CASE s = u
    <3>1. D[s] = h
      BY <1>8, <2>1
    <3>2. f = [m \in Names |-> f[m]]
      BY <1>2, <1>1 DEF DirType
    <3> QED
      BY <1>6, <1>7, <2>1, <3>1, <3>2
  <2>2. CASE s # u
    <3>1. D[s] = dirs[s] /\ dirs[s] \in DirType
      BY <1>1, <1>8, <2>2
    <3> QED
      BY <2>2, <3>1 DEF DirType
  <2> QED
    BY <2>1, <2>2
<1>15. /\ k.iv = D[s].iv /\ k.names = D[s].names /\ k.moved = D[s].moved /\ k.entries = g
  BY <1>11, <1>14
<1>16. g[o] = None /\ \A m \in Names \ {o} : g[m] = D[s].entries[m]
  BY <1>10, <1>14
<1>17. dirs'[u].entries[n] = e
  <2>1. CASE s = u
    <3>1. g[n] = D[s].entries[n] /\ D[s].entries[n] = e
      BY <1>14, <1>16, <2>1
    <3> QED
      BY <1>13, <1>15, <2>1, <3>1
  <2>2. CASE s # u
    BY <1>6, <1>7, <1>8, <1>13, <2>2
  <2> QED
    BY <2>1, <2>2
<1>18. ASSUME NEW x \in Dirs, NEW m \in Names, ~(x = u /\ m = n), ~(x = s /\ m = o)
       PROVE  dirs'[x].entries[m] = dirs[x].entries[m]
  <2>1. CASE x = s
    BY <1>13, <1>14, <1>15, <1>16, <1>18, <2>1
  <2>2. CASE x # s /\ x = u
    BY <1>6, <1>7, <1>8, <1>13, <1>18, <2>2
  <2>3. CASE x # s /\ x # u
    BY <1>8, <1>13, <2>3
  <2> QED
    BY <2>1, <2>2, <2>3
<1>19. ASSUME NEW x \in Dirs
       PROVE  dirs'[x].iv = dirs[x].iv /\ dirs'[x].names = dirs[x].names /\ dirs'[x].moved = dirs[x].moved
  <2>1. CASE x = s
    BY <1>13, <1>14, <1>15, <2>1
  <2>2. CASE x # s /\ x = u
    BY <1>6, <1>8, <1>13, <2>2
  <2>3. CASE x # s /\ x # u
    BY <1>8, <1>13, <2>3
  <2> QED
    BY <2>1, <2>2, <2>3
<1>20. dirs'[s].entries[o] = None
  BY <1>13, <1>15, <1>16
<1>21. \A x \in Dirs \ {s, u} : dirs'[x] = dirs[x]
  BY <1>8, <1>13
<1> QED
  BY <1>17, <1>18, <1>19, <1>20, <1>21
\* rename(2) from the entry of old in directory s to an entry of u.
Moves(where, t, s, o, u, n, old) ==
    /\ s = loc[t].source /\ u = loc[t].target /\ o = OldName(t) /\ n = NewName(t)
    /\ s \in Known(t) /\ u \in Known(t)
    /\ old = dirs[s].entries[o] /\ old # None /\ Linked(u) /\ ~(s = u /\ o = n)
    /\ where[s] = Parent(loc[t].path) /\ where[u] = Parent(loc[t].to)
    /\ Append(where[s], o) = loc[t].path /\ Append(where[u], n) = loc[t].to
    /\ dirs' = [Put(u, n, old) EXCEPT ![s].entries[o] = None]
    /\ UNCHANGED <<cacheVars, kills>> /\ (renamed' <=> renamed \/ old \in Dirs)
    /\ IF o \in LongNames THEN pc'[t] = "drop_source" /\ loc'[t] = loc[t]
       ELSE pc'[t] = "idle" /\ loc'[t] = Idle

LEMMA RenameatIs ==
    ASSUME TInv, NEW where \in Places, DInv(where), NEW t \in Threads,
           \E from \in {"renameat", "rename_again"} : Renameat(t, from)
    PROVE  /\ Steps(t) /\ pc[t] \in InRename /\ pc[t] \in {"renameat", "rename_again"}
           /\ \E s, u, old \in Kinds, o, n \in Names :
                /\ s \in Dirs /\ u \in Dirs /\ Moves(where, t, s, o, u, n, old)
                /\ \/ old = File /\ dirs[u].entries[n] \notin Dirs
                   \/ /\ old \in Dirs /\ ~Below(u, old)
                      /\ dirs[u].entries[n] \in Dirs => dirs[dirs[u].entries[n]] = NoDir
<1> DEFINE c == loc[t]
<1>1. /\ Steps(t) /\ UNCHANGED <<cacheVars, kills>> /\ pc[t] \in InRename
      /\ pc[t] \in {"renameat", "rename_again"} /\ CanRename(t)
      /\ IF IsLong(c.path) THEN GoOn(t, "drop_source", c) ELSE Return(t, TRUE)
      /\ dirs' = IF c.source = c.target /\ OldName(t) = NewName(t) THEN dirs
                 ELSE [Put(c.target, NewName(t), OldEntry(t))
                          EXCEPT ![c.source].entries[OldName(t)] = None]
      /\ renamed' = (renamed \/ OldEntry(t) \in Dirs)
  BY DEF Steps, RenameSteps, Renameat, InRename
<1>2. /\ c.source \in Dirs /\ c.target \in Dirs /\ c.source \in Known(t) /\ c.target \in Known(t)
      /\ OldName(t) \in Names /\ NewName(t) \in Names
      /\ Append(where[c.source], OldName(t)) = c.path /\ Append(where[c.target], NewName(t)) = c.to
      /\ c.path # c.to /\ ThreadInv(where, t)
  BY <1>1, InRenameIs
<1>3. PICK s \in Dirs, u \in Dirs, o \in Names, n \in Names :
        s = c.source /\ u = c.target /\ o = OldName(t) /\ n = NewName(t)
  BY <1>2, Zenon
<1>4. PICK old : old = dirs[s].entries[o]
  OBVIOUS
<1>5. /\ OldEntry(t) = old /\ NewEntry(t) = dirs[u].entries[n]
  BY <1>3, <1>4 DEF OldEntry, NewEntry
<1>6. TypeOK /\ TreeAt(where) /\ UnlinkedEmpty
  BY DEF TInv, DInv, TreeInv
<1>7. old \in Kinds
  BY <1>4, <1>6 DEF TypeOK
<1>8. ~(s = u /\ o = n)
  BY <1>2, <1>3
<1>9. where[s] = Parent(c.path) /\ where[u] = Parent(c.to)
  BY <1>2, <1>3, ConstantsAre DEF ThreadInv, HeldAt
<1>10. /\ old # None /\ Linked(u)
       /\ \/ dirs[u].entries[n] = old
          \/ old = File /\ dirs[u].entries[n] \in {None, File}
          \/ /\ old \in Dirs /\ ~Below(u, old)
             /\ dirs[u].entries[n] = None \/ (dirs[u].entries[n] \in Dirs /\ dirs[dirs[u].entries[n]] = NoDir)
  BY <1>1, <1>3, <1>5 DEF CanRename, IsEmpty
<1>11. IF o \in LongNames THEN pc'[t] = "drop_source" /\ loc'[t] = loc[t]
       ELSE pc'[t] = "idle" /\ loc'[t] = Idle
  <2>1. IsLong(c.path) <=> o \in LongNames
    BY <1>3 DEF IsLong, OldName
  <2>2. pc \in [Threads -> Locations] /\ loc \in [Threads -> Local]
    BY DEF TInv, ThreadTypes
  <2> QED
    BY <1>1, <2>1, <2>2 DEF GoOn, Return
<1>12. dirs' = [Put(u, n, old) EXCEPT ![s].entries[o] = None]
  <2>1. dirs' = IF s = u /\ o = n THEN dirs ELSE [Put(u, n, old) EXCEPT ![s].entries[o] = None]
    BY <1>1, <1>3, <1>5, Zenon
  <2> QED
    BY <1>8, <2>1, Zenon
<1>13. renamed' <=> renamed \/ old \in Dirs
  BY <1>1, <1>5
<1>14. s \in Known(t) /\ u \in Known(t) /\ Append(where[s], o) = c.path /\ Append(where[u], n) = c.to
  BY <1>2, <1>3
<1>15. Moves(where, t, s, o, u, n, old)
  BY <1>1, <1>3, <1>4, <1>8, <1>9, <1>10, <1>11, <1>12, <1>13, <1>14, Zenon DEF Moves
<1>16. \/ old = File /\ dirs[u].entries[n] \notin Dirs
       \/ /\ old \in Dirs /\ ~Below(u, old)
          /\ dirs[u].entries[n] \in Dirs => dirs[dirs[u].entries[n]] = NoDir
  <2>1. ASSUME dirs[u].entries[n] = old, old \in Dirs PROVE FALSE
    BY <1>4, <1>6, <1>8, <2>1, OneLink
  <2>2. CASE dirs[u].entries[n] = old
    <3>1. old = File
      BY <1>7, <1>10, <2>1, <2>2 DEF Kinds
    <3> QED
      BY <2>2, <3>1, ConstantsAre
  <2>3. CASE dirs[u].entries[n] # old
    BY <1>10, <2>3, ConstantsAre
  <2> QED
    BY <2>2, <2>3
<1>17. s \in Kinds /\ u \in Kinds
  BY DEF Kinds
<1> QED
  BY <1>1, <1>7, <1>15, <1>16, <1>17
LEMMA MovesKeep ==
    ASSUME TInv, NEW where \in Places, DInv(where), NEW t \in Threads, Steps(t),
           pc[t] \in InRename, pc[t] \in {"renameat", "rename_again"},
           NEW s \in Dirs, NEW u \in Dirs, NEW old \in Kinds, NEW o \in Names, NEW n \in Names,
           Moves(where, t, s, o, u, n, old),
           dirs[u].entries[n] \in Dirs => dirs[dirs[u].entries[n]] = NoDir
    PROVE  /\ UnlinkedEmpty' /\ HasName' /\ IVInv' /\ OwedInv' /\ PathsDiffer'
           /\ MakeInv(t)' /\ MoveInv(t)' /\ FreshInv(t)' /\ \A w : RenameAt(w, t)'
<1> DEFINE c == loc[t]
<1>1. /\ s = c.source /\ u = c.target /\ o = OldName(t) /\ n = NewName(t)
      /\ old = dirs[s].entries[o] /\ old # None /\ Linked(u) /\ ~(s = u /\ o = n)
      /\ kills' = kills
      /\ IF o \in LongNames THEN pc'[t] = "drop_source" /\ loc'[t] = c ELSE pc'[t] = "idle" /\ loc'[t] = Idle
  BY Zenon DEF Moves
<1>2. /\ \A x \in Dirs : dirs'[x].iv = dirs[x].iv /\ dirs'[x].names = dirs[x].names
                              /\ dirs'[x].moved = dirs[x].moved
      /\ dirs'[u].entries[n] = old /\ dirs'[s].entries[o] = None
      /\ \A x \in Dirs, m \in Names : ~(x = u /\ m = n) /\ ~(x = s /\ m = o) =>
                dirs'[x].entries[m] = dirs[x].entries[m]
      /\ \A x \in Dirs \ {s, u} : dirs'[x] = dirs[x]
  BY <1>1, RenameatEdit, Zenon DEF Moves
<1>3. TypeOK /\ TreeAt(where) /\ UnlinkedEmpty /\ HasName
  BY DEF TInv, DInv, TreeInv
<1>4. ASSUME NEW x \in Dirs, Linked(x)' PROVE Linked(x)
  <2>1. CASE x = Root
    BY <2>1 DEF Linked
  <2>2. CASE x # Root
    <3>1. PICK f \in Dirs, m \in Names : dirs'[f].entries[m] = x
      BY <1>4, <2>2 DEF Linked
    <3>2. CASE f = u /\ m = n
      BY <1>1, <1>2, <3>1, <3>2 DEF Linked
    <3>3. CASE f = s /\ m = o
      BY <1>2, <3>1, <3>3, ConstantsAre
    <3>4. CASE ~(f = u /\ m = n) /\ ~(f = s /\ m = o)
      BY <1>2, <3>1, <3>4 DEF Linked
    <3> QED
      BY <3>2, <3>3, <3>4
  <2> QED
    BY <2>1, <2>2
<1>5. ASSUME NEW x \in Dirs, Linked(x), x # dirs[u].entries[n] PROVE Linked(x)'
  <2>1. CASE x = Root
    BY <2>1 DEF Linked
  <2>2. CASE x # Root
    <3>1. PICK f \in Dirs, m \in Names : dirs[f].entries[m] = x
      BY <1>5, <2>2 DEF Linked
    <3>2. ~(f = u /\ m = n)
      BY <1>5, <3>1
    <3>3. CASE f = s /\ m = o
      BY <1>1, <1>2, <3>1, <3>3 DEF Linked
    <3>4. CASE ~(f = s /\ m = o)
      BY <1>2, <3>1, <3>2, <3>4 DEF Linked
    <3> QED
      BY <3>3, <3>4
  <2> QED
    BY <2>1, <2>2
<1>6. UnlinkedEmpty'
  <2>1. Linked(s)'
    <3>1. Linked(s)
      BY <1>1, <1>3, LinkedIs
    <3>2. dirs[s] # NoDir
      BY <1>1 DEF NoDir
    <3>3. s # dirs[u].entries[n]
      BY <3>2
    <3> QED
      BY <1>5, <3>1, <3>3
  <2>2. Linked(u)'
    BY <1>1, <1>3, <1>5, NotInItself
  <2>3. ASSUME NEW x \in Dirs, ~Linked(x)' PROVE dirs'[x] = NoDir
    <3>1. dirs'[x] = dirs[x]
      BY <1>2, <2>1, <2>2, <2>3
    <3>2. CASE Linked(x)
      BY <1>5, <2>3, <3>1, <3>2
    <3>3. CASE ~Linked(x)
      BY <1>3, <3>1, <3>3 DEF UnlinkedEmpty
    <3> QED
      BY <3>2, <3>3
  <2> QED
    BY <2>3 DEF UnlinkedEmpty, NoDir
<1>7. PlaceShape(pc[t], c) /\ ThreadInv(where, t) /\ c.op = "rename"
      /\ \A x \in Dirs, m \in LongNames : OwesName(t, x, m) => x = u /\ m = n
  BY <1>1, InRenameIs
<1>8. HasName'
  <2>1. n \in LongNames => n \in dirs[u].names
    <3>1. IsLong(c.to) <=> n \in LongNames
      BY <1>1 DEF IsLong, NewName
    <3>2. pc[t] = "rename_again" => c.nested
      BY <1>7 DEF PlaceShape
    <3>3. IsLong(c.to) => pc[t] = "renameat"
      BY <1>7, <3>2 DEF ThreadInv, RenameAt
    <3> QED
      BY <1>1, <1>7, <3>1, <3>3 DEF ThreadInv, MoveInv
  <2>2. ASSUME NEW x \in Dirs, NEW m \in LongNames, dirs'[x].entries[m] # None
        PROVE  m \in dirs'[x].names
    <3>1. m \in Names
      BY ConstantsAre
    <3>2. CASE x = u /\ m = n
      BY <1>2, <2>1, <3>2
    <3>3. CASE ~(x = u /\ m = n)
      <4>1. ~(x = s /\ m = o)
        BY <1>2, <2>2
      <4> QED
        BY <1>2, <1>3, <2>2, <3>1, <3>3, <4>1 DEF HasName
    <3> QED
      BY <3>2, <3>3
  <2> QED
    BY <2>2 DEF HasName
<1>9. IVInv'
  <2>1. ASSUME NEW x \in Dirs, Linked(x)', ~dirs'[x].iv
        PROVE  Linked(x) /\ ~dirs[x].iv /\ ~(pc[t] \in {"write_iv", "rmdirat"} /\ loc[t].victim = x)
    BY <1>2, <1>4, <2>1
  <2> QED
    BY <1>1, <2>1, IVKept DEF DInv
<1>10. OwedInv'
  <2>1. \A x, v \in Dirs : ~OwesIV(t, x, v)
    BY DEF OwesIV
  <2>2. ASSUME NEW x \in Dirs, NEW m \in LongNames, m \in dirs'[x].names, dirs'[x].entries[m] = None
        PROVE  \/ m \in dirs[x].names /\ dirs[x].entries[m] = None /\ ~OwesName(t, x, m)
               \/ OwesName(t, x, m)'
    <3>1. m \in Names
      BY ConstantsAre
    <3>2. ~(x = u /\ m = n)
      BY <1>1, <1>2, <2>2
    <3>3. CASE x = s /\ m = o
      BY <1>1, <3>3 DEF OwesName, OldName
    <3>4. CASE ~(x = s /\ m = o)
      BY <1>2, <1>7, <2>2, <3>1, <3>2, <3>4
    <3> QED
      BY <3>3, <3>4
  <2> QED
    BY <1>1, <1>2, <2>1, <2>2, OwedKept DEF DInv
<1>11. PathsDiffer'
  BY PathsKept DEF DInv
<1>12. MoveInv(t)'
  BY <1>1, <1>2 DEF MoveInv, OldEntry, OldName
<1>13. MakeInv(t)' /\ FreshInv(t)'
  BY <1>1 DEF MakeInv, FreshInv
<1>14. \A w : RenameAt(w, t)'
  BY <1>1 DEF RenameAt, Idle
<1> QED
  BY <1>6, <1>8, <1>9, <1>10, <1>11, <1>12, <1>13, <1>14

\* A file is renamed.
LEMMA FileMoves ==
    ASSUME TInv, NEW where \in Places, DInv(where), NEW t \in Threads, Steps(t),
           pc[t] \in InRename, pc[t] \in {"renameat", "rename_again"},
           NEW s \in Dirs, NEW u \in Dirs, NEW o \in Names, NEW n \in Names,
           Moves(where, t, s, o, u, n, File), dirs[u].entries[n] \notin Dirs
    PROVE  Good(where, t) /\ renamed' = renamed
<1> DEFINE c == loc[t]
<1>1. /\ s \in Known(t) /\ u \in Known(t) /\ UNCHANGED <<cacheVars, kills>> /\ renamed' = renamed
      /\ Append(where[s], o) = c.path /\ Append(where[u], n) = c.to
      /\ pc'[t] \in {"drop_source", "idle"} /\ (loc'[t] = c \/ loc'[t] = Idle)
      /\ ~(s = u /\ o = n)
  <2>1. File \notin Dirs /\ renamed \in BOOLEAN /\ renamed' \in BOOLEAN
    BY ConstantsAre, StepTypes DEF TInv, TypeOK
  <2> QED
    BY <2>1, Zenon DEF Moves
<1>2. /\ \A x \in Dirs : dirs'[x].names = dirs[x].names
      /\ dirs'[u].entries[n] = File /\ dirs'[s].entries[o] = None
      /\ \A x \in Dirs, m \in Names : ~(x = u /\ m = n) /\ ~(x = s /\ m = o) =>
                dirs'[x].entries[m] = dirs[x].entries[m]
      /\ \A x \in Dirs \ {s, u} : dirs'[x] = dirs[x]
  <2>1. dirs' = [Put(u, n, File) EXCEPT ![s].entries[o] = None]
    BY Zenon DEF Moves
  <2>2. PICK e : e = File
    OBVIOUS
  <2>3. dirs' = [Put(u, n, e) EXCEPT ![s].entries[o] = None]
    BY <2>1, <2>2
  <2>4. ~(s = u /\ o = n)
    BY <1>1
  <2>5. /\ \A x \in Dirs : dirs'[x].iv = dirs[x].iv /\ dirs'[x].names = dirs[x].names
                              /\ dirs'[x].moved = dirs[x].moved
        /\ dirs'[u].entries[n] = e /\ dirs'[s].entries[o] = None
        /\ \A x \in Dirs, m \in Names : ~(x = u /\ m = n) /\ ~(x = s /\ m = o) =>
                dirs'[x].entries[m] = dirs[x].entries[m]
        /\ \A x \in Dirs \ {s, u} : dirs'[x] = dirs[x]
    BY <2>3, <2>4, RenameatEdit
  <2> QED
    BY <2>2, <2>5
<1>3. /\ UnlinkedEmpty' /\ HasName' /\ IVInv' /\ OwedInv'
      /\ MakeInv(t)' /\ MoveInv(t)' /\ FreshInv(t)' /\ \A w : RenameAt(w, t)'
  <2>1. File \in Kinds
    BY DEF Kinds
  <2> QED
    BY <2>1, MovesKeep
<1>4. c.path \in PathsOf(t) /\ c.to \in PathsOf(t) /\ ThreadInv(where, t)
  BY InRenameIs
<1>5. SameElsewhere(where, t)
  <2> SUFFICES ASSUME NEW x \in Dirs, NEW m \in Names, Append(where[x], m) \notin PathsOf(t)
               PROVE  dirs'[x].entries[m] = dirs[x].entries[m]
    BY <1>2 DEF SameElsewhere
  <2>1. ~(x = u /\ m = n) /\ ~(x = s /\ m = o)
    BY <1>1, <1>4
  <2> QED
    BY <1>2, <2>1
<1>6. FreshKept(t)
  <2>1. \A i \in Slots : cache'[i].dir \in Known(t)
    BY <1>1 DEF cacheVars, Known
  <2>2. pc[t] # "read_iv"
    OBVIOUS
  <2>3. {loc'[t].source, loc'[t].target} \subseteq Known(t) /\ loc'[t].dirfd \in Known(t)
    BY <1>1, <2>2 DEF Idle, Known
  <2> QED
    BY <1>1, <1>2, <2>1, <2>3, FreshIsKept
<1>7. TreeAt(where)'
  <2>1. TreeAt(where)
    BY DEF DInv, TreeInv
  <2>2. ASSUME NEW x \in Dirs, NEW e \in Dirs, NEW m \in Names, dirs'[x].entries[m] = e
        PROVE  where[e] = Append(where[x], m)
    <3>1. ~(x = u /\ m = n) /\ ~(x = s /\ m = o)
      BY <1>2, <2>2, ConstantsAre
    <3> QED
      BY <1>2, <2>1, <2>2, <3>1 DEF TreeAt
  <2> QED
    BY <2>1, <2>2 DEF TreeAt
<1>8. CacheAt(where)'
  BY <1>1 DEF DInv, TreeInv, CacheAt, cacheVars
<1>9. HeldAt(where, t)'
  <2>1. {"drop_source", "idle"} \cap (Resolving \cup AtParent) = {}
    BY DEF Resolving, AtParent, Making, Removing
  <2> QED
    BY <1>1, <1>4, <2>1 DEF ThreadInv, HeldAt, Idle
<1> QED
  BY <1>1, <1>3, <1>5, <1>6, <1>7, <1>8, <1>9 DEF Good, TreeInv, ThreadInv
\* A directory is renamed, alone: it and what is below it get new paths.
LEMMA DirectoryMoves ==
    ASSUME TInv, NEW where \in Places, DInv(where), NEW t \in Threads, Steps(t),
           pc[t] \in InRename, pc[t] \in {"renameat", "rename_again"},
           NEW s \in Dirs, NEW u \in Dirs, NEW old \in Dirs, NEW o \in Names, NEW n \in Names,
           Moves(where, t, s, o, u, n, old), ~Below(u, old),
           dirs[u].entries[n] \in Dirs => dirs[dirs[u].entries[n]] = NoDir
    PROVE  \E w \in Places : DInv(w)'
<1>1. PICK p \in Seq(Names), q \in Seq(Names), k \in Nat :
        p = loc[t].path /\ q = loc[t].to /\ k = Len(p)
  <2>1. loc[t].path \in Seq(Names) /\ loc[t].to \in Seq(Names)
    BY InRenameIs
  <2> QED
    BY <2>1
<1>2. /\ s = loc[t].source /\ u = loc[t].target /\ o = OldName(t) /\ n = NewName(t)
      /\ where[s] = Parent(p) /\ Append(where[s], o) = p /\ Append(where[u], n) = q
      /\ old = dirs[s].entries[o] /\ ~(s = u /\ o = n) /\ renamed' = TRUE
      /\ pc'[t] \in {"drop_source", "idle"} /\ (loc'[t] = loc[t] \/ loc'[t] = Idle)
  <2>1. renamed' \in BOOLEAN
    BY StepTypes DEF TInv, TypeOK
  <2> QED
    BY <1>1, <2>1, Zenon DEF Moves
<1>3. /\ dirs'[u].entries[n] = old /\ dirs'[s].entries[o] = None
      /\ \A x \in Dirs, m \in Names : ~(x = u /\ m = n) /\ ~(x = s /\ m = o) =>
                dirs'[x].entries[m] = dirs[x].entries[m]
  <2>1. ~(s = u /\ o = n) /\ dirs' = [Put(u, n, old) EXCEPT ![s].entries[o] = None]
    BY Zenon DEF Moves
  <2>2. /\ \A x \in Dirs : dirs'[x].iv = dirs[x].iv /\ dirs'[x].names = dirs[x].names
                              /\ dirs'[x].moved = dirs[x].moved
        /\ dirs'[u].entries[n] = old /\ dirs'[s].entries[o] = None
        /\ \A x \in Dirs, m \in Names : ~(x = u /\ m = n) /\ ~(x = s /\ m = o) =>
                dirs'[x].entries[m] = dirs[x].entries[m]
        /\ \A x \in Dirs \ {s, u} : dirs'[x] = dirs[x]
    BY <2>1, RenameatEdit
  <2> QED
    BY <2>2
<1>4. TypeOK /\ TreeAt(where) /\ UnlinkedEmpty /\ HasName
  BY DEF TInv, DInv, TreeInv
<1>5. /\ UnlinkedEmpty' /\ HasName' /\ IVInv' /\ OwedInv' /\ PathsDiffer'
      /\ MakeInv(t)' /\ MoveInv(t)' /\ FreshInv(t)' /\ \A w : RenameAt(w, t)'
  <2>1. old \in Kinds
    BY DEF Kinds
  <2> QED
    BY <2>1, MovesKeep
<1>6. where[old] = p
  BY <1>2, <1>4 DEF TreeAt
<1>7. PICK B \in SUBSET Dirs : B = {x \in Dirs : Below(x, old)}
  OBVIOUS
<1>8. /\ old \in B /\ u \notin B
      /\ \A f, x \in Dirs, m \in Names : f \in B /\ dirs[f].entries[m] = x => x \in B
      /\ \A f, x \in Dirs, m \in Names : x \in B /\ x # old /\ dirs[f].entries[m] = x => f \in B
      /\ \A f \in B : k <= Len(where[f])
  BY <1>1, <1>4, <1>6, <1>7, BelowIs
<1>9. \A x \in Dirs : where[x] \in Seq(Names) /\ Len(where[x]) \in Nat
  BY DEF Places
<1>10. s \notin B /\ Root \notin B
  <2>1. k = Len(where[s]) + 1
    BY <1>1, <1>2, <1>9, AppendIs
  <2>2. Len(where[Root]) = 0
    BY <1>4 DEF TreeAt
  <2> QED
    BY <1>8, <1>9, <2>1, <2>2
<1>11. PICK w : w = [x \in Dirs |-> IF x \in B THEN Moved(where[x], k, q) ELSE where[x]]
  OBVIOUS
<1>12. /\ \A x \in B : w[x] = Moved(where[x], k, q)
       /\ \A x \in Dirs \ B : w[x] = where[x]
  BY <1>11
<1>13. w \in Places
  <2>1. \A x \in B : Moved(where[x], k, q) \in Seq(Names)
    BY <1>1, <1>8, <1>9, MovedIs
  <2> QED
    BY <1>9, <1>11, <2>1 DEF Places
<1>14. TreeAt(w)'
  <2>1. w[Root] = << >>
    BY <1>4, <1>10, <1>12, ConstantsAre DEF TreeAt
  <2>2. ASSUME NEW f \in Dirs, NEW x \in Dirs, NEW m \in Names, dirs'[f].entries[m] = x
        PROVE  w[x] = Append(w[f], m)
    <3>1. ~(f = s /\ m = o)
      BY <1>3, <2>2, ConstantsAre
    <3>2. CASE f = u /\ m = n
      <4>1. x = old
        BY <1>3, <2>2, <3>2
      <4>2. w[x] = Moved(p, k, q)
        BY <1>6, <1>8, <1>12, <4>1
      <4>3. Moved(p, k, q) = q
        BY <1>1, MovedIs
      <4>4. w[f] = where[u]
        BY <1>8, <1>12, <3>2
      <4> QED
        BY <1>2, <3>2, <4>2, <4>3, <4>4
    <3>3. CASE ~(f = u /\ m = n)
      <4>1. dirs[f].entries[m] = x
        BY <1>3, <2>2, <3>1, <3>3
      <4>2. x # old
        <5>1. ASSUME x = old PROVE FALSE
          BY <1>2, <1>4, <3>1, <4>1, <5>1, OneLink
        <5> QED
          BY <5>1
      <4>3. where[x] = Append(where[f], m)
        BY <1>4, <4>1 DEF TreeAt
      <4>4. CASE f \in B
        <5>1. x \in B
          BY <1>8, <4>1, <4>4
        <5>2. where[f] \in Seq(Names) /\ k <= Len(where[f])
          BY <1>8, <1>9, <4>4
        <5>3. Moved(Append(where[f], m), k, q) = Append(Moved(where[f], k, q), m)
          <6>1. PICK r \in Seq(Names) : r = where[f] /\ k <= Len(r)
            BY <5>2
          <6>2. \A m2 \in Names : Moved(Append(r, m2), k, q) = Append(Moved(r, k, q), m2)
            <7>1. k <= Len(r)
              BY <6>1
            <7> QED
              BY <7>1, MovedIs
          <6> QED
            BY <6>1, <6>2, Zenon
        <5> QED
          BY <1>12, <4>3, <4>4, <5>1, <5>3
      <4>5. CASE f \notin B
        <5>1. x \notin B
          BY <1>8, <4>1, <4>2, <4>5
        <5> QED
          BY <1>12, <4>3, <4>5, <5>1
      <4> QED
        BY <4>4, <4>5
    <3> QED
      BY <3>2, <3>3
  <2> QED
    BY <2>1, <2>2 DEF TreeAt
<1>15. Busy = {t}
  <2>1. ThreadInv(where, t) /\ loc[t].op = "rename"
    BY InRenameIs
  <2>2. ~NoDirAt(where, loc[t].path)
    <3>1. o = Basename(loc[t].path)
      BY <1>2 DEF OldName
    <3> QED
      BY <1>1, <1>2, <3>1 DEF NoDirAt
  <2> QED
    BY <2>1, <2>2 DEF ThreadInv, RenameAt
<1>16. ASSUME NEW v \in Threads, v # t PROVE pc'[v] = "idle" /\ ThreadInv(w, v)'
  <2>1. pc[v] = "idle" /\ loc[v] = Idle
    BY <1>15, <1>16 DEF Busy, TInv, ThreadTypes, Shape
  <2>2. pc'[v] = "idle" /\ loc'[v] = Idle
    BY <1>16, <2>1, ThreadMoves
  <2> QED
    BY <2>2, IdleInvPrimed
<1>17. HeldAt(w, t)'
  <2>1. {"drop_source", "idle"} \cap (Resolving \cup AtParent) = {}
    BY DEF Resolving, AtParent, Making, Removing
  <2>2. w[s] = where[s] /\ w[u] = where[u]
    BY <1>8, <1>10, <1>12
  <2>3. where[s] = Parent(loc[t].path) /\ where[u] = Parent(loc[t].to)
    BY Zenon DEF Moves
  <2> QED
    BY <1>2, <2>1, <2>2, <2>3 DEF HeldAt, Idle
<1>18. ThreadInv(w, t)'
  BY <1>5, <1>17 DEF ThreadInv
<1>19. \A v \in Threads : ThreadInv(w, v)'
  BY <1>16, <1>18
<1>20. RenamedAlone'
  BY <1>2, <1>16 DEF RenamedAlone
<1>21. CacheAt(w)'
  BY <1>2 DEF CacheAt
<1>22. DInv(w)'
  BY <1>5, <1>14, <1>19, <1>20, <1>21 DEF DInv, TreeInv
<1> QED
  BY <1>13, <1>22

LEMMA RenameGood ==
    ASSUME TInv, NEW where \in Places, DInv(where), NEW t \in Threads, RenameSteps(t)
    PROVE  \E w \in Places : DInv(w)'
<1>1. Steps(t)
  BY DEF Steps
<1>2. ASSUME Good(where, t), renamed' = renamed PROVE DInv(where)'
  <2>1. RenamedAlone'
    BY <1>1, <1>2, RenamedKept DEF DInv
  <2> QED
    BY <1>1, <1>2, <2>1, GoodStep
<1>3. CASE \/ WriteTargetName(t) \/ WriteTargetNameFails(t)
           \/ FillTarget(t) \/ FillTargetFails(t) \/ RemoveTarget(t)
           \/ \E from \in {"renameat", "rename_again"} : RenameatFails(t, from)
           \/ DropTargetName(t) \/ DropSourceName(t)
  <2>1. renamed' = renamed
    BY <1>3 DEF WriteTargetName, WriteTargetNameFails, FillTarget, FillTargetFails, RemoveTarget,
         RenameatFails,
                DropTargetName, DropSourceName
  <2> QED
    BY <1>2, <1>3, <2>1, RenameNamesGood
<1>4. CASE \E from \in {"renameat", "rename_again"} : Renameat(t, from)
  <2>1. /\ pc[t] \in InRename /\ pc[t] \in {"renameat", "rename_again"}
        /\ \E s, u, old \in Kinds, o, n \in Names :
                /\ s \in Dirs /\ u \in Dirs /\ Moves(where, t, s, o, u, n, old)
                /\ \/ old = File /\ dirs[u].entries[n] \notin Dirs
                   \/ /\ old \in Dirs /\ ~Below(u, old)
                      /\ dirs[u].entries[n] \in Dirs => dirs[dirs[u].entries[n]] = NoDir
    BY <1>4, RenameatIs
  <2>2. PICK s \in Dirs, u \in Dirs, old \in Kinds, o \in Names, n \in Names :
                /\ Moves(where, t, s, o, u, n, old)
                /\ \/ old = File /\ dirs[u].entries[n] \notin Dirs
                   \/ /\ old \in Dirs /\ ~Below(u, old)
                      /\ dirs[u].entries[n] \in Dirs => dirs[dirs[u].entries[n]] = NoDir
    BY <2>1, Zenon
  <2>3. CASE old = File /\ dirs[u].entries[n] \notin Dirs
    <3>1. Moves(where, t, s, o, u, n, File)
      BY <2>2, <2>3
    <3> QED
      BY <1>1, <1>2, <2>1, <2>3, <3>1, FileMoves
  <2>4. CASE /\ old \in Dirs /\ ~Below(u, old)
             /\ dirs[u].entries[n] \in Dirs => dirs[dirs[u].entries[n]] = NoDir
    BY <1>1, <2>1, <2>2, <2>4, DirectoryMoves
  <2> QED
    BY <2>2, <2>3, <2>4
<1> QED
  BY <1>3, <1>4 DEF RenameSteps
-----------------------------------------------------------------------------
(* The start, the client, the clock and the kill                           *)

LEMMA InitGood == ASSUME Init PROVE \E where \in Places : DInv(where)
<1>1. TInv /\ TypeOK
  BY TypesInit DEF TInv
<1>2. /\ PopulatedDirs \in [Populated -> Dirs \ {Root}]
      /\ \A m, n \in Populated : m # n => PopulatedDirs[m] # PopulatedDirs[n]
      /\ Populated \subseteq ShortNames /\ Populated \subseteq Names
  BY PopulatedDirsIs, DirTreeAssumption DEF Names
<1>3. PICK f \in [Populated -> Dirs \ {Root}] : f = PopulatedDirs
  BY <1>2
<1>4. /\ dirs \in [Dirs -> DirType]
      /\ \A d \in Dirs : dirs[d].names = {} /\ dirs[d].moved = {}
      /\ \A d \in Dirs : dirs[d].iv <=> d = Root \/ \E n \in Populated : f[n] = d
      /\ \A d \in Dirs, n \in Names :
            dirs[d].entries[n] = IF d = Root /\ n \in Populated THEN f[n] ELSE None
      /\ \A m, n \in Populated : m # n => f[m] # f[n]
  BY <1>2, <1>3, InitDirs
<1>5. /\ \A t \in Threads : pc[t] = "idle" /\ loc[t] = Idle
      /\ \A i \in Slots : cache[i].dir = None
      /\ renamed = FALSE /\ kills = 0
  BY DEF Init, NoEntry
<1>6. PICK where : where = [d \in Dirs |-> IF \E n \in Populated : f[n] = d
                                           THEN Append(<< >>, CHOOSE n \in Populated : f[n] = d)
                                           ELSE << >>]
  OBVIOUS
<1>7. << >> \in Seq(Names) /\ \A n \in Names : Append(<< >>, n) \in Seq(Names)
  BY EmptySeq, AppendIs
<1>8. where \in Places
  <2>1. ASSUME NEW d \in Dirs PROVE where[d] \in Seq(Names)
    BY <1>2, <1>6, <1>7
  <2> QED
    BY <1>6, <2>1 DEF Places
<1>9. where[Root] = << >>
  BY <1>6, ConstantsAre
<1>10. \A n \in Populated : where[f[n]] = Append(<< >>, n)
  <2>1. ASSUME NEW n \in Populated PROVE where[f[n]] = Append(<< >>, n)
    <3>1. (CHOOSE m \in Populated : f[m] = f[n]) = n
      BY <1>4
    <3> QED
      BY <1>6, <3>1
  <2> QED
    BY <2>1
<1>11. TreeAt(where)
  <2>1. ASSUME NEW d \in Dirs, NEW e \in Dirs, NEW n \in Names, dirs[d].entries[n] = e
        PROVE  where[e] = Append(where[d], n)
    <3>1. d = Root /\ n \in Populated /\ e = f[n]
      BY <1>4, <2>1, ConstantsAre
    <3> QED
      BY <1>9, <1>10, <3>1
  <2> QED
    BY <1>9, <2>1 DEF TreeAt
<1>12. ASSUME NEW d \in Dirs
       PROVE  Linked(d) <=> dirs[d].iv
  <2>1. ASSUME NEW n \in Populated, f[n] = d PROVE \E e \in Dirs, m \in Names : dirs[e].entries[m] = d
    BY <1>2, <1>4, <2>1, ConstantsAre
  <2>2. ASSUME NEW e \in Dirs, NEW m \in Names, dirs[e].entries[m] = d PROVE \E n \in Populated : f[n] = d
    BY <1>4, <2>2, ConstantsAre
  <2> QED
    BY <1>4, <2>1, <2>2 DEF Linked
<1>13. UnlinkedEmpty
  <2>1. ASSUME NEW d \in Dirs, ~Linked(d) PROVE dirs[d] = NoDir
    <3>1. d # Root /\ dirs[d] \in DirType /\ ~dirs[d].iv
      BY <1>4, <1>12, <2>1
    <3>2. dirs[d].iv = FALSE /\ dirs[d].names = {} /\ dirs[d].moved = {}
      BY <1>4, <3>1 DEF DirType
    <3>3. dirs[d].entries = [n \in Names |-> None]
      <4>1. dirs[d].entries \in [Names -> Kinds]
        BY <3>1 DEF DirType
      <4> QED
        BY <1>4, <3>1, <4>1
    <3> QED
      BY <3>1, <3>2, <3>3 DEF NoDir, DirType
  <2> QED
    BY <2>1 DEF UnlinkedEmpty
<1>14. HasName
  <2>1. \A n \in LongNames : n \in Names /\ n \notin Populated
    BY <1>2, DirTreeAssumption DEF Names
  <2> QED
    BY <1>4, <2>1 DEF HasName
<1>15. \A t \in Threads : ThreadInv(where, t)
  BY <1>5, IdleInv
<1>16. PathsDiffer /\ RenamedAlone
  BY <1>5 DEF PathsDiffer, RenamedAlone, PathsOf, Idle
<1>17. IVInv /\ OwedInv
  BY <1>4, <1>12 DEF IVInv, OwedInv
<1>18. CacheAt(where)
  BY <1>5 DEF CacheAt
<1> QED
  BY <1>8, <1>11, <1>13, <1>14, <1>15, <1>16, <1>17, <1>18 DEF DInv, TreeInv

\* What every disciplined call begins with.
LEMMA BeginGood ==
    ASSUME TInv, NEW where \in Places, DInv(where), Disciplined, NEW t \in Threads,
           NEW op \in AllOps, NEW p \in Paths, NEW q \in Paths \cup {None}, Begin(t, op, p, q),
           op # "rename" => q = None,
           \A u \in Busy : ~RenamesDir(u),
           op = "rename" =>
                /\ q \in Paths /\ p # q
                /\ KindAt(p) = "dir" => Busy = {}
                /\ ~(KindAt(q) = "dir" /\ IsLong(q))
    PROVE  DInv(where)'
<1>1. /\ pc[t] = "idle" /\ pc' = [pc EXCEPT ![t] = "lookup"] /\ ~renamed
      /\ \A u \in Busy : PathsOf(u) \cap {p, q} = {}
      /\ UNCHANGED <<answer, dirs, cacheVars, dirIVLock, renamed, kills>>
  BY DEF Begin
<1>2. /\ TypeOK /\ TreeInv(where) /\ TreeAt(where) /\ CacheAt(where) /\ UnlinkedEmpty /\ HasName
      /\ PathsDiffer /\ IVInv /\ OwedInv /\ ThreadTypes
      /\ \A u \in Threads : ThreadInv(where, u)
      /\ pc \in [Threads -> Locations] /\ loc \in [Threads -> Local]
  BY DEF TInv, DInv, TreeInv, ThreadTypes
<1>3. PICK c : c = [Idle EXCEPT !.op = op, !.path = p, !.to = q, !.goal = p, !.at = Parent(p)]
  OBVIOUS
<1>4. loc' = [loc EXCEPT ![t] = c]
  BY <1>3 DEF Begin
<1>5. /\ c.op = op /\ c.path = p /\ c.to = q /\ c.source = None /\ c.target = None /\ c.dirfd = None
      /\ c.nested = FALSE
  BY <1>3 DEF Idle
<1>6. /\ pc'[t] = "lookup" /\ loc'[t] = c
      /\ \A u \in Threads \ {t} : pc'[u] = pc[u] /\ loc'[u] = loc[u]
  BY <1>1, <1>2, <1>4
<1>7. \A u \in Threads : pc[u] = "idle" => loc[u] = Idle
  BY <1>2 DEF ThreadTypes, Shape
<1>8. dirs' = dirs /\ cache' = cache /\ kills' = kills /\ renamed' = renamed
  BY <1>1 DEF cacheVars
<1>9. TreeInv(where)' /\ RenamedAlone'
  BY <1>1, <1>2, <1>8 DEF TreeInv, TreeAt, CacheAt, UnlinkedEmpty, HasName, Linked, RenamedAlone
<1>10. PathsDiffer'
  <2>1. PathsOf(t)' = {p, q} \ {None}
    BY <1>5, <1>6 DEF PathsOf
  <2>2. \A u \in Threads \ {t} : PathsOf(u)' = PathsOf(u)
    BY <1>6 DEF PathsOf
  <2>3. ASSUME NEW u \in Threads \ {t} PROVE PathsOf(u) \cap {p, q} \subseteq {None}
    <3>1. CASE u \in Busy
      BY <1>1, <3>1
    <3>2. CASE u \notin Busy
      BY <1>7, <3>2 DEF Busy, PathsOf, Idle
    <3> QED
      BY <3>1, <3>2
  <2>4. \A u \in Threads : None \notin PathsOf(u)
    BY DEF PathsOf
  <2>5. \A v, u \in Threads : v # u => PathsOf(v)' \cap PathsOf(u)' = {}
    BY <1>2, <2>1, <2>2, <2>3, <2>4 DEF PathsDiffer
  <2>6. \A u \in Threads : loc'[u].op = "rename" => loc'[u].path # loc'[u].to
    BY <1>2, <1>5, <1>6 DEF PathsDiffer
  <2> QED
    BY <2>5, <2>6 DEF PathsDiffer
<1>11. \A x \in Paths : NoDirAt(where, x)' <=> NoDirAt(where, x)
  BY <1>8 DEF NoDirAt
<1>12. ThreadInv(where, t)'
  <2>1. MakeInv(t)' /\ MoveInv(t)' /\ FreshInv(t)'
    BY <1>6, StartInv
  <2>2. HeldAt(where, t)'
    BY <1>5, <1>6 DEF HeldAt, Resolving, AtParent, Making, Removing
  <2>3. ASSUME op = "rename" PROVE /\ NoDirAt(where, p) \/ Busy' = {t}
                                   /\ IsLong(q) => NoDirAt(where, q)
    <3>1. KindAt(p) = "dir" => Busy' = {t}
      BY <1>6, <2>3 DEF Busy
    <3>2. KindAt(p) # "dir" => NoDirAt(where, p)
      BY <1>2, SeesNoDir
    <3>3. IsLong(q) => NoDirAt(where, q)
      BY <1>2, <2>3, SeesNoDir
    <3> QED
      BY <3>1, <3>2, <3>3
  <2>4. RenameAt(where, t)'
    BY <1>5, <1>6, <1>11, <2>3 DEF RenameAt, IsLong
  <2> QED
    BY <2>1, <2>2, <2>4 DEF ThreadInv
<1>13. ASSUME NEW u \in Threads \ {t} PROVE ThreadInv(where, u)'
  <2>1. pc'[u] = pc[u] /\ loc'[u] = loc[u] /\ ThreadInv(where, u)
    BY <1>2, <1>6
  <2>2. HeldAt(where, u)' /\ MakeInv(u)' /\ MoveInv(u)'
    BY <1>8, <2>1 DEF ThreadInv, HeldAt, MakeInv, MoveInv, Name, Entry, NewName, OldName, OldEntry,
         NewEntry
  <2>3. FreshInv(u)'
    <3>1. pc[u] = "write_iv" => loc[u].victim # None
      BY Locals, ConstantsAre DEF TInv
    <3> QED
      BY <1>5, <1>6, <1>8, <2>1, <3>1 DEF ThreadInv, FreshInv
  <2>4. RenameAt(where, u)'
    <3>1. ASSUME loc[u].op = "rename"
          PROVE  NoDirAt(where, loc[u].path) /\ loc[u].path \in Paths /\ loc[u].to \in Paths
      <4>1. pc[u] # "idle"
        BY <1>7, <3>1 DEF Idle
      <4>2. u \in Busy /\ loc[u].path \in Paths /\ loc[u].to \in Paths
        BY <3>1, <4>1, Locals DEF Busy, TInv
      <4>3. KindAt(loc[u].path) # "dir"
        BY <3>1, <4>2 DEF RenamesDir
      <4> QED
        BY <1>2, <4>2, <4>3, SeesNoDir
    <3> QED
      BY <1>11, <2>1, <3>1 DEF ThreadInv, RenameAt, IsLong
  <2> QED
    BY <2>2, <2>3, <2>4 DEF ThreadInv
<1>14. IVInv' /\ OwedInv'
  <2>1. \A x \in Dirs : Linked(x)' <=> Linked(x)
    BY <1>8 DEF Linked
  <2>2. \A u \in Threads, x \in Dirs : pc[u] \in {"write_iv", "rmdirat"} /\ loc[u].victim = x =>
            pc'[u] \in {"write_iv", "rmdirat"} /\ loc'[u].victim = x
    BY <1>1, <1>6
  <2>3. \A u \in Threads, x, v \in Dirs : OwesIV(u, x, v) => OwesIV(u, x, v)'
    BY <1>1, <1>6 DEF OwesIV
  <2>4. \A u \in Threads, x \in Dirs, n \in LongNames : OwesName(u, x, n) => OwesName(u, x, n)'
    BY <1>1, <1>6 DEF OwesName, Name, NewName, OldName, Removes
  <2>5. IVInv'
    BY <1>2, <1>8, <2>1, <2>2 DEF IVInv
  <2>6. dirs \in [Dirs -> DirType]
    BY <1>2 DEF TypeOK, DirType
  <2>7. \A x \in Dirs : dirs[x].moved \subseteq Dirs /\ dirs[x].names \subseteq LongNames
    BY <2>6 DEF DirType
  <2>8. OwedInv'
    BY <1>2, <1>8, <2>3, <2>4, <2>7 DEF OwedInv
  <2> QED
    BY <2>5, <2>8
<1> QED
  BY <1>9, <1>10, <1>12, <1>13, <1>14 DEF DInv
LEMMA CallGood ==
    ASSUME TInv, NEW where \in Places, DInv(where), Disciplined, NEW t \in Threads, Call(t) \/ Rename(t)
    PROVE  DInv(where)'
<1>1. CASE Call(t)
  <2>1. PICK op \in AllOps \ {"rename"}, p \in Paths :
            Begin(t, op, p, None) /\ \A u \in Busy : ~RenamesDir(u)
    BY <1>1 DEF Call
  <2> QED
    BY <2>1, BeginGood
<1>2. CASE Rename(t)
  <2>1. PICK p \in Paths, q \in Paths :
            /\ Begin(t, "rename", p, q) /\ p # q /\ (KindAt(p) = "dir" => Busy = {})
            /\ (\A u \in Busy : ~RenamesDir(u)) /\ ~(KindAt(q) = "dir" /\ IsLong(q))
    BY <1>2 DEF Rename
  <2>2. "rename" \in AllOps
    BY DEF AllOps
  <2> QED
    BY <2>1, <2>2, BeginGood
<1> QED
  BY <1>1, <1>2

LEMMA ExpireGood ==
    ASSUME TInv, NEW where \in Places, DInv(where), Expire
    PROVE  DInv(where)'
<1>1. /\ pc' = pc /\ loc' = loc /\ dirs' = dirs /\ kills' = kills /\ renamed' = FALSE
      /\ \A i \in Slots : cache'[i].dir = None
  BY DEF Expire, threadVars, NoEntry
<1>2. TreeInv(where) /\ PathsDiffer /\ IVInv /\ OwedInv /\ \A t \in Threads : ThreadInv(where, t)
  BY DEF DInv
<1>3. TreeInv(where)' /\ RenamedAlone' /\ PathsDiffer'
  BY <1>1, <1>2 DEF TreeInv, TreeAt, CacheAt, UnlinkedEmpty, HasName, Linked, RenamedAlone,
                    PathsDiffer, PathsOf
<1>4. ASSUME NEW t \in Threads PROVE ThreadInv(where, t)'
  <2>1. HeldAt(where, t)' /\ RenameAt(where, t)' /\ MakeInv(t)' /\ MoveInv(t)'
    BY <1>1, <1>2 DEF ThreadInv, HeldAt, RenameAt, NoDirAt, Busy, MakeInv, MoveInv, Name, Entry,
                      NewName, OldName, OldEntry, NewEntry
  <2>2. pc[t] = "write_iv" => loc[t].victim # None
    BY Locals, ConstantsAre DEF TInv
  <2>3. FreshInv(t)'
    BY <1>1, <1>2, <2>2 DEF ThreadInv, FreshInv
  <2> QED
    BY <2>1, <2>3 DEF ThreadInv
<1>5. IVInv' /\ OwedInv'
  BY <1>1, <1>2 DEF IVInv, OwedInv, Linked, OwesIV, OwesName, Name, NewName, OldName
<1> QED
  BY <1>3, <1>4, <1>5 DEF DInv

LEMMA DieGood ==
    ASSUME TInv, NEW where \in Places, DInv(where), Die
    PROVE  DInv(where)'
<1>1. /\ \A t \in Threads : pc'[t] = "idle" /\ loc'[t] = Idle
      /\ dirs' = dirs /\ renamed' = FALSE /\ kills' = kills + 1 /\ kills \in Nat
      /\ \A i \in Slots : cache'[i].dir = None
  BY ConstantsAre DEF Die, NoEntry, TInv, TypeOK
<1>2. TreeInv(where)
  BY DEF DInv
<1>3. TreeInv(where)'
  BY <1>1, <1>2 DEF TreeInv, TreeAt, CacheAt, UnlinkedEmpty, HasName, Linked
<1>4. PathsDiffer' /\ RenamedAlone'
  BY <1>1 DEF PathsDiffer, RenamedAlone, PathsOf, Idle
<1>5. \A t \in Threads : ThreadInv(where, t)'
  BY <1>1, IdleInvPrimed
<1>6. IVInv' /\ OwedInv'
  <2>1. kills' # 0
    BY <1>1
  <2> QED
    BY <2>1 DEF IVInv, OwedInv
<1> QED
  BY <1>3, <1>4, <1>5, <1>6 DEF DInv

LEMMA StepGood ==
    ASSUME TInv, NEW where \in Places, DInv(where), Disciplined, [Next]_vars
    PROVE  \E w \in Places : DInv(w)'
<1>1. CASE UNCHANGED vars \/ \E t \in Threads : Race(t)
  <2>1. UNCHANGED <<pc, loc, dirs, cache, dirIVLock, renamed, kills>>
    BY <1>1 DEF Race, vars, threadVars, cacheVars
  <2>2. TreeInv(where)' /\ RenamedAlone' /\ PathsDiffer'
    BY <2>1 DEF DInv, TreeInv, TreeAt, CacheAt, UnlinkedEmpty, HasName, Linked, RenamedAlone,
                PathsDiffer, PathsOf
  <2>3. ASSUME NEW t \in Threads PROVE ThreadInv(where, t)'
    <3>1. ThreadInv(where, t)
      BY DEF DInv
    <3>2. HeldAt(where, t)' /\ RenameAt(where, t)' /\ MakeInv(t)' /\ MoveInv(t)'
      BY <2>1, <3>1 DEF ThreadInv, HeldAt, RenameAt, NoDirAt, Busy, MakeInv, MoveInv, Name, Entry,
                        NewName, OldName, OldEntry, NewEntry
    <3>3. FreshInv(t)'
      BY <2>1, <3>1 DEF ThreadInv, FreshInv
    <3> QED
      BY <3>2, <3>3 DEF ThreadInv
  <2>4. IVInv' /\ OwedInv'
    BY <2>1 DEF DInv, IVInv, OwedInv, Linked, OwesIV, OwesName, Name, NewName, OldName
  <2> QED
    BY <2>2, <2>3, <2>4 DEF DInv
<1>2. ASSUME NEW w \in Places, DInv(w), NEW t \in Threads, Steps(t), Good(w, t), renamed' = renamed
      PROVE  DInv(w)'
  <2>1. RenamedAlone'
    BY <1>2, RenamedKept DEF DInv
  <2> QED
    BY <1>2, <2>1, GoodStep
<1>3. ASSUME NEW t \in Threads, Resolve(t) \/ CreateRemove(t) PROVE DInv(where)'
  <2>1. Good(where, t) /\ Steps(t)
    BY <1>3, ResolveGood, CreateRemoveGood DEF Steps
  <2>2. renamed' = renamed
    BY <1>3 DEF Resolve, LookupHit, LookupMiss, OpenDir, ReadDirIV, StoreCache, CreateRemove, Stat,
                Unlink, UnlinkFails, DropRemovedName, WriteLongName, WriteLongNameFails, FillName,
                FillNameFails, OpenCreate,
                OpenCreateFails, DropName
  <2> QED
    BY <1>2, <2>1, <2>2
<1>4. ASSUME NEW t \in Threads, MkdirRmdir(t) PROVE \E w \in Places : DInv(w)'
  <2>1. PICK w \in Places : DInv(w) /\ Good(w, t)
    BY <1>4, MkdirRmdirGood
  <2>2. renamed' = renamed /\ Steps(t)
    BY <1>4 DEF Steps, MkdirRmdir, LockDirIV, Mkdirat, MkdiratFails, WriteDirIV, WriteDirIVFails,
         Reopen,
                OpenVictim, MoveIV, MoveIVFails, Rmdirat, RmdiratFails, DropTmp, DropVictimName,
                Uncache, ClearCached
  <2> QED
    BY <1>2, <2>1, <2>2
<1>5. ASSUME NEW t \in Threads, RenameSteps(t) PROVE \E w \in Places : DInv(w)'
  BY <1>5, RenameGood
<1>6. ASSUME NEW t \in Threads, Call(t) \/ Rename(t) PROVE DInv(where)'
  BY <1>6, CallGood
<1>7. CASE Expire
  BY <1>7, ExpireGood
<1>8. CASE Die
  BY <1>8, DieGood
<1> QED
  BY <1>1, <1>3, <1>4, <1>5, <1>6, <1>7, <1>8 DEF Next, Steps

\* The tree that a disciplined client sees, with what every call in progress knows of it.
LEMMA Invariant ==
    ASSUME Disciplined
    PROVE  Spec => []IInv
<1>1. Init => IInv
  BY TypesInit, InitGood DEF IInv
<1>2. IInv /\ [Next]_vars => IInv'
  <2> SUFFICES ASSUME IInv, [Next]_vars PROVE IInv'
    OBVIOUS
  <2>1. PICK where \in Places : DInv(where)
    BY DEF IInv
  <2>2. TInv /\ TInv'
    BY TypesStep DEF IInv
  <2>3. \E w \in Places : DInv(w)'
    BY <2>1, <2>2, StepGood
  <2> QED
    BY <2>2, <2>3 DEF IInv, Places, Dirs, Names
<1> QED
  BY <1>1, <1>2, PTL DEF Spec

\* "Files with long names are stored in two files" (longnames.go): the .name file is written before
\* the content, created and filled by WriteLongNameAt in gcf_mkdir, gcf_open_write_mode and
\* gcf_rename, and removed after it, so that for a disciplined client no moment, and no kill, leaves
\* content without the file that has its name.  The file is filled first, unless gcf_rename found
\* an empty one that an earlier kill had left.
THEOREM NamesSurvive ==
    ASSUME Disciplined
    PROVE  Spec => []ContentHasName
<1>1. IInv => ContentHasName
  <2> SUFFICES ASSUME IInv, NEW d \in Dirs, NEW n \in LongNames, dirs[d].entries[n] # None
               PROVE  n \in dirs[d].names /\ \A t \in Threads : ~Fills(t, d, n)
    BY DEF ContentHasName
  <2>1. PICK where \in Places : DInv(where)
    BY DEF IInv
  <2>2. HasName /\ TInv
    BY <2>1 DEF IInv, DInv, TreeInv
  <2>3. ASSUME NEW t \in Threads, Fills(t, d, n) PROVE FALSE
    <3>1. MakeInv(t) /\ MoveInv(t)
      BY <2>1 DEF DInv, ThreadInv
    <3>2. ThreadTypes /\ pc[t] # "idle"
      BY <2>2, <2>3 DEF TInv, Fills
    <3>3. PlaceShape(pc[t], loc[t]) /\ OpShape(loc[t])
      BY <3>2, Locals
    <3>4. CASE pc[t] = "fill_name" /\ loc[t].dirfd = d /\ Name(t) = n
      BY <3>1, <3>3, <3>4 DEF MakeInv, PlaceShape, OpShape, Removes, Entry
    <3>5. CASE pc[t] = "fill_target" /\ loc[t].target = d /\ NewName(t) = n
      BY <3>1, <3>3, <3>5 DEF MoveInv, PlaceShape, NewEntry
    <3> QED
      BY <2>3, <3>4, <3>5 DEF Fills
  <2> QED
    BY <2>2, <2>3 DEF HasName
<1> QED
  BY Invariant, <1>1, PTL

\* gcf_mkdir fills a directory and gcf_rmdir takes the IV out of it with dirIVLock held: while it is
\* free and no process was killed, every directory of a disciplined client has its gocryptfs.diriv,
\* whatever failed on the way.
THEOREM DirsKeepIV ==
    ASSUME Disciplined
    PROVE  Spec => []DirsHaveIV
<1>1. IInv => DirsHaveIV
  BY ConstantsAre DEF IInv, DInv, IVInv, TInv, LockInv, Locked, Removing, DirsHaveIV
<1> QED
  BY Invariant, <1>1, PTL

\* gcf_mkdir, gcf_open_write_mode, gcf_rename, gcf_remove_file and gcf_rmdir take back what they
\* wrote for a call that failed and remove what they no longer need: once they all returned, and no
\* process was killed, a disciplined client finds no .name file without content and no moved diriv.
THEOREM NothingIsLeft ==
    ASSUME Disciplined
    PROVE  Spec => []NothingLeftBehind
<1>1. IInv => NothingLeftBehind
  <2> SUFFICES ASSUME IInv, kills = 0, Busy = {}, NEW d \in Dirs
               PROVE  /\ dirs[d].moved = {}
                      /\ \A n \in dirs[d].names : dirs[d].entries[n] # None
    BY DEF NothingLeftBehind
  <2>1. \A t \in Threads : pc[t] = "idle"
    BY DEF Busy
  <2>2. \A t \in Threads : \A x, v : ~OwesIV(t, x, v) /\ ~OwesName(t, x, v)
    BY <2>1 DEF OwesIV, OwesName
  <2> QED
    BY <2>2 DEF IInv, DInv, OwedInv
<1> QED
  BY Invariant, <1>1, PTL

-----------------------------------------------------------------------------
(* The directory cache under one thread                                    *)

InLookup == {"lookup"} \cup Resolving

\* The cache has no path twice and no directory without its IV, but for the one that gcf_rmdir is
\* to take out of it; of the parent directories of the goal it has only those above what the call
\* has come to.
OncePerPath ==
    \A i, j \in Slots :
        cache[i].dir # None /\ cache[j].dir # None /\ cache[i].path = cache[j].path => i = j

CachedHasIV(t) ==
    \A i \in Slots : cache[i].dir # None =>
        \/ dirs[cache[i].dir].iv
        \/ pc[t] = "rmdirat" /\ cache[i].dir = loc[t].victim
        \/ pc[t] \in {"drop_tmp", "drop_victim", "uncache"} /\ cache[i].path = loc[t].goal
        \/ pc[t] = "clear" /\ i = clearing

CachedAbove(t) ==
    pc[t] \in InLookup =>
        \A i \in Slots : cache[i].dir # None /\ Within(Parent(loc[t].goal), cache[i].path) =>
            /\ Len(cache[i].path) <= Len(loc[t].at)
            /\ pc[t] \in {"read_iv", "store"} => Len(cache[i].path) < Len(loc[t].at)

StoresIV(t) == pc[t] = "store" => dirs[loc[t].dirfd].iv

CacheInv(t) == ~renamed => OncePerPath /\ CachedHasIV(t) /\ CachedAbove(t) /\ StoresIV(t)

\* A step that leaves the cache and every IV, and looks nothing up.
LEMMA CacheKept ==
    ASSUME NEW t \in Threads, TypeOK, CacheInv(t), ~renamed' => ~renamed, cache' = cache,
           \A d \in Dirs : dirs[d].iv => dirs'[d].iv,
           pc[t] \notin {"rmdirat", "drop_tmp", "drop_victim", "uncache", "clear"}, pc'[t] \notin InLookup
    PROVE  CacheInv(t)'
<1> SUFFICES ASSUME ~renamed' PROVE (OncePerPath /\ CachedHasIV(t) /\ CachedAbove(t) /\ StoresIV(t))'
  BY DEF CacheInv
<1>1. OncePerPath /\ CachedHasIV(t)
  BY DEF CacheInv
<1>2. \A i \in Slots : cache[i].dir # None => cache[i].dir \in Dirs
  BY DEF TypeOK
<1>3. OncePerPath'
  BY <1>1 DEF OncePerPath
<1>4. CachedHasIV(t)'
  BY <1>1, <1>2 DEF CachedHasIV
<1>5. CachedAbove(t)' /\ StoresIV(t)'
  BY DEF CachedAbove, StoresIV, InLookup, Resolving
<1> QED
  BY <1>3, <1>4, <1>5

\* A step to the first lookup of a path.
LEMMA CacheStart ==
    ASSUME NEW t \in Threads, TypeOK, CacheInv(t), renamed' = renamed, cache' = cache, dirs' = dirs,
           pc[t] \notin {"rmdirat", "drop_tmp", "drop_victim", "uncache", "clear"},
           pc'[t] = "lookup", loc'[t].at = Parent(loc'[t].goal)
    PROVE  CacheInv(t)'
<1> SUFFICES ASSUME ~renamed' PROVE (OncePerPath /\ CachedHasIV(t) /\ CachedAbove(t) /\ StoresIV(t))'
  BY DEF CacheInv
<1>1. OncePerPath /\ CachedHasIV(t)
  BY DEF CacheInv
<1>2. OncePerPath'
  BY <1>1 DEF OncePerPath
<1>3. CachedHasIV(t)'
  BY <1>1 DEF CachedHasIV
<1>4. CachedAbove(t)' /\ StoresIV(t)'
  BY DEF CachedAbove, StoresIV, Within
<1> QED
  BY <1>2, <1>3, <1>4

\* Where a call goes from a directory it has entered.
LEMMA EnteredAt ==
    ASSUME TInv, NEW t \in Threads, pc[t] \in {"lookup", "store"}, NEW d \in Dirs, Entered(t, d)
    PROVE  \/ pc'[t] = "open_dir" /\ loc'[t].goal = loc[t].goal /\ loc'[t].at = loc[t].at
           \/ pc'[t] = "lookup" /\ loc'[t].at = Parent(loc'[t].goal)
           \/ pc'[t] \notin InLookup
<1> DEFINE c == loc[t]
           e == [c EXCEPT !.dirfd = d]
           f == [e EXCEPT !.source = d, !.goal = e.to, !.at = Parent(e.to), !.dirfd = None]
<1>1. /\ c \in Local /\ OpShape(c) /\ pc[t] # "idle"
      /\ loc \in [Threads -> Local] /\ pc \in [Threads -> Locations]
  BY Locals DEF TInv, ThreadTypes
<1>2. ASSUME NEW q, NEW g, GoOn(t, q, g) PROVE pc'[t] = q /\ loc'[t] = g
  BY <1>1, <1>2 DEF GoOn
<1>3. AfterResolve(t) \notin InLookup
  BY <1>1, AfterResolveIs DEF OpShape, AllOps, InLookup, Resolving, Removes
<1>4. e.goal = c.goal /\ e.at = c.at /\ f.at = Parent(f.goal)
  BY <1>1 DEF Local
<1>5. \/ GoOn(t, "open_dir", e)
      \/ GoOn(t, "lookup", f)
      \/ \E g : GoOn(t, AfterResolve(t), g)
  BY DEF Entered
<1> HIDE DEF e, f
<1> QED
  BY <1>2, <1>3, <1>4, <1>5

\* Two paths above one goal, of one length.
LEMMA SamePlace ==
    ASSUME NEW g \in Paths, NEW a \in Seq(Names), NEW b \in Seq(Names),
           Within(Parent(g), a), Within(Parent(g), b), Len(a) = Len(b)
    PROVE  a = b
<1>1. (\A i \in 1..Len(a) : a[i] = g[i]) /\ \A i \in 1..Len(b) : b[i] = g[i]
  BY AboveIs
<1> QED
  BY <1>1, SeqEqual

LEMMA ResolveCache ==
    ASSUME TInv, NEW t \in Threads, CacheInv(t), ~renamed, Resolve(t)
    PROVE  CacheInv(t)'
<1> DEFINE c == loc[t]
<1>1. Steps(t) /\ UNCHANGED <<dirs, renamed, kills>> /\ pc[t] \in InLookup
  BY DEF Steps, Resolve, LookupHit, LookupMiss, OpenDir, ReadDirIV, StoreCache, InLookup, Resolving
<1>2. /\ c \in Local /\ OpShape(c) /\ PlaceShape(pc[t], c) /\ pc[t] # "idle"
      /\ c.goal \in Paths /\ c.at \in Prefixes /\ c.at \in Seq(Names) /\ Within(Parent(c.goal), c.at)
      /\ loc \in [Threads -> Local] /\ pc \in [Threads -> Locations] /\ TypeOK
      /\ pc[t] \in Resolving => c.dirfd \in Dirs
  <2>1. pc[t] # "idle"
    BY <1>1 DEF InLookup, Resolving
  <2> QED
    BY <2>1, Locals, PrefixesAre DEF TInv, ThreadTypes, OpShape
<1>3. OncePerPath /\ CachedHasIV(t) /\ CachedAbove(t) /\ StoresIV(t)
  BY DEF CacheInv
<1>4. pc[t] \notin {"rmdirat", "drop_tmp", "drop_victim", "uncache", "clear"}
  BY <1>1 DEF InLookup, Resolving
<1>5. \A i \in Slots : cache[i].dir # None => cache[i].dir \in Dirs /\ cache[i].path \in Seq(Names)
                                              /\ dirs[cache[i].dir].iv
  BY <1>2, <1>3, <1>4, PrefixesAre DEF TypeOK, CachedHasIV
<1>6. ASSUME NEW q, NEW f, GoOn(t, q, f) PROVE pc'[t] = q /\ loc'[t] = f
  BY <1>2, <1>6 DEF GoOn
<1>7. ASSUME cache' = cache, CachedAbove(t)', StoresIV(t)' PROVE CacheInv(t)'
  <2>1. OncePerPath' /\ CachedHasIV(t)'
    BY <1>1, <1>3, <1>5, <1>7 DEF OncePerPath, CachedHasIV
  <2> QED
    BY <1>7, <2>1 DEF CacheInv
<1>8. CASE Fail(t) /\ cache' = cache
  <2>1. pc'[t] \notin InLookup
    BY <1>2, <1>6, <1>8 DEF Fail, Undo, Return, InLookup, Resolving
  <2> QED
    BY <1>1, <1>2, <1>4, <1>8, <2>1, CacheKept
<1>9. ASSUME NEW i \in Slots, cache[i].dir # None, Within(Parent(c.goal), cache[i].path),
             pc[t] = "lookup", Hits(c.at) = {}
      PROVE  Len(cache[i].path) < Len(c.at)
  <2>1. Len(cache[i].path) <= Len(c.at)
    BY <1>1, <1>3, <1>9 DEF CachedAbove
  <2>2. cache[i].path # c.at
    BY <1>9 DEF Hits
  <2>3. Len(cache[i].path) # Len(c.at)
    BY <1>2, <1>5, <1>9, <2>2, SamePlace
  <2>4. Len(cache[i].path) \in Nat /\ Len(c.at) \in Nat
    BY <1>2, <1>5, <1>9
  <2> QED
    BY <2>1, <2>3, <2>4
<1>10. CASE LookupHit(t)
  <2>1. PICK d \in Dirs : Entered(t, d) /\ pc[t] = "lookup" /\ cache' = cache
    BY <1>2, <1>10, HitIs DEF LookupHit, cacheVars
  <2>2. CASE pc'[t] = "open_dir" /\ loc'[t].goal = c.goal /\ loc'[t].at = c.at
    <3>1. CachedAbove(t)' /\ StoresIV(t)'
      BY <1>1, <1>3, <2>1, <2>2 DEF CachedAbove, StoresIV
    <3> QED
      BY <1>7, <2>1, <3>1
  <2>3. CASE pc'[t] = "lookup" /\ loc'[t].at = Parent(loc'[t].goal)
    BY <1>1, <1>2, <1>4, <2>1, <2>3, CacheStart
  <2>4. CASE pc'[t] \notin InLookup
    BY <1>1, <1>2, <1>4, <2>1, <2>4, CacheKept
  <2> QED
    BY <2>1, <2>2, <2>3, <2>4, EnteredAt
<1>11. CASE LookupMiss(t) /\ c.at = << >>
  <2> DEFINE e == [c EXCEPT !.dirfd = Root]
  <2>1. pc'[t] = "read_iv" /\ loc'[t] = e /\ cache' = cache /\ pc[t] = "lookup" /\ Hits(c.at) = {}
    BY <1>6, <1>11 DEF LookupMiss, cacheVars
  <2>2. loc'[t].goal = c.goal /\ loc'[t].at = c.at
    BY <1>2, <2>1 DEF Local
  <2>3. CachedAbove(t)'
    <3> SUFFICES ASSUME NEW i \in Slots, cache[i].dir # None, Within(Parent(c.goal), cache[i].path)
                 PROVE  Len(cache[i].path) <= Len(c.at) /\ Len(cache[i].path) < Len(c.at)
      BY <2>1, <2>2 DEF CachedAbove
    <3>1. Len(cache[i].path) < Len(c.at)
      BY <1>9, <2>1
    <3>2. Len(cache[i].path) \in Nat /\ Len(c.at) \in Nat
      BY <1>2, <1>5
    <3> QED
      BY <3>1, <3>2
  <2> QED
    BY <1>7, <2>1, <2>3 DEF StoresIV
<1>12. CASE LookupMiss(t) /\ c.at # << >>
  <2> DEFINE e == [c EXCEPT !.at = Parent(c.at)]
  <2>1. pc'[t] = "lookup" /\ loc'[t] = e /\ cache' = cache /\ pc[t] = "lookup" /\ Hits(c.at) = {}
    <3>1. GoOn(t, "lookup", e) /\ cache' = cache /\ pc[t] = "lookup" /\ Hits(c.at) = {}
      BY <1>2, <1>12 DEF LookupMiss, cacheVars, Local
    <3> QED
      BY <1>6, <3>1
  <2>2. loc'[t].goal = c.goal /\ loc'[t].at = Parent(c.at) /\ Len(Parent(c.at)) = Len(c.at) - 1
    BY <1>2, <1>12, <2>1, StepUp DEF Local
  <2>3. CachedAbove(t)'
    <3> SUFFICES ASSUME NEW i \in Slots, cache[i].dir # None, Within(Parent(c.goal), cache[i].path)
                 PROVE  Len(cache[i].path) <= Len(Parent(c.at))
      BY <2>1, <2>2 DEF CachedAbove
    <3>1. Len(cache[i].path) < Len(c.at)
      BY <1>9, <2>1
    <3>2. Len(cache[i].path) \in Nat /\ Len(c.at) \in Nat
      BY <1>2, <1>5
    <3> QED
      BY <2>2, <3>1, <3>2
  <2> QED
    BY <1>7, <2>1, <2>3 DEF StoresIV
<1>13. CASE OpenDir(t) /\ ~Fail(t)
  <2> DEFINE name == c.goal[Len(c.at) + 1]
             entry == dirs[c.dirfd].entries[name]
             e == [c EXCEPT !.dirfd = entry, !.at = Append(c.at, name)]
  <2>1. pc[t] = "open_dir" /\ cache' = cache /\ GoOn(t, "read_iv", e)
    BY <1>13 DEF OpenDir, cacheVars
  <2>2. name \in Names
    BY <1>2, <2>1, StepDown DEF PlaceShape
  <2>3. pc'[t] = "read_iv" /\ loc'[t] = e
    BY <1>6, <2>1
  <2> HIDE DEF entry, name
  <2>4. loc'[t].goal = c.goal /\ loc'[t].at = Append(c.at, name) /\ Len(Append(c.at, name)) = Len(c.at) + 1
    BY <1>2, <2>2, <2>3, AppendIs DEF Local
  <2>5. CachedAbove(t)'
    <3> SUFFICES ASSUME NEW i \in Slots, cache[i].dir # None, Within(Parent(c.goal), cache[i].path)
                 PROVE  Len(cache[i].path) < Len(c.at) + 1
      <4>1. \A i \in Slots : cache[i].dir # None /\ Within(Parent(c.goal), cache[i].path) =>
                Len(cache[i].path) <= Len(c.at) + 1
        <5>1. \A i \in Slots : cache[i].dir # None => Len(cache[i].path) \in Nat
          BY <1>5
        <5>2. Len(c.at) \in Nat
          BY <1>2
        <5> QED
          BY <1>1, <1>3, <5>1, <5>2 DEF CachedAbove
      <4> QED
        BY <2>1, <2>3, <2>4, <4>1 DEF CachedAbove
    <3>1. Len(cache[i].path) <= Len(c.at)
      BY <1>1, <1>3 DEF CachedAbove
    <3>2. Len(cache[i].path) \in Nat /\ Len(c.at) \in Nat
      BY <1>2, <1>5
    <3> QED
      BY <3>1, <3>2
  <2> QED
    BY <1>7, <2>1, <2>3, <2>5 DEF StoresIV
<1>14. CASE ReadDirIV(t) /\ ~Fail(t)
  <2>1. pc[t] = "read_iv" /\ cache' = cache /\ pc'[t] = "store" /\ loc'[t] = c /\ dirs[c.dirfd].iv
    BY <1>6, <1>14 DEF ReadDirIV, cacheVars
  <2>2. CachedAbove(t)' /\ StoresIV(t)'
    BY <1>1, <1>3, <2>1 DEF CachedAbove, StoresIV, InLookup, Resolving
  <2> QED
    BY <1>7, <2>1, <2>2
<1>15. CASE StoreCache(t)
  <2>1. /\ pc[t] = "store" /\ Entered(t, c.dirfd) /\ c.dirfd \in Dirs
        /\ cache' = [cache EXCEPT ![nextIndex] = [path |-> c.at, dir |-> c.dirfd]]
    BY <1>2, <1>15 DEF StoreCache, Resolving
  <2>2. PICK k \in Slots : k = nextIndex
    BY <1>2 DEF TypeOK
  <2>3. /\ cache'[k].path = c.at /\ cache'[k].dir = c.dirfd
        /\ \A i \in Slots \ {k} : cache'[i] = cache[i]
    <3>1. cache \in [Slots -> [path : Prefixes, dir : Dirs \cup {None}]]
      BY <1>2 DEF TypeOK
    <3> QED
      BY <2>1, <2>2, <3>1
  <2>4. \A i \in Slots : cache[i].dir # None => cache[i].path # c.at
    <3> SUFFICES ASSUME NEW i \in Slots, cache[i].dir # None, cache[i].path = c.at PROVE FALSE
      OBVIOUS
    <3>1. Len(c.at) < Len(c.at) /\ Len(c.at) \in Nat
      BY <1>1, <1>2, <1>3, <2>1 DEF CachedAbove
    <3> QED
      BY <3>1
  <2>5. OncePerPath'
    BY <1>3, <2>3, <2>4 DEF OncePerPath
  <2>6. CachedHasIV(t)'
    BY <1>1, <1>3, <1>5, <2>1, <2>3 DEF CachedHasIV, StoresIV
  <2>7. CachedAbove(t)' /\ StoresIV(t)'
    <3>1. CASE pc'[t] = "open_dir" /\ loc'[t].goal = c.goal /\ loc'[t].at = c.at
      <4>1. \A i \in Slots : cache'[i].dir # None /\ Within(Parent(c.goal), cache'[i].path) =>
                Len(cache'[i].path) <= Len(c.at)
        <5>1. Len(c.at) \in Nat
          BY <1>2
        <5> QED
          BY <1>1, <1>3, <2>3, <5>1 DEF CachedAbove
      <4> QED
        BY <3>1, <4>1 DEF CachedAbove, StoresIV
    <3>2. CASE pc'[t] = "lookup" /\ loc'[t].at = Parent(loc'[t].goal)
      BY <3>2 DEF CachedAbove, StoresIV, Within
    <3>3. CASE pc'[t] \notin InLookup
      BY <3>3 DEF CachedAbove, StoresIV, InLookup, Resolving
    <3> QED
      BY <2>1, <3>1, <3>2, <3>3, EnteredAt
  <2> QED
    BY <2>5, <2>6, <2>7 DEF CacheInv
<1>16. CASE OpenDir(t) \/ ReadDirIV(t)
  <2>1. cache' = cache
    BY <1>16 DEF OpenDir, ReadDirIV, cacheVars
  <2> QED
    BY <1>8, <1>13, <1>14, <1>16, <2>1
<1> QED
  BY <1>10, <1>11, <1>12, <1>15, <1>16 DEF Resolve

LEMMA CreateRemoveCache ==
    ASSUME TInv, NEW t \in Threads, CacheInv(t), CreateRemove(t)
    PROVE  CacheInv(t)'
<1> DEFINE c == loc[t]
<1>1. /\ pc[t] \in {"stat", "unlink", "drop_removed", "write_name", "fill_name", "open_create",
                     "drop_name"}
      /\ renamed' = renamed /\ cache' = cache
  BY DEF CreateRemove, Stat, Unlink, UnlinkFails, DropRemovedName, WriteLongName,
         WriteLongNameFails, FillName, FillNameFails, OpenCreate, OpenCreateFails, DropName, cacheVars
<1>2. /\ TypeOK /\ pc \in [Threads -> Locations] /\ loc \in [Threads -> Local] /\ c.dirfd \in Dirs
      /\ Name(t) \in Names
  <2>1. pc[t] # "idle" /\ pc[t] \in AtParent
    BY <1>1 DEF AtParent, Making
  <2> QED
    BY <2>1, Locals DEF TInv, ThreadTypes
<1>3. PICK d \in Dirs, n \in Names : d = c.dirfd /\ n = Name(t)
  BY <1>2, Zenon
<1>4. pc'[t] \notin InLookup
  BY <1>2 DEF CreateRemove, Stat, Unlink, UnlinkFails, DropRemovedName, WriteLongName,
         WriteLongNameFails, FillName, FillNameFails, OpenCreate, OpenCreateFails, DropName,
         AfterName, GoOn, Return, GiveUp, InLookup, Resolving
<1>5. dirs[d].names \subseteq LongNames
  BY <1>2 DEF TypeOK
<1>6. \A x \in Dirs : dirs'[x].iv = dirs[x].iv
  <2>1. CASE dirs' = dirs
    BY <2>1
  <2>2. CASE \E e : dirs' = Put(d, n, e)
    BY <2>2, PutEdit
  <2>3. CASE \E N \in SUBSET LongNames : dirs' = WithNames(d, N)
    BY <2>3, NamesEdit
  <2>4. CASE WriteLongName(t)
    <3>1. n \in LongNames
      <4>1. PlaceShape(pc[t], c) /\ pc[t] = "write_name" /\ c.goal = c.path
        <5>1. pc[t] = "write_name"
          BY <2>4 DEF WriteLongName
        <5>2. OpShape(c) /\ PlaceShape(pc[t], c)
          BY <5>1, Locals DEF TInv
        <5>3. c.op # "rename"
          BY <5>1, <5>2 DEF PlaceShape
        <5> QED
          BY <5>1, <5>2, <5>3, PrefixesAre DEF OpShape
      <4> QED
        BY <1>3, <4>1 DEF PlaceShape, IsLong, Name
    <3>2. dirs' = WithNames(d, dirs[d].names \cup {n})
      BY <1>3, <2>4 DEF WriteLongName, WithNames
    <3> QED
      BY <1>5, <2>3, <3>1, <3>2
  <2>5. CASE DropName(t) \/ DropRemovedName(t)
    <3>1. dirs' = WithNames(d, dirs[d].names \ {n})
      BY <1>3, <2>5 DEF DropName, DropRemovedName, WithNames
    <3> QED
      BY <1>5, <2>3, <3>1
  <2>6. CASE OpenCreate(t) \/ Unlink(t)
    BY <1>3, <2>2, <2>6 DEF OpenCreate, Unlink
  <2>7. CASE \/ Stat(t) \/ UnlinkFails(t) \/ WriteLongNameFails(t) \/ OpenCreateFails(t)
             \/ FillName(t) \/ FillNameFails(t)
    BY <2>1, <2>7 DEF Stat, UnlinkFails, WriteLongNameFails, FillName, FillNameFails, OpenCreateFails
  <2> QED
    BY <2>4, <2>5, <2>6, <2>7 DEF CreateRemove
<1> QED
  BY <1>1, <1>2, <1>4, <1>6, CacheKept

LEMMA MkdirRmdirCache ==
    ASSUME TInv, NEW where \in Places, DInv(where), NEW t \in Threads, CacheInv(t), MkdirRmdir(t)
    PROVE  CacheInv(t)'
<1> DEFINE c == loc[t]
<1>1. pc[t] \in AtParent /\ renamed' = renamed
  BY DEF MkdirRmdir, LockDirIV, Mkdirat, MkdiratFails, WriteDirIV, WriteDirIVFails, Reopen, OpenVictim,
         MoveIV, MoveIVFails, Rmdirat, RmdiratFails, DropTmp, DropVictimName, Uncache, ClearCached,
         AtParent,
         Making, Removing
<1>2. /\ TypeOK /\ pc \in [Threads -> Locations] /\ loc \in [Threads -> Local] /\ c.dirfd \in Dirs
      /\ Name(t) \in Names /\ c \in Local /\ OpShape(c) /\ PlaceShape(pc[t], c)
      /\ dirs \in [Dirs -> DirType] /\ ThreadInv(where, t) /\ TreeAt(where) /\ CacheAt(where)
      /\ cache \in [Slots -> [path : Prefixes, dir : Dirs \cup {None}]]
  <2>1. pc[t] # "idle"
    BY <1>1 DEF AtParent, Making, Removing
  <2> QED
    BY <1>1, <2>1, Locals, MkdirRmdirIs DEF TInv, ThreadTypes, TypeOK, DirType
<1>3. PICK d \in Dirs, n \in Names : d = c.dirfd /\ n = Name(t)
  BY <1>2, Zenon
<1>4. Append(where[d], n) = c.goal
  BY <1>1, <1>2, <1>3, SlotsOf DEF ThreadInv
<1>5. SUFFICES ASSUME ~renamed PROVE CacheInv(t)'
  BY <1>1 DEF CacheInv
<1>6. /\ OncePerPath /\ CachedHasIV(t)
      /\ \A i \in Slots : cache[i].dir # None => where[cache[i].dir] = cache[i].path
  BY <1>2, <1>5 DEF CacheInv, CacheAt
<1>7. ASSUME NEW q, NEW f, GoOn(t, q, f) PROVE pc'[t] = q /\ loc'[t] = f
  BY <1>2, <1>7 DEF GoOn
<1>8. ASSUME NEW r, Return(t, r) \/ Fail(t) \/ GiveUp(t) PROVE pc'[t] \notin InLookup
  BY <1>2, <1>7, <1>8 DEF Return, Fail, Undo, GiveUp, InLookup, Resolving
<1>9. ASSUME pc[t] \notin {"rmdirat", "drop_tmp", "drop_victim", "uncache", "clear"}, cache' = cache,
             \A x \in Dirs : dirs[x].iv => dirs'[x].iv, pc'[t] \notin InLookup
      PROVE  CacheInv(t)'
  BY <1>1, <1>2, <1>9, CacheKept
<1>10. ASSUME cache' = cache, CachedHasIV(t)', pc'[t] \notin InLookup PROVE CacheInv(t)'
  <2>1. OncePerPath'
    BY <1>6, <1>10 DEF OncePerPath
  <2> QED
    BY <1>10, <2>1 DEF CacheInv, CachedAbove, StoresIV, InLookup, Resolving
<1>11. CASE LockDirIV(t) \/ OpenVictim(t) \/ MkdiratFails(t) \/ MoveIVFails(t) \/ Reopen(t)
  <2>1. /\ dirs' = dirs /\ cache' = cache
        /\ pc[t] \in {"lock", "open_victim", "mkdirat", "move_iv", "reopen"}
    BY <1>11 DEF LockDirIV, OpenVictim, MkdiratFails, MoveIVFails, Reopen, cacheVars
  <2>2. Reopen(t) => \E r : Return(t, r)
    BY DEF Reopen
  <2>3. pc'[t] \notin InLookup
    BY <1>7, <1>8, <1>11, <2>2
       DEF LockDirIV, OpenVictim, MkdiratFails, MoveIVFails, InLookup, Resolving
  <2> QED
    BY <1>9, <2>1, <2>3
<1>12. CASE Mkdirat(t) \/ WriteDirIVFails(t)
  <2>1. /\ cache' = cache /\ pc[t] \in {"mkdirat", "write_iv"}
        /\ dirs' = dirs \/ \E e : dirs' = Put(d, n, e)
    BY <1>3, <1>12 DEF Mkdirat, WriteDirIVFails, cacheVars
  <2>2. pc'[t] \notin InLookup
    BY <1>7, <1>8, <1>12 DEF Mkdirat, WriteDirIVFails, InLookup, Resolving
  <2>3. \A x \in Dirs : dirs'[x].iv = dirs[x].iv
    BY <2>1, PutEdit
  <2> QED
    BY <1>9, <2>1, <2>2, <2>3
<1>13. CASE WriteDirIV(t)
  <2>1. cache' = cache /\ pc[t] = "write_iv" /\ dirs' = [dirs EXCEPT ![c.victim].iv = TRUE]
    BY <1>13 DEF WriteDirIV, cacheVars
  <2>2. pc'[t] \notin InLookup
    BY <1>7, <1>13 DEF WriteDirIV, InLookup, Resolving
  <2>3. PICK v \in Dirs : v = c.victim
    BY <1>2, <2>1 DEF PlaceShape, Local
  <2>4. \A x \in Dirs : dirs[x].iv => dirs'[x].iv
    BY <1>2, <2>1, <2>3 DEF DirType
  <2> QED
    BY <1>9, <2>1, <2>2, <2>4
<1>14. CASE MoveIV(t)
  <2>1. PICK v \in Dirs : /\ pc[t] = "move_iv" /\ v = c.victim /\ GoOn(t, "rmdirat", c) /\ cache' = cache
                          /\ dirs' = [dirs EXCEPT ![v].iv = FALSE, ![d].moved = @ \cup {v}]
    <3>1. pc[t] = "move_iv" /\ c.victim \in Dirs
      BY <1>2, <1>14 DEF MoveIV, PlaceShape, Local, Removing
    <3> QED
      BY <1>3, <1>14, <3>1 DEF MoveIV, cacheVars
  <2>2. pc'[t] = "rmdirat" /\ loc'[t] = c
    BY <1>7, <2>1
  <2>3. \A x \in Dirs \ {v} : dirs'[x].iv = dirs[x].iv
    <3>1. ASSUME NEW x \in Dirs \ {v} PROVE dirs'[x].iv = dirs[x].iv
      <4>1. CASE x = d
        <5>1. dirs'[x] = [dirs[x] EXCEPT !.moved = @ \cup {v}]
          BY <1>2, <2>1, <4>1
        <5> QED
          BY <1>2, <5>1 DEF DirType
      <4>2. CASE x # d
        BY <1>2, <2>1, <4>2
      <4> QED
        BY <4>1, <4>2
    <3> QED
      BY <3>1
  <2>4. CachedHasIV(t)'
    BY <1>2, <1>6, <2>1, <2>2, <2>3 DEF CachedHasIV
  <2> QED
    BY <1>10, <2>1, <2>2, <2>4 DEF InLookup, Resolving
<1>15. CASE Rmdirat(t)
  <2>1. /\ pc[t] = "rmdirat" /\ cache' = cache /\ pc'[t] = "drop_tmp" /\ loc'[t] = c
        /\ dirs' = Put(d, n, None)
    BY <1>3, <1>7, <1>15 DEF Rmdirat, cacheVars
  <2>2. where[c.victim] = c.goal
    <3>1. Removes(c) /\ c.victim \in Dirs
      BY <1>2, <2>1 DEF PlaceShape, Local, Removing
    <3>2. dirs[d].entries[n] = c.victim
      BY <1>2, <1>3, <2>1, <3>1 DEF ThreadInv, MakeInv, Entry
    <3> QED
      BY <1>2, <1>4, <3>1, <3>2 DEF TreeAt
  <2>3. \A x \in Dirs : dirs'[x].iv = dirs[x].iv
    BY <2>1, PutEdit
  <2>4. CachedHasIV(t)'
    BY <1>2, <1>6, <2>1, <2>2, <2>3 DEF CachedHasIV
  <2> QED
    BY <1>10, <2>1, <2>4 DEF InLookup, Resolving
<1>16. CASE RmdiratFails(t)
  <2>1. PICK v \in Dirs : /\ pc[t] = "rmdirat" /\ v = c.victim /\ Fail(t) /\ cache' = cache
                          /\ dirs' = [dirs EXCEPT ![v].iv = TRUE, ![d].moved = @ \ {v}]
    <3>1. pc[t] = "rmdirat" /\ c.victim \in Dirs
      BY <1>2, <1>16 DEF RmdiratFails, PlaceShape, Local, Removing
    <3> QED
      BY <1>3, <1>16, <3>1 DEF RmdiratFails, cacheVars
  <2>2. \A x \in Dirs : dirs[x].iv \/ x = v => dirs'[x].iv
    <3>1. PICK D : D = [dirs EXCEPT ![v].iv = TRUE]
      OBVIOUS
    <3>2. \A x \in Dirs : dirs[x].iv \/ x = v => D[x].iv
      BY <1>2, <3>1 DEF DirType
    <3>3. D \in [Dirs -> DirType]
      BY <3>1, EditTypes DEF TInv
    <3>4. dirs' = [D EXCEPT ![d].moved = @ \ {v}]
      BY <2>1, <3>1
    <3>5. \A x \in Dirs : dirs'[x].iv = D[x].iv
      <4>1. ASSUME NEW x \in Dirs PROVE dirs'[x].iv = D[x].iv
        <5>1. CASE x = d
          <6>1. dirs'[x] = [D[x] EXCEPT !.moved = @ \ {v}]
            BY <3>3, <3>4, <5>1
          <6> QED
            BY <3>3, <6>1 DEF DirType
        <5>2. CASE x # d
          BY <3>3, <3>4, <5>2
        <5> QED
          BY <5>1, <5>2
      <4> QED
        BY <4>1
    <3> QED
      BY <3>2, <3>5
  <2>3. \A i \in Slots : cache'[i].dir # None => dirs'[cache'[i].dir].iv
    BY <1>2, <1>6, <2>1, <2>2 DEF CachedHasIV
  <2>4. CachedHasIV(t)'
    BY <2>3 DEF CachedHasIV
  <2>5. pc'[t] \notin InLookup
    BY <1>8, <2>1
  <2> QED
    BY <1>10, <2>1, <2>4, <2>5
<1>17. CASE DropTmp(t) \/ DropVictimName(t)
  <2>1. /\ pc[t] \in {"drop_tmp", "drop_victim"} /\ pc'[t] \in {"drop_victim", "uncache"} /\ loc'[t] = c
        /\ cache' = cache
    BY <1>7, <1>17 DEF DropTmp, DropVictimName, cacheVars
  <2>2. \A x \in Dirs : dirs'[x].iv = dirs[x].iv
    <3>1. CASE DropTmp(t)
      <4>1. dirs' = [dirs EXCEPT ![d].moved = @ \ {c.victim}]
        BY <1>3, <3>1 DEF DropTmp
      <4> QED
        BY <1>2, <4>1 DEF DirType
    <3>2. CASE DropVictimName(t)
      <4>1. dirs' = WithNames(d, dirs[d].names \ {n}) /\ dirs[d].names \subseteq LongNames
        BY <1>2, <1>3, <3>2 DEF DropVictimName, WithNames, DirType
      <4> QED
        BY <4>1, NamesEdit
    <3> QED
      BY <1>17, <3>1, <3>2
  <2>3. CachedHasIV(t)'
    BY <1>2, <1>6, <2>1, <2>2 DEF CachedHasIV
  <2> QED
    BY <1>10, <2>1, <2>3 DEF InLookup, Resolving
<1>18. ASSUME RmdirReturns(t)
       PROVE  /\ pc'[t] \notin InLookup
              /\ pc'[t] \notin {"rmdirat", "drop_tmp", "drop_victim", "uncache", "clear"}
  BY <1>2, <1>7, <1>18 DEF RmdirReturns, Return, InLookup, Resolving
<1>19. CASE Uncache(t)
  <2>1. pc[t] = "uncache" /\ dirs' = dirs /\ cache' = cache
    BY <1>19 DEF Uncache
  <2>2. CASE Hits(c.goal) = {}
    <3>1. RmdirReturns(t)
      BY <1>19, <2>2 DEF Uncache
    <3>2. \A i \in Slots : cache[i].dir # None => cache[i].path # c.goal
      BY <2>2 DEF Hits
    <3>3. CachedHasIV(t)'
      BY <1>6, <2>1, <3>2 DEF CachedHasIV
    <3> QED
      BY <1>10, <1>18, <2>1, <3>1, <3>3
  <2>3. CASE Hits(c.goal) # {}
    <3>1. pc'[t] = "clear" /\ loc'[t] = c /\ clearing' = Lowest(Hits(c.goal))
      BY <1>7, <1>19, <2>3 DEF Uncache
    <3>2. PICK k \in Slots : k = Lowest(Hits(c.goal)) /\ cache[k].dir \in Dirs /\ cache[k].path = c.goal
      BY <1>2, <2>3, HitIs
    <3>3. \A i \in Slots \ {k} : cache[i].dir # None => cache[i].path # c.goal
      BY <1>6, <3>2, ConstantsAre DEF OncePerPath
    <3>4. CachedHasIV(t)'
      BY <1>6, <2>1, <3>1, <3>2, <3>3 DEF CachedHasIV
    <3> QED
      BY <1>10, <2>1, <3>1, <3>4 DEF InLookup, Resolving
  <2> QED
    BY <2>2, <2>3
<1>20. CASE ClearCached(t)
  <2>1. /\ pc[t] = "clear" /\ RmdirReturns(t) /\ dirs' = dirs
        /\ cache' = [cache EXCEPT ![clearing] = NoEntry]
    BY <1>20 DEF ClearCached
  <2>2. \A i \in Slots : cache'[i].dir # None => cache'[i] = cache[i] /\ i # clearing
    BY <1>2, <2>1 DEF NoEntry
  <2>3. OncePerPath'
    BY <1>6, <2>2 DEF OncePerPath
  <2>4. CachedHasIV(t)'
    BY <1>6, <2>1, <2>2 DEF CachedHasIV
  <2> QED
    BY <1>18, <2>1, <2>3, <2>4 DEF CacheInv, CachedAbove, StoresIV, InLookup, Resolving
<1> QED
  BY <1>11, <1>12, <1>13, <1>14, <1>15, <1>16, <1>17, <1>19, <1>20 DEF MkdirRmdir

LEMMA RenameCache ==
    ASSUME TInv, NEW where \in Places, DInv(where), NEW t \in Threads, CacheInv(t), RenameSteps(t)
    PROVE  CacheInv(t)'
<1> DEFINE c == loc[t]
<1>1. pc[t] \in InRename /\ cache' = cache
  BY DEF RenameSteps, WriteTargetName, WriteTargetNameFails, FillTarget, FillTargetFails,
         RemoveTarget, Renameat, RenameatFails,
         DropTargetName, DropSourceName, InRename, cacheVars
<1>2. /\ TypeOK /\ pc \in [Threads -> Locations] /\ loc \in [Threads -> Local] /\ c \in Local
      /\ dirs \in [Dirs -> DirType] /\ c.source \in Dirs /\ c.target \in Dirs /\ PlaceShape(pc[t], c)
      /\ pc[t] \notin {"rmdirat", "drop_tmp", "drop_victim", "uncache", "clear"}
  BY <1>1, InRenameIs DEF TInv, TypeOK, DirType, InRename
<1>3. ASSUME \A x \in Dirs : dirs'[x].iv = dirs[x].iv, ~renamed' => ~renamed, pc'[t] \notin InLookup
      PROVE  CacheInv(t)'
  BY <1>1, <1>2, <1>3, CacheKept
<1>4. ASSUME NEW q, NEW f, GoOn(t, q, f) PROVE pc'[t] = q /\ loc'[t] = f
  BY <1>2, <1>4 DEF GoOn
<1>5. ASSUME NEW r, Return(t, r) \/ Undo(t) PROVE pc'[t] \notin InLookup
  BY <1>2, <1>4, <1>5 DEF Return, Undo, InLookup, Resolving
<1>6. CASE \/ WriteTargetNameFails(t) \/ FillTarget(t) \/ FillTargetFails(t)
           \/ \E from \in {"renameat", "rename_again"} : RenameatFails(t, from)
  <2>1. dirs' = dirs /\ renamed' = renamed
    BY <1>6 DEF WriteTargetNameFails, FillTarget, FillTargetFails, RenameatFails
  <2>2. pc'[t] \notin InLookup
    BY <1>4, <1>5, <1>6
       DEF WriteTargetNameFails, FillTarget, FillTargetFails, RenameatFails, InLookup, Resolving
  <2> QED
    BY <1>3, <2>1, <2>2
<1>7. CASE WriteTargetName(t) \/ DropTargetName(t) \/ DropSourceName(t)
  <2>1. PICK x \in Dirs, N \in SUBSET LongNames : dirs' = WithNames(x, N)
    <3>1. CASE WriteTargetName(t)
      <4>1. dirs' = WithNames(c.target, dirs[c.target].names \cup {NewName(t)})
        BY <3>1 DEF WriteTargetName, WithNames
      <4>2. NewName(t) \in LongNames /\ dirs[c.target].names \subseteq LongNames
        BY <1>2, <3>1 DEF WriteTargetName, PlaceShape, IsLong, NewName, DirType
      <4> QED
        BY <1>2, <4>1, <4>2
    <3>2. CASE DropTargetName(t)
      <4>1. dirs' = WithNames(c.target, dirs[c.target].names \ {NewName(t)})
        BY <3>2 DEF DropTargetName, WithNames
      <4>2. dirs[c.target].names \subseteq LongNames
        BY <1>2 DEF DirType
      <4> QED
        BY <1>2, <4>1, <4>2
    <3>3. CASE DropSourceName(t)
      <4>1. dirs' = WithNames(c.source, dirs[c.source].names \ {OldName(t)})
        BY <3>3 DEF DropSourceName, WithNames
      <4>2. dirs[c.source].names \subseteq LongNames
        BY <1>2 DEF DirType
      <4> QED
        BY <1>2, <4>1, <4>2
    <3> QED
      BY <1>7, <3>1, <3>2, <3>3
  <2>2. \A y \in Dirs : dirs'[y].iv = dirs[y].iv
    BY <2>1, NamesEdit
  <2>3. renamed' = renamed
    BY <1>7 DEF WriteTargetName, DropTargetName, DropSourceName
  <2>4. pc'[t] \notin InLookup
    BY <1>4, <1>5, <1>7 DEF WriteTargetName, DropTargetName, DropSourceName, InLookup, Resolving
  <2> QED
    BY <1>3, <2>2, <2>3, <2>4
<1>8. CASE RemoveTarget(t)
  <2> DEFINE e == [c EXCEPT !.nested = TRUE, !.goal = c.to, !.at = Parent(c.to)]
  <2>1. pc'[t] = "lookup" /\ loc'[t] = e /\ dirs' = dirs /\ renamed' = renamed
    BY <1>4, <1>8 DEF RemoveTarget
  <2>2. loc'[t].at = Parent(loc'[t].goal)
    BY <1>2, <2>1 DEF Local
  <2> QED
    BY <1>1, <1>2, <2>1, <2>2, CacheStart
<1>9. CASE \E from \in {"renameat", "rename_again"} : Renameat(t, from)
  <2>1. PICK s \in Dirs, u \in Dirs, o \in Names, n \in Names, old \in Kinds : Moves(where, t, s, o, u, n, old)
    <3>1. \E s, u, old \in Kinds, o, n \in Names :
                s \in Dirs /\ u \in Dirs /\ Moves(where, t, s, o, u, n, old)
      BY <1>9, RenameatIs
    <3> QED
      BY <3>1, Zenon
  <2>2. ~(s = u /\ o = n) /\ dirs' = [Put(u, n, old) EXCEPT ![s].entries[o] = None]
    BY <2>1, Zenon DEF Moves
  <2>3. \A x \in Dirs : dirs'[x].iv = dirs[x].iv /\ dirs'[x].names = dirs[x].names
                        /\ dirs'[x].moved = dirs[x].moved
    BY <2>2, RenameatEdit, Zenon
  <2>4. (~renamed' => ~renamed) /\ pc'[t] \notin InLookup
    BY <2>1, Zenon DEF Moves, InLookup, Resolving
  <2> QED
    BY <1>3, <2>3, <2>4
<1> QED
  BY <1>6, <1>7, <1>8, <1>9 DEF RenameSteps

LEMMA CacheStep ==
    ASSUME TInv, NEW where \in Places, DInv(where), NEW t \in Threads, \A u \in Threads : u = t,
           CacheInv(t), [Next]_vars
    PROVE  CacheInv(t)'
<1>1. TypeOK /\ pc \in [Threads -> Locations] /\ loc \in [Threads -> Local]
  BY DEF TInv, ThreadTypes
<1>2. ASSUME cache' = cache, clearing' = clearing, dirs' = dirs, pc'[t] = pc[t], loc'[t] = loc[t],
             renamed' = renamed
      PROVE  CacheInv(t)'
  BY <1>2 DEF CacheInv, OncePerPath, CachedHasIV, CachedAbove, StoresIV
<1>3. ASSUME renamed' = FALSE, \A i \in Slots : cache'[i].dir = None, StoresIV(t)' PROVE CacheInv(t)'
  BY <1>3 DEF CacheInv, OncePerPath, CachedHasIV, CachedAbove
<1>4. CASE UNCHANGED vars
  BY <1>2, <1>4 DEF vars, threadVars, cacheVars
<1>5. CASE Race(t)
  BY <1>2, <1>5 DEF Race, threadVars
<1>6. CASE Die
  BY <1>3, <1>6 DEF Die, NoEntry, StoresIV
<1>7. CASE Expire
  <2>1. /\ renamed' = FALSE /\ (\A i \in Slots : cache'[i].dir = None) /\ pc' = pc /\ loc' = loc
        /\ dirs' = dirs
    BY <1>7 DEF Expire, NoEntry, threadVars
  <2>2. StoresIV(t)'
    BY <2>1 DEF CacheInv, StoresIV, DInv, RenamedAlone
  <2> QED
    BY <1>3, <2>1, <2>2
<1>8. ASSUME NEW op, NEW p \in Paths, NEW q, Begin(t, op, p, q) PROVE CacheInv(t)'
  <2>1. /\ pc[t] = "idle" /\ pc'[t] = "lookup" /\ renamed' = renamed /\ cache' = cache /\ dirs' = dirs
        /\ loc'[t] = [Idle EXCEPT !.op = op, !.path = p, !.to = q, !.goal = p, !.at = Parent(p)]
    BY <1>1, <1>8 DEF Begin, cacheVars
  <2>2. loc'[t].at = Parent(loc'[t].goal)
    BY <2>1 DEF Idle
  <2> QED
    BY <1>1, <2>1, <2>2, CacheStart
<1>9. CASE Call(t) \/ Rename(t)
  BY <1>8, <1>9 DEF Call, Rename
<1>10. CASE Resolve(t)
  <2>1. CASE ~renamed
    BY <1>10, <2>1, ResolveCache
  <2>2. CASE renamed
    BY <1>10, <2>2 DEF DInv, RenamedAlone, Resolve, LookupHit, LookupMiss, OpenDir, ReadDirIV,
         StoreCache
  <2> QED
    BY <2>1, <2>2
<1>11. CASE CreateRemove(t) \/ MkdirRmdir(t) \/ RenameSteps(t)
  BY <1>11, CreateRemoveCache, MkdirRmdirCache, RenameCache
<1> QED
  BY <1>4, <1>5, <1>6, <1>7, <1>9, <1>10, <1>11 DEF Next, Steps

\* dirCache.Lookup, Store, Delete and Clear: under one thread of a disciplined client, whatever is
\* full and whenever the process is killed, the cache has for a path no other directory than the
\* one that is there, so that no call of gcf_* ends up in a directory that was removed or replaced.
THEOREM CacheNamesTheDirectory ==
    ASSUME Disciplined, NEW t, Threads = {t}
    PROVE  Spec => []CacheIsExact
<1> DEFINE CInv == IInv /\ CacheInv(t)
<1>1. Init => CInv
  <2> SUFFICES ASSUME Init PROVE CInv
    OBVIOUS
  <2>1. IInv
    BY TypesInit, InitGood DEF IInv
  <2>2. (\A i \in Slots : cache[i].dir = None) /\ pc[t] = "idle"
    BY DEF Init, NoEntry
  <2> QED
    BY <2>1, <2>2 DEF CacheInv, OncePerPath, CachedHasIV, CachedAbove, StoresIV, InLookup, Resolving
<1>2. CInv /\ [Next]_vars => CInv'
  <2> SUFFICES ASSUME CInv, [Next]_vars PROVE CInv'
    OBVIOUS
  <2>1. PICK where \in Places : DInv(where)
    BY DEF IInv
  <2>2. TInv /\ TInv'
    BY TypesStep DEF IInv
  <2>3. \E w \in Places : DInv(w)'
    BY <2>1, <2>2, StepGood
  <2>4. IInv'
    BY <2>2, <2>3 DEF IInv, Places, Dirs, Names
  <2>5. CacheInv(t)'
    BY <2>1, <2>2, CacheStep
  <2> QED
    BY <2>4, <2>5
<1>3. CInv => CacheIsExact
  <2> SUFFICES ASSUME CInv, ~renamed, dirIVLock = None, NEW i \in Slots, cache[i].dir # None
               PROVE  cache[i].dir = DirAt(cache[i].path)
    BY DEF CacheIsExact
  <2>1. PICK where \in Places : DInv(where)
    BY DEF IInv
  <2>2. /\ TInv /\ TypeOK /\ TreeAt(where) /\ CacheAt(where) /\ UnlinkedEmpty /\ HasName
        /\ CachedHasIV(t)
    BY <2>1 DEF IInv, TInv, DInv, TreeInv, CacheInv
  <2>3. pc[t] \notin Locked
    BY <2>2, ConstantsAre DEF TInv, LockInv
  <2>4. PICK d \in Dirs : d = cache[i].dir /\ dirs[d].iv /\ where[d] = cache[i].path
    BY <2>2, <2>3 DEF CachedHasIV, TypeOK, CacheAt, Locked, Removing
  <2>5. Linked(d)
    BY <2>2, <2>4 DEF UnlinkedEmpty, NoDir
  <2>6. DirAt(where[d]) = d
    BY <2>2, <2>5, DirAtIs
  <2> QED
    BY <2>4, <2>6
<1> QED
  BY <1>1, <1>2, <1>3, PTL DEF Spec
=============================================================================
