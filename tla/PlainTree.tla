------------------------------ MODULE PlainTree -------------------------------
(***************************************************************************)
(* What the directory operations of a volume promise: a tree of files and  *)
(* directories named by plaintext paths.  A call takes effect in one step  *)
(* between its beginning and its end and then reports success; or it has   *)
(* no effect and reports failure.  With three exceptions that the code     *)
(* makes visible: mkdir may take its directory back before it fails, or    *)
(* fail and leave it, and rename removes an empty directory in its way     *)
(* first.                                                                  *)
(***************************************************************************)
EXTENDS Naturals, Sequences

CONSTANTS
    Threads,
    Paths,     \* non-empty sequences of names
    None,      \* nothing at a path, no path
    Reliable   \* whether calls fail only for a reason in the tree

VARIABLES
    tree,    \* what is at each path: None, "file" or "dir"
    calls,   \* the call of each thread: its function, paths, and if it took effect
    answer   \* what each thread's last call reported

vars == <<tree, calls, answer>>

NoCall == [op |-> "none", path |-> None, to |-> None, done |-> FALSE]

Parent(p) == SubSeq(p, 1, Len(p) - 1)

Within(p, q) == Len(q) <= Len(p) /\ SubSeq(p, 1, Len(q)) = q

IsDir(p) == p = << >> \/ (p \in Paths /\ tree[p] = "dir")

IsEmptyDir(p) == tree[p] = "dir" /\ \A q \in Paths : q # p /\ Within(q, p) => tree[q] = None

\* What path q would hold after the rename of p to "to".
Moved(p, to, q) ==
    IF Within(q, to)
    THEN LET old == p \o SubSeq(q, Len(to) + 1, Len(q))
         IN  IF old \in Paths THEN tree[old] ELSE None
    ELSE IF Within(q, p) THEN None
    ELSE tree[q]

\* The trees a call can lead to.
Outcomes(c) ==
    CASE c.op = "stat"   -> IF tree[c.path] # None THEN {tree} ELSE {}
      [] c.op = "mkdir"  -> IF tree[c.path] = None /\ IsDir(Parent(c.path))
                            THEN {[tree EXCEPT ![c.path] = "dir"]} ELSE {}
      [] c.op = "create" -> IF tree[c.path] # "dir" /\ IsDir(Parent(c.path))
                            THEN {[tree EXCEPT ![c.path] = "file"]} ELSE {}
      [] c.op = "remove" -> IF tree[c.path] = "file"
                            THEN {[tree EXCEPT ![c.path] = None]} ELSE {}
      [] c.op = "rmdir"  -> IF IsEmptyDir(c.path)
                            THEN {[tree EXCEPT ![c.path] = None]} ELSE {}
      [] c.op = "rename" -> IF /\ tree[c.path] # None
                               /\ IsDir(Parent(c.to)) /\ ~Within(c.to, c.path)
                               /\ \/ tree[c.to] = None
                                  \/ tree[c.path] = "file" /\ tree[c.to] = "file"
                                  \/ tree[c.path] = "dir" /\ IsEmptyDir(c.to)
                            THEN {[q \in Paths |-> Moved(c.path, c.to, q)]} ELSE {}
      [] OTHER           -> {}

\* When a call may report failure: it cannot succeed in this tree.  What is
\* there already may be opened by "create", but need not.
MayFail(c) ==
    ~Reliable \/ Outcomes(c) = {} \/ (c.op = "create" /\ tree[c.path] # None)

\* Any tree that earlier runs can have left.
Init ==
    /\ tree \in [Paths -> {None, "file", "dir"}]
    /\ \A p \in Paths : tree[p] # None => IsDir(Parent(p))
    /\ calls = [t \in Threads |-> NoCall]
    /\ answer = [t \in Threads |-> FALSE]

Requests ==
    [op : {"stat", "mkdir", "create", "remove", "rmdir"},
     path : Paths, to : {None}, done : {FALSE}]
    \cup [op : {"rename"}, path : Paths, to : Paths, done : {FALSE}]

Begin(t) ==
    /\ calls[t] = NoCall
    /\ calls'[t] \in Requests
    /\ calls' = [calls EXCEPT ![t] = calls'[t]]
    /\ UNCHANGED <<tree, answer>>

Effect(t) ==
    /\ ~calls[t].done
    /\ calls' = [calls EXCEPT ![t].done = TRUE]
    /\ tree' \in Outcomes(calls[t])
    /\ UNCHANGED answer

\* mkdir cannot complete its directory.
TakeBack(t) ==
    /\ calls[t].op = "mkdir" /\ calls[t].done
    /\ IsEmptyDir(calls[t].path)
    /\ tree' = [tree EXCEPT ![calls[t].path] = None]
    /\ calls' = [calls EXCEPT ![t].done = FALSE]
    /\ UNCHANGED answer

\* rename of a directory over an empty one.
ClearTarget(t) ==
    /\ calls[t].op = "rename" /\ ~calls[t].done
    /\ tree[calls[t].path] = "dir" /\ IsEmptyDir(calls[t].to)
    /\ tree' = [tree EXCEPT ![calls[t].to] = None]
    /\ UNCHANGED <<calls, answer>>

Return(t) ==
    /\ calls[t] # NoCall
    /\ ~calls[t].done => MayFail(calls[t])
    /\ answer' = [answer EXCEPT ![t] = calls[t].done]
    /\ calls' = [calls EXCEPT ![t] = NoCall]
    /\ UNCHANGED tree

\* The effect and the return in one step.
EffectAndReturn(t) ==
    /\ calls[t] # NoCall
    /\ calls' = [calls EXCEPT ![t] = NoCall]
    /\ answer' = [answer EXCEPT ![t] = TRUE]
    /\ tree' \in Outcomes(calls[t])

TakeBackAndReturn(t) ==
    /\ ~Reliable
    /\ calls[t].op = "mkdir" /\ calls[t].done
    /\ IsEmptyDir(calls[t].path)
    /\ tree' = [tree EXCEPT ![calls[t].path] = None]
    /\ answer' = [answer EXCEPT ![t] = FALSE]
    /\ calls' = [calls EXCEPT ![t] = NoCall]

\* mkdir cannot open the directory it made.
FailAfterwards(t) ==
    /\ ~Reliable
    /\ calls[t].op = "mkdir" /\ calls[t].done
    /\ answer' = [answer EXCEPT ![t] = FALSE]
    /\ calls' = [calls EXCEPT ![t] = NoCall]
    /\ UNCHANGED tree

\* The process is killed: what took effect stays.
Die ==
    /\ ~Reliable
    /\ calls' = [t \in Threads |-> NoCall]
    /\ UNCHANGED <<tree, answer>>

Next ==
    \/ \E t \in Threads :
            \/ Begin(t)
            \/ Effect(t) \/ TakeBack(t) \/ ClearTarget(t) \/ Return(t)
            \/ EffectAndReturn(t) \/ TakeBackAndReturn(t) \/ FailAfterwards(t)
    \/ Die

Spec == Init /\ [][Next]_vars
=============================================================================
