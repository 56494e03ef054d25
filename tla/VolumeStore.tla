----------------------------- MODULE VolumeStore ------------------------------
(***************************************************************************)
(* What volume.go and the config file promise together: a directory holds  *)
(* at most one volume, whose master key and settings never change; its     *)
(* password is replaced as a whole by a call that reports success, and not *)
(* at all by one that reports failure; a session is opened and closed in   *)
(* one step, belongs to one gcf_init and holds the master key.             *)
(* A crash ends the sessions and may take back what was not yet on disk; a *)
(* volume is lost in it only if the disk had refused to sync it (weak).    *)
(***************************************************************************)
CONSTANTS Threads, Passwords, Keys, Empty, Settings, Calls, None, Lost

VARIABLES
    volume,    \* the volume in the directory: key, settings, password, or what was lost
    safe,      \* what a power loss leaves of it
    sessions,  \* the key that the session of each gcf_init holds
    op,        \* what each thread is doing, and the password it sets
    report     \* what its last call returned

vars == <<volume, safe, sessions, op, report>>

Volume == [key : Keys \cup {Empty}, set : Settings, pw : Passwords, weak : BOOLEAN]

IsVolume(v) == v \notin {None, Lost}

Nothing == [kind |-> "none", pw |-> None]

Kinds == {"init", "close", "change", "create"}

NoSessions == [n \in Calls |-> None]

Init ==
    /\ volume = None \/ volume \in Volume
    /\ safe = volume
    /\ sessions = NoSessions
    /\ op = [t \in Threads |-> Nothing]
    /\ report = [t \in Threads |-> "none"]

Begin(t) ==
    /\ op[t] = Nothing
    /\ \E k \in Kinds, p \in Passwords \cup {None} : op' = [op EXCEPT ![t] = [kind |-> k, pw |-> p]]
    /\ report' = [report EXCEPT ![t] = "none"]
    /\ UNCHANGED <<volume, safe, sessions>>

Return(t, r) ==
    /\ op' = [op EXCEPT ![t] = Nothing]
    /\ report' = [report EXCEPT ![t] = r]

\* The volume appears before gcf_create_volume returns.
Create(t) ==
    /\ op[t].kind = "create"
    /\ volume = None
    /\ volume' \in Volume
    /\ volume'.pw = op[t].pw
    /\ \/ op' = [op EXCEPT ![t].kind = "created"] /\ UNCHANGED report
       \/ Return(t, "ok")
    /\ UNCHANGED <<safe, sessions>>

Created(t) ==
    /\ op[t].kind = "created"
    /\ Return(t, "ok")
    /\ UNCHANGED <<volume, safe, sessions>>

ChangePassword(t) ==
    /\ op[t].kind = "change"
    /\ IsVolume(volume)
    /\ volume' \in Volume
    /\ volume'.key = volume.key /\ volume'.set = volume.set
    /\ volume'.pw = op[t].pw
    /\ Return(t, "ok")
    /\ UNCHANGED <<safe, sessions>>

Open(t) ==
    /\ op[t].kind = "init"
    /\ IsVolume(volume)
    /\ \E n \in Calls :
            /\ sessions[n] = None
            /\ sessions' = [sessions EXCEPT ![n] = volume.key]
    /\ Return(t, "ok")
    /\ UNCHANGED <<volume, safe>>

\* The client gives the session up when it calls gcf_close.
GiveUp(t) ==
    /\ op[t] = Nothing
    /\ \E n \in Calls :
            /\ sessions[n] # None
            /\ sessions' = [sessions EXCEPT ![n] = None]
    /\ \/ op' = [op EXCEPT ![t].kind = "close"] /\ report' = [report EXCEPT ![t] = "none"]
       \/ Return(t, "ok")
    /\ UNCHANGED <<volume, safe>>

Closed(t) ==
    /\ op[t].kind = "close"
    /\ Return(t, "ok")
    /\ UNCHANGED <<volume, safe, sessions>>

Fail(t) ==
    /\ Return(t, "failed")
    /\ UNCHANGED <<volume, safe, sessions>>

Commit ==
    /\ safe' = volume
    /\ UNCHANGED <<volume, sessions, op, report>>

AfterLoss(v) ==
    IF ~IsVolume(v) THEN {v}
    ELSE {[v EXCEPT !.weak = FALSE]} \cup (IF v.weak THEN {Lost} ELSE {})

\* A kill, or a power loss.
Crash ==
    /\ \/ UNCHANGED <<volume, safe>>
       \/ /\ volume' \in AfterLoss(volume) \cup AfterLoss(safe)
          /\ safe' = volume'
    /\ sessions' = NoSessions
    /\ op' = [t \in Threads |-> Nothing]
    /\ report' = [t \in Threads |-> "none"]

Next ==
    \/ \E t \in Threads :
            \/ Begin(t) \/ Create(t) \/ Created(t) \/ ChangePassword(t)
            \/ Open(t) \/ GiveUp(t) \/ Closed(t) \/ Fail(t)
    \/ Commit
    \/ Crash

Spec == Init /\ [][Next]_vars
=============================================================================
