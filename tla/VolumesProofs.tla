----------------------------- MODULE VolumesProofs -----------------------------
(***************************************************************************)
(* Theorems about Volumes, for any threads, passwords, sessions, calls and *)
(* crashes: the config file for every client, sessions and the refinement  *)
(* of VolumeStore for a careful one.                                       *)
(***************************************************************************)
EXTENDS Volumes, TLAPS

\* Opens volumes one at a time, and creates them one at a time and where there is none.
Careful == OverExisting = FALSE /\ {"init", "create"} \subseteq Serial

-----------------------------------------------------------------------------
(* The config file                                                         *)

HasTmp == {"write", "sync", "rename"}

\* cf after its sync, however that ended.
Marked(cf) == {[cf EXCEPT !.sync = s] : s \in {"failed", "done"}}

OnDisk(f) == f \in {None, Lost} \/ (f \in Config /\ f.sync # "none")

\* What each thread is doing.
CallShaped(t) ==
    /\ pc[t] = "idle" => loc[t] = Idle
    /\ pc[t] \in {"probe", "store"} =>
            loc[t].op = "init" /\ loc[t].cf = None /\ loc[t].n \in 1..calls
    /\ pc[t] = "delete" => loc[t].op = "close" /\ loc[t].cf = None
    /\ pc[t] \in InWriteFile => loc[t].op \in {"change", "create"} /\ loc[t].cf \in Config
    /\ pc[t] = "iv" => loc[t].op = "create" /\ loc[t].cf \in Config

\* Whoever writes the .tmp is alone with it, and renames what it has synced.
TmpInv ==
    /\ \A t \in Threads : pc[t] \in HasTmp => dir.tmp # None
    /\ \A t, u \in Threads : pc[t] \in HasTmp /\ pc[u] \in HasTmp => t = u
    /\ \A t \in Threads : pc[t] = "sync" => dir.tmp = loc[t].cf
    /\ \A t \in Threads : pc[t] = "rename" => dir.tmp \in Marked(loc[t].cf)

FileInv == TypeOK /\ (\A t \in Threads : CallShaped(t)) /\ TmpInv /\ ConfSurvives

\* The settings that Create writes have the type of settings.
LEMMA CreateSettingsTyped == \A a \in CreateArgs : CreateSettings(a) \in Settings
<1> SUFFICES ASSUME NEW a \in CreateArgs PROVE CreateSettings(a) \in Settings
    OBVIOUS
<1>1. a.longNameMax = 255
    BY VolumesAssumption DEF CreateArgs
<1>2. CreateFlags(a) \in SUBSET (KnownFlags \cup {"Unknown"})
    BY DEF CreateFlags, KnownFlags
<1> QED
    BY <1>1, <1>2 DEF CreateSettings, Settings

\* A configuration is not one of the markers.
LEMMA ConfigIsConfig == \A f \in Config : IsConfig(f) /\ f \notin {None, Torn, Lost}
BY FilesAssumption DEF IsConfig, NoConfig

LEMMA IsConfigTyped == \A f \in Config \cup NoConfig : IsConfig(f) => f \in Config
BY DEF IsConfig

\* A sync changes nothing but how it ended.
LEMMA MarkedTyped ==
    \A f \in Config : \A g \in Marked(f) :
        /\ g \in Config /\ g.sync # "none"
        /\ g.key = f.key /\ g.set = f.set /\ g.pw = f.pw /\ g.salt = f.salt /\ g.kdf = f.kdf
BY DEF Marked, Config

\* gocryptfs.conf is on disk, or was lost because it could not be synced.
LEMMA ConfOnDisk ==
    ASSUME FileInv
    PROVE  OnDisk(dir.conf) /\ OnDisk(journal.conf)
BY IsConfigTyped DEF FileInv, TypeOK, Directory, ConfSurvives, OnDisk

\* The scrypt parameters of a new hash.
LEMMA NewScryptTyped == \A logN \in Nat : NewScryptKDF(logN) \in ScryptKDF
BY DEF NewScryptKDF, ScryptKDF, KeyLen

\* A gocryptfs.conf from elsewhere.
LEMMA FileConfig == Init => dir.conf = None \/ (dir.conf \in Config /\ dir.conf.sync # "none")
<1> SUFFICES ASSUME Init PROVE dir.conf = None \/ (dir.conf \in Config /\ dir.conf.sync # "none")
    OBVIOUS
<1> DEFINE Made(f, p) == [key |-> f.key, pw |-> p, salt |-> 0, set |-> f.set,
                          kdf |-> f.kdf, sync |-> "done"]
<1>1. 0 \in Keys
    BY VolumesAssumption DEF Keys
<1>2. \A f \in Foreign, p \in Passwords : Made(f, p) \in Config /\ Made(f, p).sync # "none"
    BY <1>1, FilesAssumption DEF Config
<1>3. dir.conf \in {None} \cup {Made(f, p) : f \in Foreign, p \in Passwords}
    BY DEF Init
<1> HIDE DEF Made
<1> QED
    BY <1>2, <1>3

\* The initial states.
LEMMA FileInit == Init => FileInv
<1> SUFFICES ASSUME Init PROVE FileInv
    OBVIOUS
<1> USE VolumesAssumption
<1>1. dir.conf = None \/ (dir.conf \in Config /\ dir.conf.sync # "none")
    BY FileConfig
<1>2. dir \in Directory /\ dir.tmp = None
    BY <1>1 DEF Init, Directory, NoConfig
<1>3. calls \in 0..MaxCalls
    BY DEF Init
<1>4. Idle \in [op : {"none", "init", "close", "change", "create"},
                n : 0..MaxCalls, id : Sessions, cf : Config \cup {None}]
    BY DEF Idle, Sessions
<1>5. TypeOK
    BY <1>2, <1>3, <1>4 DEF Init, TypeOK
<1>6. \A t \in Threads : CallShaped(t)
    BY DEF Init, CallShaped, InWriteFile
<1>7. TmpInv
    BY DEF Init, TmpInv, HasTmp
<1>8. ConfSurvives
    BY <1>1, ConfigIsConfig DEF Init, ConfSurvives
<1> QED
    BY <1>5, <1>6, <1>7, <1>8 DEF FileInv

\* What a call returns fits the type of the variables.
LEMMA IdleTyped ==
    Idle \in [op : {"none", "init", "close", "change", "create"},
              n : 0..MaxCalls, id : Sessions, cf : Config \cup {None}]
BY VolumesAssumption DEF Idle, Sessions

\* gcf_init up to its session.
LEMMA InitVolumeFile ==
    ASSUME FileInv, NEW t \in Threads, InitVolume(t)
    PROVE  FileInv'
<1> USE VolumesAssumption, FilesAssumption DEF FileInv, files, registry, counts
<1>1. CASE UNCHANGED <<dir, journal, core, opened, held, pc, loc, calls, crashes>>
           /\ report' \in [Threads -> {"none", "ok", "failed"}] /\ fault' \in Config \cup {None}
    BY <1>1 DEF TypeOK, CallShaped, TmpInv, ConfSurvives
<1>2. CASE /\ Loads(dir.conf) /\ dir.conf.key # Empty
           /\ calls < MaxCalls
           /\ pc[t] = "idle"
           /\ Begin(t, "init", "probe")
           /\ core' = [core EXCEPT ![calls + 1] = dir.conf.key]
           /\ UNCHANGED <<dir, journal, opened, held, crashes, fault>>
    <2>1. dir.conf.key \in Keys /\ calls + 1 \in Calls
        <3>1. dir.conf \in Config
            BY <1>2, IsConfigTyped DEF TypeOK, Directory, Loads
        <3> QED
            BY <1>2, <3>1 DEF TypeOK, Config, Calls
    <2>2. [Idle EXCEPT !.op = "init", !.n = calls + 1]
             \in [op : {"none", "init", "close", "change", "create"},
                  n : 0..MaxCalls, id : Sessions, cf : Config \cup {None}]
        <3>1. calls + 1 \in 0..MaxCalls
            BY <2>1 DEF Calls
        <3> QED
            BY <3>1, IdleTyped DEF Idle
    <2>3. TypeOK'
        BY <1>2, <2>1, <2>2 DEF TypeOK, Begin, Calls
    <2>4. \A u \in Threads : CallShaped(u)'
        BY <1>2 DEF TypeOK, CallShaped, Begin, Idle, InWriteFile
    <2>5. TmpInv'
        BY <1>2 DEF TypeOK, TmpInv, HasTmp, Begin
    <2> QED
        BY <1>2, <2>3, <2>4, <2>5 DEF ConfSurvives
<1>3. ASSUME Loads(dir.conf), Panic(dir.conf)
      PROVE  FileInv'
    BY <1>3, <1>1, IsConfigTyped DEF Panic, Loads, TypeOK, Directory
<1>4. CASE Refuse(t)
    BY <1>4, <1>1 DEF Refuse, TypeOK
<1>5. \/ Loads(dir.conf) /\ Panic(dir.conf)
      \/ Refuse(t)
      \/ /\ Loads(dir.conf) /\ Mounts(dir.conf)
         /\ Begin(t, "init", "probe")
         /\ core' = [core EXCEPT ![calls + 1] = dir.conf.key]
         /\ UNCHANGED <<files, opened, held, crashes, fault>>
    BY DEF InitVolume, Unlocks, UnlockPanics
<1> QED
    BY <1>2, <1>3, <1>4, <1>5 DEF InitVolume, MayBegin, Mounts

\* The search for a session.
LEMMA ProbeSessionFile ==
    ASSUME FileInv, NEW t \in Threads, ProbeSession(t)
    PROVE  FileInv'
<1> USE VolumesAssumption, FilesAssumption DEF FileInv, ProbeSession, Step, files, registry, counts
<1>1. TypeOK'
    BY DEF TypeOK
<1>2. \A u \in Threads : CallShaped(u)'
    BY DEF TypeOK, CallShaped, InWriteFile
<1>3. TmpInv'
    BY DEF TypeOK, TmpInv, HasTmp
<1> QED
    BY <1>1, <1>2, <1>3 DEF ConfSurvives

\* The session is there.
LEMMA StoreSessionFile ==
    ASSUME FileInv, NEW t \in Threads, StoreSession(t)
    PROVE  FileInv'
<1> USE VolumesAssumption DEF FileInv, StoreSession, Return, Step, files, counts
<1>1. TypeOK'
    <2>1. loc[t].id \in Sessions /\ loc[t].n \in Calls
        BY DEF TypeOK, CallShaped, Calls
    <2> QED
        BY <2>1, IdleTyped DEF TypeOK
<1>2. \A u \in Threads : CallShaped(u)'
    BY DEF TypeOK, CallShaped, InWriteFile
<1>3. TmpInv'
    BY DEF TypeOK, TmpInv, HasTmp
<1> QED
    BY <1>1, <1>2, <1>3 DEF ConfSurvives

\* gcf_close up to the wiped keys.
LEMMA CloseVolumeFile ==
    ASSUME FileInv, NEW t \in Threads, CloseVolume(t)
    PROVE  FileInv'
<1> USE VolumesAssumption DEF FileInv, CloseVolume, files, counts
<1>1. TypeOK'
    <2>1. \A id \in Sessions : [Idle EXCEPT !.op = "close", !.id = id]
             \in [op : {"none", "init", "close", "change", "create"},
                  n : 0..MaxCalls, id : Sessions, cf : Config \cup {None}]
        BY IdleTyped DEF Idle
    <2>2. PICK n \in Calls : held[n] # None /\
            IF IsClosed(held[n]) THEN UNCHANGED <<core, pc, loc>>
            ELSE /\ core' = [core EXCEPT ![opened[held[n]]] = None]
                 /\ pc' = [pc EXCEPT ![t] = "delete"]
                 /\ loc' = [loc EXCEPT ![t] = [Idle EXCEPT !.op = "close", !.id = held[n]]]
        OBVIOUS
    <2>3. held[n] \in Sessions
        BY <2>2 DEF TypeOK
    <2>4. core' \in [Calls -> Keys \cup {None}]
        BY <2>2 DEF TypeOK
    <2>5. pc' \in [Threads -> {"idle", "probe", "store", "delete", "iv"} \cup InWriteFile]
        BY <2>2 DEF TypeOK
    <2>6. loc' \in [Threads -> [op : {"none", "init", "close", "change", "create"},
                                n : 0..MaxCalls, id : Sessions, cf : Config \cup {None}]]
        <3>1. loc' = loc \/ loc' = [loc EXCEPT ![t] = [Idle EXCEPT !.op = "close", !.id = held[n]]]
            BY <2>2
        <3>2. [Idle EXCEPT !.op = "close", !.id = held[n]]
                 \in [op : {"none", "init", "close", "change", "create"},
                      n : 0..MaxCalls, id : Sessions, cf : Config \cup {None}]
            BY <2>1, <2>3
        <3>3. CASE loc' = loc
            BY <3>3 DEF TypeOK
        <3>4. CASE loc' = [loc EXCEPT ![t] = [Idle EXCEPT !.op = "close", !.id = held[n]]]
            BY <3>2, <3>4 DEF TypeOK
        <3> QED
            BY <3>1, <3>3, <3>4
    <2>7. held' \in [Calls -> Sessions \cup {None}]
        BY DEF TypeOK
    <2>8. report' \in [Threads -> {"none", "ok", "failed"}]
        BY DEF TypeOK
    <2> QED
        BY <2>4, <2>5, <2>6, <2>7, <2>8 DEF TypeOK
<1>2. \A u \in Threads : CallShaped(u)'
    <2>1. \/ UNCHANGED <<pc, loc>>
          \/ \E id \in Sessions :
                /\ pc' = [pc EXCEPT ![t] = "delete"]
                /\ loc' = [loc EXCEPT ![t] = [Idle EXCEPT !.op = "close", !.id = id]]
        BY DEF TypeOK
    <2>2. CASE UNCHANGED <<pc, loc>>
        BY <2>2 DEF CallShaped
    <2>3. ASSUME NEW id \in Sessions,
                 pc' = [pc EXCEPT ![t] = "delete"],
                 loc' = [loc EXCEPT ![t] = [Idle EXCEPT !.op = "close", !.id = id]]
          PROVE  \A u \in Threads : CallShaped(u)'
        <3>1. loc'[t].op = "close" /\ loc'[t].cf = None
            BY <2>3 DEF TypeOK, Idle
        <3>2. CallShaped(t)'
            BY <2>3, <3>1 DEF TypeOK, CallShaped, InWriteFile
        <3> QED
            BY <2>3, <3>2 DEF TypeOK, CallShaped
    <2> QED
        BY <2>1, <2>2, <2>3
<1>3. TmpInv'
    BY DEF TypeOK, TmpInv, HasTmp
<1> QED
    BY <1>1, <1>2, <1>3 DEF ConfSurvives

\* The session is gone.
LEMMA DeleteSessionFile ==
    ASSUME FileInv, NEW t \in Threads, DeleteSession(t)
    PROVE  FileInv'
<1> USE VolumesAssumption DEF FileInv, DeleteSession, Return, Step, files, counts
<1>1. TypeOK'
    BY IdleTyped DEF TypeOK
<1>2. \A u \in Threads : CallShaped(u)'
    BY DEF TypeOK, CallShaped, InWriteFile
<1>3. TmpInv'
    BY DEF TypeOK, TmpInv, HasTmp
<1> QED
    BY <1>1, <1>2, <1>3 DEF ConfSurvives

\* A call that goes on to WriteFile.
LEMMA BeginWriteFile ==
    ASSUME FileInv, NEW t \in Threads, pc[t] = "idle",
           NEW kind \in {"change", "create"}, NEW cf \in Config, calls < MaxCalls,
           BeginWrite(t, kind, cf)
    PROVE  FileInv'
<1> USE VolumesAssumption, FilesAssumption DEF FileInv, BeginWrite, files, registry
<1>1. TypeOK'
    <2>1. [op |-> kind, n |-> calls + 1, id |-> 0, cf |-> cf]
             \in [op : {"none", "init", "close", "change", "create"},
                  n : 0..MaxCalls, id : Sessions, cf : Config \cup {None}]
        BY DEF TypeOK, Sessions
    <2> QED
        BY <2>1 DEF TypeOK, InWriteFile
<1>2. \A u \in Threads : CallShaped(u)'
    BY DEF TypeOK, CallShaped, InWriteFile
<1>3. TmpInv'
    BY DEF TypeOK, TmpInv, HasTmp
<1> QED
    BY <1>1, <1>2, <1>3 DEF ConfSurvives

\* A step that changes no file and no call.
LEMMA NoStepFile ==
    ASSUME FileInv, UNCHANGED <<files, registry, pc, loc, counts>>,
           report' \in [Threads -> {"none", "ok", "failed"}], fault' \in Config \cup {None}
    PROVE  FileInv'
BY DEF FileInv, TypeOK, CallShaped, TmpInv, ConfSurvives, files, registry, counts

LEMMA RefuseFile ==
    ASSUME FileInv, NEW t \in Threads, Refuse(t)
    PROVE  FileInv'
<1>1. report' \in [Threads -> {"none", "ok", "failed"}] /\ fault' \in Config \cup {None}
    BY DEF Refuse, FileInv, TypeOK
<1> QED
    BY <1>1, NoStepFile DEF Refuse

LEMMA PanicFile ==
    ASSUME FileInv, NEW cf \in Config, Panic(cf)
    PROVE  FileInv'
<1>1. report' \in [Threads -> {"none", "ok", "failed"}] /\ fault' \in Config \cup {None}
    BY DEF Panic, FileInv, TypeOK
<1> QED
    BY <1>1, NoStepFile DEF Panic

\* What gcf_change_password writes.
NewPassword(p, logN) == EncryptKey(dir.conf.key, p, dir.conf.set, logN)

LEMMA NewPasswordTyped ==
    ASSUME FileInv, Loads(dir.conf), calls < MaxCalls, NEW p \in Passwords,
           NEW logN \in LogN(dir.conf.kdf)
    PROVE  NewPassword(p, logN) \in Config
<1>1. dir.conf \in Config
    BY IsConfigTyped DEF FileInv, TypeOK, Directory, Loads
<1>2. calls + 1 \in Keys
    BY VolumesAssumption DEF FileInv, TypeOK, Keys
<1>3. dir.conf.kdf.logN \in Nat
    BY <1>1 DEF Config, ScryptKDF
<1>4. logN \in Nat
    BY <1>3 DEF LogN
<1>5. NewScryptKDF(logN) \in ScryptKDF
    BY <1>4, NewScryptTyped
<1> QED
    BY <1>1, <1>2, <1>5 DEF NewPassword, EncryptKey, Config

\* It fails, ends the process, or goes on to WriteFile.
LEMMA ChangePasswordCases ==
    ASSUME FileInv, NEW t \in Threads, ChangePassword(t)
    PROVE  \/ Refuse(t)
           \/ Panic(dir.conf) /\ \E secret \in Secrets : UnlockPanics(secret)
           \/ \E p \in Passwords, logN \in LogN(dir.conf.kdf) :
                /\ Loads(dir.conf) /\ pc[t] = "idle" /\ calls < MaxCalls
                /\ NewPassword(p, logN) \in Config
                /\ WriteConfig(t, "change", NewPassword(p, logN))
<1>1. PICK secret \in Secrets, p \in Passwords :
        IF UnlockPanics(secret) THEN Panic(dir.conf)
        ELSE IF ~Unlocks(secret) THEN Refuse(t)
        ELSE \E logN \in LogN(dir.conf.kdf) : WriteConfig(t, "change", NewPassword(p, logN))
    BY DEF ChangePassword, NewPassword
<1>2. pc[t] = "idle" /\ calls < MaxCalls
    BY DEF ChangePassword, MayBegin
<1>3. CASE UnlockPanics(secret)
    BY <1>1, <1>3
<1>4. CASE ~UnlockPanics(secret) /\ ~Unlocks(secret)
    BY <1>1, <1>4
<1>5. CASE ~UnlockPanics(secret) /\ Unlocks(secret)
    <2>1. PICK logN \in LogN(dir.conf.kdf) : WriteConfig(t, "change", NewPassword(p, logN))
        BY <1>1, <1>5
    <2>2. Loads(dir.conf)
        BY <1>5 DEF Unlocks
    <2> QED
        BY <1>2, <2>1, <2>2, NewPasswordTyped
<1> QED
    BY <1>3, <1>4, <1>5

LEMMA ChangePasswordFile ==
    ASSUME FileInv, NEW t \in Threads, ChangePassword(t)
    PROVE  FileInv'
<1>1. ASSUME NEW secret \in Secrets, UnlockPanics(secret), Panic(dir.conf)
      PROVE  FileInv'
    <2>1. dir.conf \in Config
        BY <1>1, IsConfigTyped DEF UnlockPanics, Loads, FileInv, TypeOK, Directory
    <2> QED
        BY <1>1, <2>1, PanicFile
<1> QED
    BY <1>1, ChangePasswordCases, RefuseFile, PanicFile, BeginWriteFile DEF WriteConfig

\* What gcf_create_volume writes.
NewVolume(p, a) == EncryptKey(calls + 1, p, CreateSettings(a), a.logN)

LEMMA NewVolumeTyped ==
    ASSUME FileInv, calls < MaxCalls, NEW p \in Passwords, NEW a \in CreateArgs
    PROVE  NewVolume(p, a) \in Config
<1>1. calls + 1 \in Keys
    BY VolumesAssumption DEF FileInv, TypeOK, Keys
<1>2. a.logN \in Nat
    BY VolumesAssumption DEF CreateArgs
<1>3. NewScryptKDF(a.logN) \in ScryptKDF
    BY <1>2, NewScryptTyped
<1>4. CreateSettings(a) \in Settings
    BY CreateSettingsTyped
<1> QED
    BY <1>1, <1>3, <1>4 DEF NewVolume, EncryptKey, Config

LEMMA CreateVolumeCases ==
    ASSUME FileInv, NEW t \in Threads, CreateVolume(t)
    PROVE  \/ Refuse(t)
           \/ \E p \in Passwords, a \in CreateArgs :
                /\ pc[t] = "idle" /\ calls < MaxCalls
                /\ NewVolume(p, a) \in Config
                /\ WriteConfig(t, "create", NewVolume(p, a))
<1>1. PICK a \in CreateArgs, p \in Passwords :
        IF ~Validate(CreateSettings(a), NewScryptKDF(a.logN)) THEN Refuse(t)
        ELSE WriteConfig(t, "create", NewVolume(p, a))
    BY DEF CreateVolume, NewVolume
<1>2. pc[t] = "idle" /\ calls < MaxCalls
    BY DEF CreateVolume, MayBegin
<1> QED
    BY <1>1, <1>2, NewVolumeTyped

LEMMA CreateVolumeFile ==
    ASSUME FileInv, NEW t \in Threads, CreateVolume(t)
    PROVE  FileInv'
BY CreateVolumeCases, RefuseFile, PanicFile, BeginWriteFile DEF WriteConfig

\* The steps of WriteFile.
LEMMA OpenTmpFile ==
    ASSUME FileInv, NEW t \in Threads, OpenTmp(t)
    PROVE  FileInv'
<1> USE VolumesAssumption, FilesAssumption DEF FileInv, OpenTmp, Return, Step, registry, counts
<1>1. TypeOK'
    <2>1. dir' \in Directory
        BY DEF TypeOK, Directory, NoConfig
    <2>2. pc' \in [Threads -> {"idle", "probe", "store", "delete", "iv"} \cup InWriteFile]
        BY DEF TypeOK, InWriteFile
    <2>3. loc' \in [Threads -> [op : {"none", "init", "close", "change", "create"},
                                n : 0..MaxCalls, id : Sessions, cf : Config \cup {None}]]
        BY IdleTyped DEF TypeOK
    <2> QED
        BY <2>1, <2>2, <2>3 DEF TypeOK
<1>2. \A u \in Threads : CallShaped(u)'
    BY DEF TypeOK, CallShaped, InWriteFile
<1>3. TmpInv'
    <2>1. CASE dir.tmp = None
        <3>1. dir'.tmp = Torn /\ pc' = [pc EXCEPT ![t] = "write"] /\ loc' = loc
            BY <2>1 DEF TypeOK, Directory
        <3>2. \A u \in Threads : pc[u] \notin HasTmp
            BY <2>1 DEF TmpInv
        <3> QED
            BY <3>1, <3>2 DEF TypeOK, TmpInv, HasTmp
    <2>2. CASE dir.tmp # None
        BY <2>2 DEF TypeOK, TmpInv, HasTmp
    <2> QED
        BY <2>1, <2>2
<1> QED
    BY <1>1, <1>2, <1>3 DEF TypeOK, Directory, ConfSurvives

LEMMA WriteTmpFile ==
    ASSUME FileInv, NEW t \in Threads, WriteTmp(t)
    PROVE  FileInv'
<1> USE VolumesAssumption, FilesAssumption DEF FileInv, WriteTmp, Step, registry, counts
<1>1. loc[t].cf \in Config
    BY DEF CallShaped, InWriteFile
<1>2. TypeOK'
    BY <1>1 DEF TypeOK, Directory, InWriteFile
<1>3. \A u \in Threads : CallShaped(u)'
    BY DEF TypeOK, CallShaped, InWriteFile
<1>4. TmpInv'
    BY <1>1 DEF TypeOK, Directory, TmpInv, HasTmp
<1> QED
    BY <1>2, <1>3, <1>4 DEF TypeOK, Directory, ConfSurvives

LEMMA SyncTmpFile ==
    ASSUME FileInv, NEW t \in Threads, SyncTmp(t)
    PROVE  FileInv'
<1> USE FilesAssumption DEF FileInv
<1>1. dir.tmp = loc[t].cf /\ loc[t].cf \in Config /\ dir \in Directory
    BY DEF SyncTmp, Step, CallShaped, InWriteFile, TmpInv, TypeOK
<1>2. PICK f \in Marked(loc[t].cf) : dir' = [dir EXCEPT !.tmp = f]
    BY <1>1 DEF SyncTmp, Marked
<1>3. /\ dir' \in Directory
      /\ dir'.tmp = f /\ dir'.tmp # None /\ dir'.conf = dir.conf
    BY <1>1, <1>2, MarkedTyped DEF Directory
<1>4. /\ pc[t] = "sync" /\ pc' = [pc EXCEPT ![t] = "rename"]
      /\ UNCHANGED <<journal, opened, core, held, loc, report, calls, crashes, fault>>
    BY DEF SyncTmp, Step, registry, counts
<1>5. TypeOK'
    BY <1>3, <1>4 DEF TypeOK, InWriteFile
<1>6. \A u \in Threads : CallShaped(u)'
    BY <1>4 DEF TypeOK, CallShaped, InWriteFile
<1>7. TmpInv'
    <2>1. \A u \in Threads : pc'[u] \in HasTmp => u = t
        BY <1>4 DEF TypeOK, TmpInv, HasTmp
    <2> QED
        BY <1>2, <1>3, <1>4, <2>1 DEF TypeOK, TmpInv, HasTmp
<1> QED
    BY <1>3, <1>4, <1>5, <1>6, <1>7 DEF ConfSurvives

LEMMA RenameTmpFile ==
    ASSUME FileInv, NEW t \in Threads, RenameTmp(t)
    PROVE  FileInv'
<1> USE FilesAssumption DEF FileInv
<1>1. dir.tmp \in Marked(loc[t].cf) /\ loc[t].cf \in Config
    BY DEF RenameTmp, Return, Step, CallShaped, InWriteFile, TmpInv
<1>2. dir'.conf = dir.tmp /\ dir'.tmp = None /\ dir' \in Directory
    BY <1>1, MarkedTyped DEF RenameTmp, TypeOK, Directory, NoConfig
<1>3. /\ pc[t] = "rename"
      /\ UNCHANGED <<journal, opened, core, held, calls, crashes, fault>>
      /\ \/ pc' = [pc EXCEPT ![t] = "iv"] /\ loc[t].op = "create" /\ UNCHANGED <<loc, report>>
         \/ /\ pc' = [pc EXCEPT ![t] = "idle"] /\ loc' = [loc EXCEPT ![t] = Idle]
            /\ report' = [report EXCEPT ![t] = "ok"]
    BY DEF RenameTmp, Return, Step, registry, counts
<1>4. TypeOK'
    <2>1. pc' \in [Threads -> {"idle", "probe", "store", "delete", "iv"} \cup InWriteFile]
        BY <1>3 DEF TypeOK
    <2>2. loc' \in [Threads -> [op : {"none", "init", "close", "change", "create"},
                                n : 0..MaxCalls, id : Sessions, cf : Config \cup {None}]]
        BY <1>3, IdleTyped DEF TypeOK
    <2>3. report' \in [Threads -> {"none", "ok", "failed"}]
        BY <1>3 DEF TypeOK
    <2> QED
        BY <1>2, <1>3, <2>1, <2>2, <2>3 DEF TypeOK
<1>5. \A u \in Threads : CallShaped(u)'
    BY <1>1, <1>3 DEF TypeOK, CallShaped, InWriteFile
<1>6. TmpInv'
    <2>1. \A u \in Threads : pc'[u] \notin HasTmp
        BY <1>3 DEF TypeOK, TmpInv, HasTmp
    <2> QED
        BY <2>1 DEF TmpInv, HasTmp
<1>7. ConfSurvives'
    BY <1>1, <1>2, <1>3, MarkedTyped, ConfigIsConfig DEF ConfSurvives
<1> QED
    BY <1>4, <1>5, <1>6, <1>7

LEMMA WriteRootIVFile ==
    ASSUME FileInv, NEW t \in Threads, WriteRootIV(t)
    PROVE  FileInv'
<1> USE VolumesAssumption, FilesAssumption DEF FileInv, WriteRootIV, Return, Step, registry, counts
<1>1. TypeOK'
    BY IdleTyped DEF TypeOK, Directory
<1>2. \A u \in Threads : CallShaped(u)'
    BY DEF TypeOK, CallShaped, InWriteFile
<1>3. TmpInv'
    BY DEF TypeOK, Directory, TmpInv, HasTmp
<1> QED
    BY <1>1, <1>2, <1>3 DEF TypeOK, Directory, ConfSurvives

LEMMA FailStepFile ==
    ASSUME FileInv, NEW t \in Threads, FailStep(t)
    PROVE  FileInv'
<1> USE VolumesAssumption DEF FileInv, FailStep, Return, Step, files, registry, counts
<1>1. TypeOK'
    BY IdleTyped DEF TypeOK
<1>2. \A u \in Threads : CallShaped(u)'
    BY DEF TypeOK, CallShaped, InWriteFile
<1>3. TmpInv'
    BY DEF TypeOK, TmpInv, HasTmp
<1> QED
    BY <1>1, <1>2, <1>3 DEF ConfSurvives

\* The machine.
LEMMA CommitFile ==
    ASSUME FileInv, Commit
    PROVE  FileInv'
BY DEF FileInv, Commit, TypeOK, CallShaped, TmpInv, ConfSurvives, registry, counts

LEMMA RestartFile ==
    ASSUME FileInv, Restart, dir' \in Directory, journal' \in Directory, ConfSurvives'
    PROVE  FileInv'
<1> USE VolumesAssumption DEF FileInv, Restart
<1>1. TypeOK'
    BY IdleTyped DEF TypeOK
<1>2. (\A u \in Threads : CallShaped(u)') /\ TmpInv'
    BY DEF CallShaped, TmpInv, HasTmp, InWriteFile
<1> QED
    BY <1>1, <1>2

LEMMA KillFile ==
    ASSUME FileInv, Kill
    PROVE  FileInv'
BY RestartFile DEF FileInv, Kill, TypeOK, ConfSurvives, files

\* What is on disk survives a power loss, what could not be synced may be lost.
LEMMA LossTyped ==
    \A f \in Config \cup NoConfig : \A g \in AfterLoss(f) :
        /\ g \in Config \cup NoConfig
        /\ OnDisk(f) => OnDisk(g)
        /\ IsConfig(g) => /\ IsConfig(f) /\ f \in Config /\ g \in Config /\ g.sync = "done"
                         /\ g.key = f.key /\ g.set = f.set /\ g.pw = f.pw
                         /\ g.salt = f.salt /\ g.kdf = f.kdf
<1> SUFFICES ASSUME NEW f \in Config \cup NoConfig, NEW g \in AfterLoss(f)
             PROVE  /\ g \in Config \cup NoConfig
                    /\ OnDisk(f) => OnDisk(g)
                    /\ IsConfig(g) => /\ IsConfig(f) /\ f \in Config /\ g \in Config /\ g.sync = "done"
                                     /\ g.key = f.key /\ g.set = f.set /\ g.pw = f.pw
                                     /\ g.salt = f.salt /\ g.kdf = f.kdf
    OBVIOUS
<1>1. CASE ~IsConfig(f)
    BY <1>1 DEF AfterLoss, OnDisk
<1>2. CASE IsConfig(f)
    <2>1. f \in Config
        BY <1>2 DEF IsConfig
    <2>2. CASE g = [f EXCEPT !.sync = "done"]
        <3>1. /\ g \in Config /\ g.sync = "done"
              /\ g.key = f.key /\ g.set = f.set /\ g.pw = f.pw /\ g.salt = f.salt /\ g.kdf = f.kdf
            BY <2>1, <2>2 DEF Config
        <3> QED
            BY <1>2, <2>1, <3>1 DEF OnDisk
    <2>3. CASE g # [f EXCEPT !.sync = "done"]
        <3>1. g \in {Torn, Lost} /\ (f.sync = IF g = Torn THEN "none" ELSE "failed")
            BY <1>2, <2>3 DEF AfterLoss
        <3>2. ~IsConfig(g)
            BY <3>1 DEF IsConfig, NoConfig
        <3>3. f \notin {None, Lost}
            BY <1>2 DEF IsConfig, NoConfig
        <3> QED
            BY <3>1, <3>2, <3>3 DEF OnDisk, NoConfig
    <2> QED
        BY <2>2, <2>3
<1> QED
    BY <1>1, <1>2

LEMMA LossConf ==
    ASSUME FileInv, PowerLoss
    PROVE  \E d \in {dir, journal} :
            /\ d \in Directory /\ dir' \in Directory /\ journal' = dir'
            /\ dir'.conf \in AfterLoss(d.conf) /\ dir'.tmp \in AfterLoss(d.tmp)
            /\ OnDisk(d.conf) /\ OnDisk(dir'.conf)
<1>1. PICK d \in {dir, journal} : dir' \in LoseUnsynced(d)
    BY DEF PowerLoss
<1>2. d \in Directory /\ OnDisk(d.conf)
    BY ConfOnDisk DEF FileInv, TypeOK
<1>3. dir'.conf \in AfterLoss(d.conf) /\ dir'.tmp \in AfterLoss(d.tmp) /\ dir'.iv = d.iv
      /\ dir' = [conf |-> dir'.conf, tmp |-> dir'.tmp, iv |-> dir'.iv]
    BY <1>1 DEF LoseUnsynced
<1>4. d.conf \in Config \cup NoConfig /\ d.tmp \in Config \cup NoConfig /\ d.iv \in BOOLEAN
    BY <1>2 DEF Directory
<1>5. dir'.conf \in Config \cup NoConfig /\ dir'.tmp \in Config \cup NoConfig /\ OnDisk(dir'.conf)
    BY <1>2, <1>3, <1>4, LossTyped
<1>6. dir' \in Directory
    BY <1>3, <1>4, <1>5 DEF Directory
<1> QED
    BY <1>2, <1>3, <1>5, <1>6 DEF PowerLoss

LEMMA PowerLossFile ==
    ASSUME FileInv, PowerLoss
    PROVE  FileInv'
<1>1. dir' \in Directory /\ journal' = dir' /\ OnDisk(dir'.conf)
    BY LossConf
<1>2. ConfSurvives'
    BY <1>1, ConfigIsConfig DEF OnDisk, ConfSurvives
<1> QED
    BY <1>1, <1>2, RestartFile DEF PowerLoss

LEMMA FileStep == FileInv /\ [Next]_vars => FileInv'
<1> SUFFICES ASSUME FileInv, [Next]_vars
             PROVE  FileInv'
    OBVIOUS
<1>1. CASE UNCHANGED vars
    BY <1>1 DEF vars, FileInv, TypeOK, CallShaped, TmpInv, ConfSurvives
<1>2. ASSUME NEW t \in Threads,
             \/ InitVolume(t) \/ ProbeSession(t) \/ StoreSession(t)
             \/ CloseVolume(t) \/ DeleteSession(t)
             \/ ChangePassword(t) \/ CreateVolume(t)
             \/ OpenTmp(t) \/ WriteTmp(t) \/ SyncTmp(t) \/ RenameTmp(t) \/ WriteRootIV(t)
             \/ FailStep(t)
      PROVE  FileInv'
    BY <1>2, InitVolumeFile, ProbeSessionFile, StoreSessionFile, CloseVolumeFile,
       DeleteSessionFile, ChangePasswordFile, CreateVolumeFile, OpenTmpFile, WriteTmpFile,
       SyncTmpFile, RenameTmpFile, WriteRootIVFile, FailStepFile
<1> QED
    BY <1>1, <1>2, CommitFile, KillFile, PowerLossFile DEF Next

\* What each variable holds, for any threads, calls, failures and crashes.
THEOREM Types == Spec => []TypeOK
BY FileInit, FileStep, PTL DEF Spec, FileInv

\* WriteFile replaces gocryptfs.conf atomically: for any clients that create volumes and
\* change passwords at once, in any order, it is complete at every moment and after every
\* kill, because whoever renames the .tmp made it alone and tried to sync it; a power loss takes
\* it only if that sync failed, after which WriteFile renames all the same.
THEOREM ConfIsAtomic == Spec => []ConfSurvives
BY FileInit, FileStep, PTL DEF Spec, FileInv

-----------------------------------------------------------------------------
(* The key                                                                 *)

SameKey(f, g) ==
    f = g \/ (IsConfig(f) /\ IsConfig(g) /\ f.key = g.key /\ f.set = g.set)

\* A volume on disk is the one in the directory, a new password is for it, and a new volume
\* is for a directory without one.
KeyInv ==
    /\ journal.conf # None => dir.conf # None /\ SameKey(journal.conf, dir.conf)
    /\ \A t \in Threads : pc[t] \in InWriteFile =>
            IF loc[t].op = "change" THEN IsConfig(dir.conf) /\ SameKey(loc[t].cf, dir.conf)
            ELSE dir.conf = None
    /\ \A t, u \in Threads : Running(t, "create") /\ Running(u, "create") => t = u

LEMMA KeyInit == Init => KeyInv
BY DEF Init, KeyInv, SameKey, Running, Idle, InWriteFile

\* A step that keeps the config file and begins no call that writes one.
LEMMA KeyFrame ==
    ASSUME KeyInv,
           dir'.conf = dir.conf,
           journal'.conf \in {journal.conf, dir.conf},
           \A u \in Threads : pc'[u] \in InWriteFile => pc[u] \in InWriteFile /\ loc'[u] = loc[u],
           \A u \in Threads : Running(u, "create")' => Running(u, "create")
    PROVE  KeyInv'
<1>1. journal'.conf # None => dir'.conf # None /\ SameKey(journal'.conf, dir'.conf)
    BY DEF KeyInv, SameKey
<1>2. ASSUME NEW u \in Threads, pc'[u] \in InWriteFile
      PROVE  IF loc'[u].op = "change" THEN IsConfig(dir'.conf) /\ SameKey(loc'[u].cf, dir'.conf)
             ELSE dir'.conf = None
    BY <1>2 DEF KeyInv
<1> QED
    BY <1>1, <1>2 DEF KeyInv, SameKey

\* A call that goes on to WriteFile, for the volume that is there or where there is none.
LEMMA BeginWriteKey ==
    ASSUME FileInv, KeyInv, NEW t \in Threads, NEW kind \in {"change", "create"}, NEW cf,
           BeginWrite(t, kind, cf),
           IF kind = "change" THEN IsConfig(dir.conf) /\ SameKey(cf, dir.conf) ELSE dir.conf = None,
           kind = "create" => \A u \in Threads : ~Running(u, "create")
    PROVE  KeyInv'
<1> USE DEF BeginWrite, files, FileInv, TypeOK
<1>1. journal'.conf # None => dir'.conf # None /\ SameKey(journal'.conf, dir'.conf)
    BY DEF KeyInv, SameKey
<1>2. \A u \in Threads \ {t} : pc'[u] = pc[u] /\ loc'[u] = loc[u]
    OBVIOUS
<1>3. loc'[t].op = kind /\ loc'[t].cf = cf
    OBVIOUS
<1>4. ASSUME NEW u \in Threads, pc'[u] \in InWriteFile
      PROVE  IF loc'[u].op = "change" THEN IsConfig(dir'.conf) /\ SameKey(loc'[u].cf, dir'.conf)
             ELSE dir'.conf = None
    <2>1. CASE u = t
        BY <1>3, <2>1
    <2>2. CASE u # t
        <3>1. pc[u] \in InWriteFile /\ loc'[u] = loc[u] /\ dir' = dir
            BY <1>2, <1>4, <2>2
        <3> QED
            BY <3>1 DEF KeyInv
    <2> QED
        BY <2>1, <2>2
<1>5. \A u, w \in Threads : loc'[u].op = "create" /\ loc'[w].op = "create" => u = w
    BY <1>2, <1>3 DEF KeyInv, Running
<1> QED
    BY <1>1, <1>4, <1>5 DEF KeyInv, SameKey, Running

LEMMA ChangePasswordKey ==
    ASSUME FileInv, KeyInv, NEW t \in Threads, ChangePassword(t)
    PROVE  KeyInv'
<1>1. ASSUME NEW cf, Panic(cf) \/ Refuse(t)
      PROVE  KeyInv'
    BY <1>1, KeyFrame DEF Panic, Refuse, files, Running
<1>2. ASSUME NEW p \in Passwords, NEW logN, Loads(dir.conf), NewPassword(p, logN) \in Config,
             BeginWrite(t, "change", NewPassword(p, logN))
      PROVE  KeyInv'
    <2>1. IsConfig(dir.conf) /\ IsConfig(NewPassword(p, logN))
        BY <1>2, ConfigIsConfig DEF Loads
    <2>2. SameKey(NewPassword(p, logN), dir.conf)
        BY <2>1 DEF SameKey, NewPassword, EncryptKey
    <2> QED
        BY <1>2, <2>1, <2>2, BeginWriteKey
<1> QED
    BY <1>1, <1>2, ChangePasswordCases DEF WriteConfig

LEMMA CreateVolumeKey ==
    ASSUME Careful, FileInv, KeyInv, NEW t \in Threads, CreateVolume(t)
    PROVE  KeyInv'
<1>1. dir.conf = None /\ \A u \in Threads : ~Running(u, "create")
    BY DEF Careful, CreateVolume, MayBegin
<1>2. ASSUME NEW cf, Panic(cf) \/ Refuse(t)
      PROVE  KeyInv'
    BY <1>2, KeyFrame DEF Panic, Refuse, files, Running
<1>3. ASSUME NEW cf, BeginWrite(t, "create", cf)
      PROVE  KeyInv'
    BY <1>1, <1>3, BeginWriteKey
<1> QED
    BY <1>2, <1>3, CreateVolumeCases DEF WriteConfig

\* What a rename does: nothing to the key, if there is one.
LEMMA RenamedConf ==
    ASSUME FileInv, KeyInv, NEW t \in Threads, RenameTmp(t)
    PROVE  /\ dir'.conf \in Marked(loc[t].cf) /\ loc[t].cf \in Config
           /\ IsConfig(dir'.conf)
           /\ IF loc[t].op = "change" THEN IsConfig(dir.conf) /\ SameKey(dir'.conf, dir.conf)
              ELSE loc[t].op = "create" /\ dir.conf = None
<1>1. dir.tmp \in Marked(loc[t].cf) /\ loc[t].cf \in Config /\ pc[t] \in InWriteFile
    BY DEF FileInv, RenameTmp, Return, Step, CallShaped, InWriteFile, TmpInv
<1>2. dir'.conf = dir.tmp
    BY <1>1 DEF RenameTmp, FileInv, TypeOK, Directory
<1>3. IsConfig(dir'.conf) /\ IsConfig(loc[t].cf)
    BY <1>1, <1>2, MarkedTyped, ConfigIsConfig
<1>4. SameKey(dir'.conf, loc[t].cf)
    BY <1>1, <1>2, <1>3, MarkedTyped DEF SameKey
<1>5. loc[t].op \in {"change", "create"}
    BY <1>1 DEF FileInv, CallShaped
<1> QED
    BY <1>1, <1>2, <1>3, <1>4, <1>5 DEF KeyInv, SameKey

LEMMA RenameTmpKey ==
    ASSUME FileInv, KeyInv, NEW t \in Threads, RenameTmp(t)
    PROVE  KeyInv'
<1>1. /\ pc[t] \in InWriteFile /\ pc'[t] \notin InWriteFile
      /\ \A u \in Threads \ {t} : pc'[u] = pc[u] /\ loc'[u] = loc[u]
      /\ loc'[t] \in {loc[t], Idle}
      /\ journal' = journal
    BY DEF RenameTmp, Return, Step, FileInv, TypeOK, InWriteFile
<1>2. journal'.conf # None => dir'.conf # None /\ SameKey(journal'.conf, dir'.conf)
    <2>1. dir'.conf # None
        BY RenamedConf DEF IsConfig, NoConfig
    <2> QED
        BY <1>1, <2>1, RenamedConf DEF KeyInv, SameKey
<1>3. ASSUME NEW u \in Threads, pc'[u] \in InWriteFile
      PROVE  IF loc'[u].op = "change" THEN IsConfig(dir'.conf) /\ SameKey(loc'[u].cf, dir'.conf)
             ELSE dir'.conf = None
    <2>1. u # t /\ pc[u] \in InWriteFile /\ loc'[u] = loc[u]
        BY <1>1, <1>3
    <2>2. CASE loc[t].op = "change"
        <3>1. IsConfig(dir.conf) /\ loc[u].op = "change" /\ SameKey(loc[u].cf, dir.conf)
            <4>1. IsConfig(dir.conf) /\ dir.conf # None
                BY <2>2, RenamedConf DEF IsConfig, NoConfig
            <4> QED
                BY <2>1, <4>1 DEF KeyInv
        <3> QED
            BY <2>1, <2>2, <3>1, RenamedConf DEF SameKey
    <2>3. CASE loc[t].op # "change"
        <3>1. loc[t].op = "create" /\ dir.conf = None
            BY <2>3, RenamedConf
        <3>2. loc[u].op = "create"
            <4>1. ~IsConfig(dir.conf)
                BY <3>1 DEF IsConfig, NoConfig
            <4>2. loc[u].op # "change"
                BY <2>1, <4>1 DEF KeyInv
            <4>3. loc[u].op \in {"change", "create"}
                BY <2>1 DEF FileInv, CallShaped
            <4> QED
                BY <4>2, <4>3
        <3> QED
            BY <2>1, <3>1, <3>2 DEF KeyInv, Running
    <2> QED
        BY <2>2, <2>3
<1>4. \A u, w \in Threads : loc'[u].op = "create" /\ loc'[w].op = "create" => u = w
    BY <1>1 DEF KeyInv, Running, Idle
<1> QED
    BY <1>2, <1>3, <1>4 DEF KeyInv, SameKey, Running

LEMMA KeyStep == Careful /\ FileInv /\ KeyInv /\ [Next]_vars => KeyInv'
<1> SUFFICES ASSUME Careful, FileInv, KeyInv, [Next]_vars
             PROVE  KeyInv'
    OBVIOUS
<1> USE DEF Step, Return, files, FileInv, TypeOK, Running
<1>1. CASE UNCHANGED vars
    BY <1>1, KeyFrame DEF vars
<1>2. ASSUME NEW t \in Threads, InitVolume(t)
      PROVE  KeyInv'
    <2>1. /\ UNCHANGED <<dir, journal>>
          /\ \/ UNCHANGED <<pc, loc>>
             \/ /\ pc' = [pc EXCEPT ![t] = "probe"]
                /\ \E n : loc' = [loc EXCEPT ![t] = [Idle EXCEPT !.op = "init", !.n = n]]
        BY <1>2 DEF InitVolume, Begin, Panic, Refuse
    <2>2. /\ \A u \in Threads : pc'[u] \in InWriteFile => pc[u] \in InWriteFile /\ loc'[u] = loc[u]
          /\ \A u \in Threads : loc'[u].op = "create" => loc[u].op = "create"
        <3>1. CASE UNCHANGED <<pc, loc>>
            BY <3>1
        <3>2. CASE ~UNCHANGED <<pc, loc>>
            <4>1. PICK n : /\ pc' = [pc EXCEPT ![t] = "probe"]
                           /\ loc' = [loc EXCEPT ![t] = [Idle EXCEPT !.op = "init", !.n = n]]
                BY <2>1, <3>2
            <4>2. [Idle EXCEPT !.op = "init", !.n = n].op = "init"
                BY DEF Idle
            <4>3. pc'[t] \notin InWriteFile /\ loc'[t].op = "init"
                BY <4>1, <4>2 DEF InWriteFile
            <4>4. \A u \in Threads \ {t} : pc'[u] = pc[u] /\ loc'[u] = loc[u]
                BY <4>1
            <4> QED
                BY <4>3, <4>4
        <3> QED
            BY <3>1, <3>2
    <2> QED
        BY <2>1, <2>2, KeyFrame
<1>3. ASSUME NEW t \in Threads, ProbeSession(t)
      PROVE  KeyInv'
    BY <1>3, KeyFrame DEF ProbeSession, InWriteFile
<1>4. ASSUME NEW t \in Threads, StoreSession(t)
      PROVE  KeyInv'
    BY <1>4, KeyFrame DEF StoreSession, InWriteFile, Idle
<1>5. ASSUME NEW t \in Threads, CloseVolume(t)
      PROVE  KeyInv'
    <2>1. /\ UNCHANGED <<dir, journal>>
          /\ \/ UNCHANGED <<pc, loc>>
             \/ /\ pc' = [pc EXCEPT ![t] = "delete"]
                /\ \E id : loc' = [loc EXCEPT ![t] = [Idle EXCEPT !.op = "close", !.id = id]]
        BY <1>5 DEF CloseVolume
    <2>2. /\ \A u \in Threads : pc'[u] \in InWriteFile => pc[u] \in InWriteFile /\ loc'[u] = loc[u]
          /\ \A u \in Threads : loc'[u].op = "create" => loc[u].op = "create"
        <3>1. CASE UNCHANGED <<pc, loc>>
            BY <3>1
        <3>2. CASE ~UNCHANGED <<pc, loc>>
            <4>1. PICK id : /\ pc' = [pc EXCEPT ![t] = "delete"]
                           /\ loc' = [loc EXCEPT ![t] = [Idle EXCEPT !.op = "close", !.id = id]]
                BY <2>1, <3>2
            <4>2. [Idle EXCEPT !.op = "close", !.id = id].op = "close"
                BY DEF Idle
            <4>3. pc'[t] \notin InWriteFile /\ loc'[t].op = "close"
                BY <4>1, <4>2 DEF InWriteFile
            <4>4. \A u \in Threads \ {t} : pc'[u] = pc[u] /\ loc'[u] = loc[u]
                BY <4>1
            <4> QED
                BY <4>3, <4>4
        <3> QED
            BY <3>1, <3>2
    <2> QED
        BY <2>1, <2>2, KeyFrame
<1>6. ASSUME NEW t \in Threads, DeleteSession(t)
      PROVE  KeyInv'
    BY <1>6, KeyFrame DEF DeleteSession, InWriteFile, Idle
<1>7. ASSUME NEW t \in Threads, OpenTmp(t)
      PROVE  KeyInv'
    BY <1>7, KeyFrame DEF OpenTmp, InWriteFile, Idle, Directory
<1>8. ASSUME NEW t \in Threads, WriteTmp(t)
      PROVE  KeyInv'
    BY <1>8, KeyFrame DEF WriteTmp, InWriteFile, Directory
<1>9. ASSUME NEW t \in Threads, SyncTmp(t)
      PROVE  KeyInv'
    BY <1>9, KeyFrame DEF SyncTmp, InWriteFile, Directory
<1>10. ASSUME NEW t \in Threads, WriteRootIV(t)
       PROVE  KeyInv'
    BY <1>10, KeyFrame DEF WriteRootIV, InWriteFile, Idle, Directory
<1>11. ASSUME NEW t \in Threads, FailStep(t)
       PROVE  KeyInv'
    BY <1>11, KeyFrame DEF FailStep, InWriteFile, Idle
<1>12. CASE Commit
    BY <1>12, KeyFrame DEF Commit
<1>13. CASE Kill
    BY <1>13, KeyFrame DEF Kill, Restart, InWriteFile, Idle
<1>14. CASE PowerLoss
    <2>1. journal' = dir'
        BY <1>14 DEF PowerLoss
    <2> QED
        BY <1>14, <2>1 DEF PowerLoss, Restart, KeyInv, SameKey, InWriteFile, Idle
<1> QED
    BY <1>1, <1>2, <1>3, <1>4, <1>5, <1>6, <1>7, <1>8, <1>9, <1>10, <1>11, <1>12, <1>13, <1>14,
       ChangePasswordKey, CreateVolumeKey, RenameTmpKey DEF Next

-----------------------------------------------------------------------------
(* The sessions                                                            *)

\* An object that no session leads to and no client has.
Unused(n) == held[n] = None /\ \A s \in Sessions : opened[s] # n

\* gcf_init has made an object for the volume, and a session for it or not yet.
InitShaped(t) ==
    /\ loc[t].n \in 1..calls
    /\ IsConfig(dir.conf) /\ dir.conf.key # Empty /\ core[loc[t].n] = dir.conf.key
    /\ Unused(loc[t].n)
    /\ pc[t] = "store" => opened[loc[t].id] = None

\* gcf_close has wiped the object of a session that no client has any more.
CloseShaped(t) ==
    /\ opened[loc[t].id] # None
    /\ core[opened[loc[t].id]] = None
    /\ \A n \in Calls : held[n] # loc[t].id

SessionInv ==
    /\ HeldStaysOpen
    /\ KeysHaveSession
    /\ \A n \in Calls : n > calls => core[n] = None /\ Unused(n)
    /\ \A s, z \in Sessions : opened[s] # None /\ opened[s] = opened[z] => s = z
    /\ \A t \in Threads : Running(t, "init") => InitShaped(t)
    /\ \A t, u \in Threads : Running(t, "init") /\ Running(u, "init") => t = u
    /\ \A t \in Threads : Running(t, "close") => CloseShaped(t)
    /\ \A t, u \in Threads :
            Running(t, "close") /\ Running(u, "close") /\ loc[t].id = loc[u].id => t = u

LEMMA SessionInit == Init => SessionInv
BY VolumesAssumption
DEF Init, SessionInv, HeldStaysOpen, KeysHaveSession, Unused, Running, Idle, Calls

\* A step of another call: it may start one, end one and change the password.
LEMMA SessionFrame ==
    ASSUME FileInv, SessionInv,
           UNCHANGED <<opened, core, held>>,
           calls' \in Nat, calls <= calls',
           IsConfig(dir.conf) => IsConfig(dir'.conf) /\ dir'.conf.key = dir.conf.key,
           \A u \in Threads : loc'[u].op \in {"init", "close"} \/ loc[u].op \in {"init", "close"}
                => loc'[u] = loc[u] /\ pc'[u] = pc[u]
    PROVE  SessionInv'
<1> USE DEF SessionInv
<1>1. calls \in Nat
    BY VolumesAssumption DEF FileInv, TypeOK
<1>2. HeldStaysOpen'
    BY DEF HeldStaysOpen
<1>3. KeysHaveSession'
    BY DEF KeysHaveSession, Running
<1>4. \A n \in Calls : Unused(n)' <=> Unused(n)
    BY DEF Unused
<1>5. \A n \in Calls : n > calls' => core'[n] = None /\ Unused(n)'
    BY <1>1, <1>4, VolumesAssumption DEF Calls
<1>6. ASSUME NEW u \in Threads, Running(u, "init")'
      PROVE  InitShaped(u)'
    <2>1. loc'[u] = loc[u] /\ pc'[u] = pc[u] /\ InitShaped(u)
        BY <1>6 DEF Running
    <2>2. loc[u].n \in 1..calls'
        BY <1>1, <2>1 DEF InitShaped
    <2> QED
        BY <2>1, <2>2 DEF InitShaped, Unused
<1>7. ASSUME NEW u \in Threads, Running(u, "close")'
      PROVE  CloseShaped(u)'
    BY <1>7 DEF Running, CloseShaped
<1> QED
    BY <1>2, <1>3, <1>5, <1>6, <1>7 DEF Running

\* gcf_init has the key: the object is new, and no other gcf_init runs.
LEMMA InitVolumeSession ==
    ASSUME Careful, FileInv, SessionInv, NEW t \in Threads, InitVolume(t)
    PROVE  SessionInv'
<1>1. CASE Panic(dir.conf) \/ Refuse(t)
    BY <1>1, SessionFrame, VolumesAssumption DEF Panic, Refuse, files, registry, counts, FileInv, TypeOK
<1>2. CASE Begin(t, "init", "probe") /\ core' = [core EXCEPT ![calls + 1] = dir.conf.key]
           /\ Loads(dir.conf) /\ Mounts(dir.conf) /\ UNCHANGED <<files, opened, held, crashes, fault>>
    <2> USE DEF SessionInv
    <2>1. /\ calls + 1 \in Calls /\ calls \in Nat /\ calls' = calls + 1
          /\ pc[t] = "idle" /\ loc[t] = Idle
          /\ \A u \in Threads : ~Running(u, "init")
        BY <1>2, VolumesAssumption
        DEF Careful, InitVolume, MayBegin, Begin, FileInv, TypeOK, CallShaped, Calls
    <2>2. /\ pc' = [pc EXCEPT ![t] = "probe"]
          /\ loc'[t].op = "init" /\ loc'[t].n = calls + 1
          /\ \A u \in Threads \ {t} : loc'[u] = loc[u] /\ pc'[u] = pc[u]
          /\ UNCHANGED <<dir, opened, held>>
        BY <1>2 DEF Begin, Idle, files, FileInv, TypeOK
    <2>3. core[calls + 1] = None /\ Unused(calls + 1)
        BY <2>1 DEF Calls
    <2>4. /\ \A n \in Calls : n # calls + 1 => core'[n] = core[n]
          /\ core'[calls + 1] = dir.conf.key /\ IsConfig(dir.conf) /\ dir.conf.key # Empty
        BY <1>2, <2>1 DEF FileInv, TypeOK, Loads, Mounts
    <2>5. HeldStaysOpen'
        BY <2>2, <2>3, <2>4 DEF HeldStaysOpen, Unused
    <2>6. KeysHaveSession'
        <3>1. \A u \in Threads : Running(u, "init")' <=> u = t
            BY <2>1, <2>2 DEF Running
        <3> QED
            BY <2>1, <2>2, <2>4, <3>1 DEF KeysHaveSession, Running
    <2>7. \A n \in Calls : Unused(n)' <=> Unused(n)
        BY <2>2 DEF Unused
    <2>8. \A n \in Calls : n > calls' => core'[n] = None /\ Unused(n)'
        BY <2>1, <2>4, <2>7 DEF Calls
    <2>9. InitShaped(t)'
        BY <2>1, <2>2, <2>3, <2>4, <2>7 DEF InitShaped, FileInv, TypeOK
    <2>10. ASSUME NEW u \in Threads, Running(u, "close")'
           PROVE  Running(u, "close") /\ u # t /\ loc'[u] = loc[u] /\ CloseShaped(u)'
        <3>1. u # t /\ loc'[u] = loc[u] /\ CloseShaped(u)
            BY <2>2, <2>10 DEF Running
        <3>2. loc[u].id \in Sessions
            BY DEF FileInv, TypeOK
        <3>3. opened[loc[u].id] \in Calls /\ opened[loc[u].id] # calls + 1
            BY <2>3, <3>1, <3>2 DEF CloseShaped, Unused, FileInv, TypeOK
        <3> QED
            BY <2>2, <2>4, <2>10, <3>1, <3>3 DEF CloseShaped, Running
    <2>11. \A u \in Threads : Running(u, "init")' => u = t
        BY <2>1, <2>2 DEF Running
    <2> QED
        BY <2>2, <2>5, <2>6, <2>8, <2>9, <2>10, <2>11
<1> QED
    BY <1>1, <1>2 DEF InitVolume, Unlocks

LEMMA ProbeSessionSession ==
    ASSUME FileInv, SessionInv, NEW t \in Threads, ProbeSession(t)
    PROVE  SessionInv'
<1> USE DEF SessionInv
<1>1. /\ UNCHANGED <<dir, opened, core, held, calls>>
      /\ pc[t] = "probe" /\ loc[t].op = "init"
      /\ pc' = [pc EXCEPT ![t] = IF opened[loc[t].id] = None THEN "store" ELSE "probe"]
      /\ \/ opened[loc[t].id] = None /\ loc' = loc
         \/ opened[loc[t].id] # None /\ loc' = [loc EXCEPT ![t].id = loc[t].id + 1]
    BY DEF ProbeSession, Step, files, registry, counts, FileInv, CallShaped
<1>2. /\ loc'[t].op = loc[t].op /\ loc'[t].n = loc[t].n
      /\ pc'[t] = "store" => opened[loc[t].id] = None /\ loc'[t] = loc[t]
      /\ \A u \in Threads \ {t} : loc'[u] = loc[u] /\ pc'[u] = pc[u]
    BY <1>1 DEF FileInv, TypeOK
<1>3. \A n \in Calls : Unused(n)' <=> Unused(n)
    BY <1>1 DEF Unused
<1>4. HeldStaysOpen' /\ KeysHaveSession'
    BY <1>1, <1>2 DEF HeldStaysOpen, KeysHaveSession, Running
<1>5. \A u \in Threads : Running(u, "init")' => Running(u, "init") /\ InitShaped(u)'
    BY <1>1, <1>2 DEF Running, InitShaped, Unused
<1>6. \A u \in Threads : Running(u, "close")' => u # t /\ CloseShaped(u)'
    BY <1>1, <1>2 DEF Running, CloseShaped
<1> QED
    BY <1>1, <1>2, <1>3, <1>4, <1>5, <1>6 DEF Running

LEMMA StoreSessionSession ==
    ASSUME FileInv, SessionInv, NEW t \in Threads, StoreSession(t)
    PROVE  SessionInv'
<1> DEFINE id == loc[t].id
           n == loc[t].n
<1> USE DEF SessionInv
<1>1. /\ UNCHANGED <<dir, core, calls>>
      /\ pc[t] = "store" /\ Running(t, "init") /\ InitShaped(t)
      /\ pc' = [pc EXCEPT ![t] = "idle"] /\ loc' = [loc EXCEPT ![t] = Idle]
      /\ opened' = [opened EXCEPT ![id] = n]
      /\ held' = [held EXCEPT ![n] = id]
    BY DEF StoreSession, Return, Step, files, counts, FileInv, CallShaped, Running
<1>2. /\ id \in Sessions /\ n \in Calls /\ n \in 1..calls /\ id # None
      /\ opened[id] = None /\ Unused(n) /\ core[n] # None
    <2>1. id \in Sessions /\ n \in 1..calls /\ n \in Calls
        BY <1>1, VolumesAssumption DEF FileInv, TypeOK, InitShaped, Calls
    <2>2. id # None
        BY <2>1, VolumesAssumption DEF Sessions
    <2>3. dir.conf \in Config /\ dir.conf.key # Empty /\ core[n] = dir.conf.key
        BY <1>1, IsConfigTyped DEF InitShaped, FileInv, TypeOK, Directory
    <2>4. core[n] # None
        BY <2>3, VolumesAssumption DEF Config, Keys
    <2> QED
        BY <1>1, <2>1, <2>2, <2>4 DEF InitShaped
<1> HIDE DEF id, n
<1>3. /\ opened'[id] = n /\ \A s \in Sessions : s # id => opened'[s] = opened[s]
      /\ held'[n] = id /\ \A m \in Calls : m # n => held'[m] = held[m]
      /\ loc'[t] = Idle /\ \A u \in Threads : u # t => loc'[u] = loc[u] /\ pc'[u] = pc[u]
    BY <1>1, <1>2 DEF FileInv, TypeOK
<1>4. \A m \in Calls : held[m] \in Sessions \cup {None}
    BY DEF FileInv, TypeOK
<1>5. HeldStaysOpen'
    <2> SUFFICES ASSUME NEW m \in Calls, held'[m] # None
                 PROVE  opened'[held'[m]] = m /\ core'[m] # None
        BY DEF HeldStaysOpen
    <2>1. CASE m = n
        BY <1>1, <1>2, <1>3, <2>1
    <2>2. CASE m # n
        <3>1. opened[held[m]] = m /\ core[m] # None /\ held'[m] = held[m] /\ held[m] \in Sessions
            BY <1>3, <1>4, <2>2 DEF HeldStaysOpen
        <3>2. held[m] # id
            BY <1>2, <3>1, VolumesAssumption DEF Calls
        <3> QED
            BY <1>1, <1>3, <3>1, <3>2
    <2> QED
        BY <2>1, <2>2
<1>6. KeysHaveSession'
    <2> SUFFICES ASSUME NEW m \in Calls, core'[m] # None
                 PROVE  \/ \E s \in Sessions : opened'[s] = m
                        \/ \E u \in Threads : Running(u, "init")' /\ loc'[u].n = m
        BY DEF KeysHaveSession
    <2>1. CASE \E s \in Sessions : opened[s] = m
        BY <1>2, <1>3, <2>1, VolumesAssumption DEF Calls
    <2>2. CASE \E u \in Threads : Running(u, "init") /\ loc[u].n = m
        BY <1>1, <1>2, <1>3, <2>2 DEF n
    <2> QED
        BY <1>1, <2>1, <2>2 DEF KeysHaveSession
<1>7. \A m \in Calls : m # n => (Unused(m)' <=> Unused(m))
    BY <1>2, <1>3, VolumesAssumption DEF Unused, Calls
<1>8. \A m \in Calls : m > calls' => core'[m] = None /\ Unused(m)'
    BY <1>1, <1>2, <1>7, VolumesAssumption DEF Calls, FileInv, TypeOK
<1>9. \A s, z \in Sessions : opened'[s] # None /\ opened'[s] = opened'[z] => s = z
    BY <1>2, <1>3 DEF Unused
<1>10. \A u \in Threads : ~Running(u, "init")'
    BY <1>1, <1>3 DEF Running, Idle
<1>11. ASSUME NEW u \in Threads, Running(u, "close")'
       PROVE  u # t /\ Running(u, "close") /\ loc'[u] = loc[u] /\ CloseShaped(u)'
    <2>1. u # t /\ loc'[u] = loc[u] /\ CloseShaped(u) /\ loc[u].id \in Sessions
        BY <1>3, <1>11 DEF Running, Idle, FileInv, TypeOK
    <2>2. loc[u].id # id
        BY <1>2, <2>1 DEF CloseShaped
    <2>3. \A m \in Calls : held'[m] # loc[u].id
        BY <1>3, <2>1, <2>2 DEF CloseShaped
    <2>4. opened'[loc[u].id] = opened[loc[u].id]
        BY <1>3, <2>1, <2>2
    <2> QED
        BY <1>1, <1>11, <2>1, <2>3, <2>4 DEF CloseShaped, Running
<1> QED
    BY <1>5, <1>6, <1>8, <1>9, <1>10, <1>11

LEMMA CloseVolumeSession ==
    ASSUME FileInv, SessionInv, NEW t \in Threads, CloseVolume(t)
    PROVE  SessionInv'
<1> USE DEF SessionInv
<1>1. PICK n \in Calls :
        /\ held[n] # None
        /\ held' = [held EXCEPT ![n] = None]
        /\ ~IsClosed(held[n]) =>
                /\ core' = [core EXCEPT ![opened[held[n]]] = None]
                /\ pc' = [pc EXCEPT ![t] = "delete"]
                /\ loc' = [loc EXCEPT ![t] = [Idle EXCEPT !.op = "close", !.id = held[n]]]
    BY DEF CloseVolume
<1> DEFINE id == held[n]
<1>2. id \in Sessions /\ opened[id] = n /\ core[n] # None /\ n # None
    BY <1>1, VolumesAssumption DEF HeldStaysOpen, FileInv, TypeOK, Calls
<1>3. /\ core' = [core EXCEPT ![n] = None] /\ held' = [held EXCEPT ![n] = None]
      /\ pc' = [pc EXCEPT ![t] = "delete"]
      /\ loc' = [loc EXCEPT ![t] = [Idle EXCEPT !.op = "close", !.id = id]]
      /\ UNCHANGED <<dir, opened, calls>> /\ pc[t] = "idle"
    BY <1>1, <1>2 DEF IsClosed, CloseVolume, files, counts
<1>4. loc'[t].op = "close" /\ loc'[t].id = id
    BY <1>3 DEF Idle, FileInv, TypeOK
<1>5. \A u \in Threads : u # t => loc'[u] = loc[u] /\ pc'[u] = pc[u]
    BY <1>3 DEF FileInv, TypeOK
<1>6. /\ core'[n] = None /\ held'[n] = None
      /\ \A m \in Calls : m # n => core'[m] = core[m] /\ held'[m] = held[m]
    BY <1>3 DEF FileInv, TypeOK
<1>7. ~Running(t, "init") /\ ~Running(t, "close")
    BY <1>3 DEF FileInv, CallShaped, Running, Idle
<1> HIDE DEF id
<1>8. HeldStaysOpen'
    BY <1>3, <1>6 DEF HeldStaysOpen
<1>9. KeysHaveSession'
    BY <1>3, <1>5, <1>6, <1>7 DEF KeysHaveSession, Running
<1>10. \A m \in Calls : Unused(m) => m # n /\ Unused(m)'
    BY <1>2, <1>3, <1>6 DEF Unused
<1>11. \A m \in Calls : m > calls' => core'[m] = None /\ Unused(m)'
    BY <1>3, <1>6, <1>10
<1>12. ASSUME NEW u \in Threads, Running(u, "init")'
       PROVE  Running(u, "init") /\ InitShaped(u)'
    <2>1. u # t /\ loc'[u] = loc[u] /\ pc'[u] = pc[u] /\ InitShaped(u)
        BY <1>4, <1>5, <1>12 DEF Running
    <2>2. loc[u].n \in Calls /\ loc[u].n \in 1..calls
        BY <2>1, VolumesAssumption DEF InitShaped, FileInv, TypeOK, Calls
    <2>3. loc[u].n # n /\ Unused(loc[u].n)'
        BY <1>10, <2>1, <2>2 DEF InitShaped
    <2> QED
        BY <1>3, <1>6, <1>12, <2>1, <2>2, <2>3 DEF InitShaped, Running
<1>13. CloseShaped(t)'
    <2>1. \A m \in Calls : held'[m] # id
        BY <1>2, <1>6, VolumesAssumption DEF HeldStaysOpen, Sessions
    <2> QED
        BY <1>2, <1>3, <1>4, <1>6, <2>1 DEF CloseShaped
<1>14. ASSUME NEW u \in Threads, Running(u, "close")', u # t
       PROVE  Running(u, "close") /\ loc'[u] = loc[u] /\ loc[u].id # id /\ CloseShaped(u)'
    <2>1. loc'[u] = loc[u] /\ CloseShaped(u) /\ loc[u].id \in Sessions
        BY <1>5, <1>14 DEF Running, FileInv, TypeOK
    <2>2. loc[u].id # id
        BY <2>1 DEF CloseShaped, id
    <2>3. opened[loc[u].id] \in Calls /\ core'[opened[loc[u].id]] = None
        BY <1>6, <2>1 DEF CloseShaped, FileInv, TypeOK
    <2>4. \A m \in Calls : held'[m] # loc[u].id
        BY <1>6, <2>1, VolumesAssumption DEF CloseShaped, Sessions
    <2> QED
        BY <1>3, <1>14, <2>1, <2>2, <2>3, <2>4 DEF CloseShaped, Running
<1>15. \A u \in Threads : Running(u, "close")' => CloseShaped(u)'
    BY <1>13, <1>14
<1>16. \A u, w \in Threads :
            Running(u, "close")' /\ Running(w, "close")' /\ loc'[u].id = loc'[w].id => u = w
    BY <1>4, <1>14
<1> QED
    BY <1>3, <1>8, <1>9, <1>11, <1>12, <1>15, <1>16

LEMMA DeleteSessionSession ==
    ASSUME FileInv, SessionInv, NEW t \in Threads, DeleteSession(t)
    PROVE  SessionInv'
<1> DEFINE id == loc[t].id
<1> USE DEF SessionInv
<1>1. /\ UNCHANGED <<dir, core, held, calls>>
      /\ pc[t] = "delete" /\ Running(t, "close") /\ CloseShaped(t) /\ id \in Sessions
      /\ pc' = [pc EXCEPT ![t] = "idle"] /\ loc' = [loc EXCEPT ![t] = Idle]
      /\ opened' = [opened EXCEPT ![id] = None]
    BY DEF DeleteSession, Return, Step, files, counts, FileInv, CallShaped, Running, TypeOK
<1>2. /\ opened'[id] = None /\ \A s \in Sessions : s # id => opened'[s] = opened[s]
      /\ loc'[t] = Idle /\ \A u \in Threads : u # t => loc'[u] = loc[u] /\ pc'[u] = pc[u]
    BY <1>1 DEF FileInv, TypeOK
<1>3. core[opened[id]] = None /\ \A m \in Calls : held[m] # id
    BY <1>1 DEF CloseShaped
<1> HIDE DEF id
<1>4. HeldStaysOpen'
    BY <1>1, <1>2, <1>3 DEF HeldStaysOpen, FileInv, TypeOK
<1>5. \A u \in Threads : Running(u, "init") => u # t /\ loc'[u] = loc[u]
    BY <1>1, <1>2 DEF Running
<1>6. KeysHaveSession'
    BY <1>1, <1>2, <1>3, <1>5 DEF KeysHaveSession, Running
<1>7. \A m \in Calls : Unused(m) => Unused(m)'
    BY <1>1, <1>2, VolumesAssumption DEF Unused, Calls
<1>8. \A m \in Calls : m > calls' => core'[m] = None /\ Unused(m)'
    BY <1>1, <1>7
<1>9. \A s, z \in Sessions : opened'[s] # None /\ opened'[s] = opened'[z] => s = z
    BY <1>2
<1>10. ASSUME NEW u \in Threads, Running(u, "init")'
       PROVE  Running(u, "init") /\ InitShaped(u)'
    <2>1. u # t /\ loc'[u] = loc[u] /\ pc'[u] = pc[u] /\ InitShaped(u)
        BY <1>2, <1>10 DEF Running, Idle
    <2>2. loc[u].n \in Calls /\ loc[u].id \in Sessions
        BY <2>1, VolumesAssumption DEF InitShaped, FileInv, TypeOK, Calls
    <2>3. opened[loc[u].id] = None => opened'[loc[u].id] = None
        BY <1>2, <2>2
    <2> QED
        BY <1>1, <1>7, <1>10, <2>1, <2>2, <2>3 DEF InitShaped, Running
<1>11. ASSUME NEW u \in Threads, Running(u, "close")'
       PROVE  u # t /\ Running(u, "close") /\ loc'[u] = loc[u] /\ CloseShaped(u)'
    <2>1. u # t /\ loc'[u] = loc[u] /\ Running(u, "close") /\ loc[u].id \in Sessions
        BY <1>2, <1>11 DEF Running, Idle, FileInv, TypeOK
    <2>2. CloseShaped(u) /\ loc[u].id # id
        BY <1>1, <2>1 DEF id
    <2> QED
        BY <1>1, <1>2, <2>1, <2>2 DEF CloseShaped
<1> QED
    BY <1>1, <1>4, <1>6, <1>8, <1>9, <1>10, <1>11

\* A crash ends all sessions.
LEMMA RestartSession ==
    ASSUME FileInv, SessionInv, Restart
    PROVE  SessionInv'
BY VolumesAssumption
DEF Restart, SessionInv, HeldStaysOpen, KeysHaveSession, Unused, Running, Idle, Calls

LEMMA SessionStep == Careful /\ FileInv /\ KeyInv /\ SessionInv /\ [Next]_vars => SessionInv'
<1> SUFFICES ASSUME Careful, FileInv, KeyInv, SessionInv, [Next]_vars
             PROVE  SessionInv'
    OBVIOUS
<1>c. calls \in Nat
    BY VolumesAssumption DEF FileInv, TypeOK
<1>w. \A t \in Threads : pc[t] \in InWriteFile \cup {"iv"} => loc[t].op \in {"change", "create"}
    BY DEF FileInv, CallShaped
<1>1. CASE UNCHANGED vars
    BY <1>1, <1>c, SessionFrame DEF vars
<1>b. ASSUME NEW t \in Threads, pc[t] = "idle", NEW kind \in {"change", "create"}, NEW cf,
             WriteConfig(t, kind, cf)
      PROVE  SessionInv'
    <2>1. CASE Panic(cf)
        BY <1>c, <2>1, SessionFrame DEF Panic, files, registry, counts
    <2>2. CASE BeginWrite(t, kind, cf)
        <3>1. /\ UNCHANGED <<dir, opened, core, held>> /\ calls' = calls + 1
              /\ loc[t] = Idle
              /\ loc' = [loc EXCEPT ![t] = [op |-> kind, n |-> calls + 1, id |-> 0, cf |-> cf]]
              /\ pc' = [pc EXCEPT ![t] = "tmp"]
            BY <1>b, <2>2 DEF BeginWrite, files, registry, FileInv, CallShaped
        <3>2. \A u \in Threads : loc'[u].op \in {"init", "close"} \/ loc[u].op \in {"init", "close"}
                    => loc'[u] = loc[u] /\ pc'[u] = pc[u]
            BY <3>1 DEF Idle, FileInv, TypeOK
        <3> QED
            BY <1>c, <3>1, <3>2, SessionFrame
    <2> QED
        BY <1>b, <2>1, <2>2 DEF WriteConfig
<1>r. ASSUME NEW t, NEW cf, Panic(cf) \/ Refuse(t)
      PROVE  SessionInv'
    BY <1>c, <1>r, SessionFrame DEF Panic, Refuse, files, registry, counts
<1>2. ASSUME NEW t \in Threads, ChangePassword(t)
      PROVE  SessionInv'
    BY <1>b, <1>r, <1>2, ChangePasswordCases
<1>3. ASSUME NEW t \in Threads, CreateVolume(t)
      PROVE  SessionInv'
    BY <1>b, <1>r, <1>3, CreateVolumeCases
<1>4. ASSUME NEW t \in Threads, OpenTmp(t) \/ WriteTmp(t) \/ SyncTmp(t) \/ WriteRootIV(t) \/ FailStep(t)
      PROVE  SessionInv'
    <2>1. /\ dir'.conf = dir.conf /\ UNCHANGED <<opened, core, held, calls>>
          /\ pc[t] \in InWriteFile \cup {"iv"}
          /\ \A u \in Threads \ {t} : loc'[u] = loc[u] /\ pc'[u] = pc[u]
          /\ loc'[t] \in {loc[t], Idle}
        BY <1>4 DEF OpenTmp, WriteTmp, SyncTmp, WriteRootIV, FailStep, Return, Step, InWriteFile,
                    files, registry, counts, FileInv, TypeOK, Directory
    <2>2. loc[t].op \notin {"init", "close"} /\ loc'[t].op \notin {"init", "close"}
        BY <1>w, <2>1 DEF Idle
    <2> QED
        BY <1>c, <2>1, <2>2, SessionFrame
<1>5. ASSUME NEW t \in Threads, RenameTmp(t)
      PROVE  SessionInv'
    <2>1. /\ UNCHANGED <<opened, core, held, calls>>
          /\ pc[t] \in InWriteFile \cup {"iv"}
          /\ \A u \in Threads \ {t} : loc'[u] = loc[u] /\ pc'[u] = pc[u]
          /\ loc'[t] \in {loc[t], Idle}
        BY <1>5 DEF RenameTmp, Return, Step, InWriteFile, registry, counts, FileInv, TypeOK
    <2>2. loc[t].op \notin {"init", "close"} /\ loc'[t].op \notin {"init", "close"}
        BY <1>w, <2>1 DEF Idle
    <2>3. IsConfig(dir.conf) => IsConfig(dir'.conf) /\ dir'.conf.key = dir.conf.key
        <3>1. IsConfig(dir.conf) => dir.conf # None
            BY DEF IsConfig, NoConfig
        <3> QED
            BY <1>5, <3>1, RenamedConf DEF SameKey
    <2> QED
        BY <1>c, <2>1, <2>2, <2>3, SessionFrame
<1>6. CASE Commit
    BY <1>6, <1>c, SessionFrame DEF Commit, registry, counts
<1> QED
    BY <1>1, <1>2, <1>3, <1>4, <1>5, <1>6, InitVolumeSession, ProbeSessionSession,
       StoreSessionSession, CloseVolumeSession, DeleteSessionSession, RestartSession
    DEF Next, Kill, PowerLoss

\* The inductive invariant for a careful client.
IInv == FileInv /\ KeyInv /\ SessionInv

LEMMA IInvHolds == ASSUME Careful PROVE Spec => []IInv
<1>1. Init => IInv
    BY FileInit, KeyInit, SessionInit DEF IInv
<1>2. IInv /\ [Next]_vars => IInv'
    BY FileStep, KeyStep, SessionStep DEF IInv
<1> QED
    BY <1>1, <1>2, PTL DEF Spec

\* The session that gcf_init returned leads to the Volume it made, with its keys, for any
\* number of threads that open, close and change passwords: a session is not given out twice
\* and gcf_close removes its own only, if the client opens volumes one at a time.
THEOREM SessionsStayOpen == ASSUME Careful PROVE Spec => []HeldStaysOpen
BY IInvHolds, PTL DEF IInv, SessionInv

\* Every key in memory has a session, or a gcf_init about to store one.
THEOREM NoKeyLeftBehind == ASSUME Careful PROVE Spec => []KeysHaveSession
BY IInvHolds, PTL DEF IInv, SessionInv

-----------------------------------------------------------------------------
(* What ends the process                                                   *)

\* A config file that a call wrote has scrypt parameters that work.
WrittenWorks(f) == IsConfig(f) /\ f.salt # 0 => HashWorks(f.kdf)

FaultInv ==
    /\ ~alive => Unusable(fault)
    /\ WrittenWorks(dir.conf) /\ WrittenWorks(dir.tmp)
    /\ WrittenWorks(journal.conf) /\ WrittenWorks(journal.tmp)
    /\ \A t \in Threads : loc[t].cf # None => HashWorks(loc[t].cf.kdf)

\* No flags that Validate accepts keep a key from its backend.
LEMMA ValidMounts ==
    ASSUME NEW cf \in Config, Validate(cf.set, cf.kdf)
    PROVE  KeyEncrypterWorks(cf.set) /\ (cf.key # Empty => Mounts(cf))
<1>1. KeyEncrypterWorks(cf.set)
    BY DEF KeyEncrypterWorks, CoreAccepts
<1>2. CASE "XChaCha20Poly1305" \in cf.set.flags
    BY <1>1, <1>2 DEF Validate, Mounts, ContentEncryption, NonceSize, CoreAccepts
<1>3. CASE "XChaCha20Poly1305" \notin cf.set.flags /\ "AESSIV" \in cf.set.flags
    BY <1>1, <1>3 DEF Mounts, ContentEncryption, NonceSize, CoreAccepts
<1>4. CASE "XChaCha20Poly1305" \notin cf.set.flags /\ "AESSIV" \notin cf.set.flags
    BY <1>1, <1>4 DEF Mounts, ContentEncryption, NonceSize, CoreAccepts
<1> QED
    BY <1>2, <1>3, <1>4

\* What cannot be unlocked or mounted is without a key, or has scrypt parameters that fail.
LEMMA LoadedUnusable ==
    ASSUME FileInv, NEW secret,
           UnlockPanics(secret) \/ (Unlocks(secret) /\ ~Mounts(dir.conf))
    PROVE  Unusable(dir.conf)
<1>1. Loads(dir.conf)
    BY DEF UnlockPanics, Unlocks
<1>2. dir.conf \in Config /\ Validate(dir.conf.set, dir.conf.kdf)
    BY <1>1, IsConfigTyped DEF FileInv, TypeOK, Directory, Loads
<1>3. KeyEncrypterWorks(dir.conf.set) /\ (dir.conf.key # Empty => Mounts(dir.conf))
    BY <1>2, ValidMounts
<1> QED
    BY <1>3 DEF UnlockPanics, Unusable

LEMMA FaultInit == Init => FaultInv
<1> SUFFICES ASSUME Init PROVE FaultInv
    OBVIOUS
<1>1. WrittenWorks(dir.conf)
    <2>1. dir.conf \in {None} \cup {[key |-> f.key, pw |-> p, salt |-> 0, set |-> f.set,
                                     kdf |-> f.kdf, sync |-> "done"] : f \in Foreign, p \in Passwords}
        BY DEF Init
    <2>2. dir.conf = None \/ dir.conf.salt = 0
        BY <2>1
    <2> QED
        BY <2>2 DEF WrittenWorks, IsConfig, NoConfig
<1>2. WrittenWorks(dir.tmp)
    BY DEF Init, WrittenWorks, IsConfig, NoConfig
<1> QED
    BY <1>1, <1>2 DEF Init, FaultInv, Idle, alive

\* A step that does not end the process and writes no other config file.
LEMMA FaultFrame ==
    ASSUME FaultInv, fault' \in {fault, None},
           WrittenWorks(dir'.conf), WrittenWorks(dir'.tmp),
           WrittenWorks(journal'.conf), WrittenWorks(journal'.tmp),
           \A u \in Threads : loc'[u].cf \in {loc[u].cf, None} \/ HashWorks(loc'[u].cf.kdf)
    PROVE  FaultInv'
<1>1. alive' \/ fault' = fault
    BY DEF alive
<1>2. ~alive' => Unusable(fault)' 
    BY <1>1 DEF FaultInv, alive, Unusable
<1>3. \A u \in Threads : loc'[u].cf # None => HashWorks(loc'[u].cf.kdf)
    BY DEF FaultInv
<1> QED
    BY <1>2, <1>3 DEF FaultInv, WrittenWorks

LEMMA PanicFault ==
    ASSUME FaultInv, NEW cf, Panic(cf), Unusable(cf)
    PROVE  FaultInv'
BY DEF FaultInv, Panic, files, Unusable, WrittenWorks

LEMMA RefuseFault ==
    ASSUME FaultInv, NEW t, Refuse(t)
    PROVE  FaultInv'
BY FaultFrame DEF FaultInv, Refuse, files

\* A call goes on to WriteFile only when the new parameters have worked once.
LEMMA WriteConfigFault ==
    ASSUME FileInv, FaultInv, NEW t \in Threads, NEW kind, NEW cf, WriteConfig(t, kind, cf)
    PROVE  FaultInv'
<1>1. CASE ~HashWorks(cf.kdf)
    BY <1>1, PanicFault DEF WriteConfig, Unusable
<1>2. CASE HashWorks(cf.kdf)
    <2>1. BeginWrite(t, kind, cf)
        BY <1>2 DEF WriteConfig
    <2>2. loc'[t].cf = cf /\ \A u \in Threads \ {t} : loc'[u] = loc[u]
        BY <2>1 DEF BeginWrite, FileInv, TypeOK
    <2>3. UNCHANGED <<dir, journal, fault>>
        BY <2>1 DEF BeginWrite, files
    <2> QED
        BY <1>2, <2>2, <2>3, FaultFrame DEF FaultInv
<1> QED
    BY <1>1, <1>2

LEMMA FaultStep == FileInv /\ FaultInv /\ [Next]_vars => FaultInv'
<1> SUFFICES ASSUME FileInv, FaultInv, [Next]_vars
             PROVE  FaultInv'
    OBVIOUS
<1>i. Idle.cf = None /\ WrittenWorks(Torn) /\ WrittenWorks(None) /\ WrittenWorks(Lost)
    BY DEF Idle, WrittenWorks, IsConfig, NoConfig
<1>c. /\ WrittenWorks(dir.conf) /\ WrittenWorks(dir.tmp)
      /\ WrittenWorks(journal.conf) /\ WrittenWorks(journal.tmp)
    BY DEF FaultInv
<1>t. loc \in [Threads -> [op : {"none", "init", "close", "change", "create"},
                           n : 0..MaxCalls, id : Sessions, cf : Config \cup {None}]]
    BY DEF FileInv, TypeOK
<1>1. CASE UNCHANGED vars
    BY <1>1, <1>c, FaultFrame DEF vars
<1>2. ASSUME NEW t \in Threads, InitVolume(t)
      PROVE  FaultInv'
    <2>1. PICK secret \in Secrets :
            IF UnlockPanics(secret) \/ (Unlocks(secret) /\ ~Mounts(dir.conf)) THEN Panic(dir.conf)
            ELSE IF ~Unlocks(secret) THEN Refuse(t)
            ELSE Begin(t, "init", "probe") /\ UNCHANGED <<files, fault>>
        BY <1>2 DEF InitVolume
    <2>2. CASE UnlockPanics(secret) \/ (Unlocks(secret) /\ ~Mounts(dir.conf))
        BY <2>1, <2>2, LoadedUnusable, PanicFault
    <2>3. CASE Refuse(t)
        BY <2>3, RefuseFault
    <2>4. CASE Begin(t, "init", "probe") /\ UNCHANGED <<files, fault>>
        <3>1. loc'[t].cf = None /\ \A u \in Threads \ {t} : loc'[u] = loc[u]
            BY <1>t, <2>4 DEF Begin, Idle
        <3> QED
            BY <1>c, <2>4, <3>1, FaultFrame DEF files
    <2> QED
        BY <2>1, <2>2, <2>3, <2>4
<1>3. ASSUME NEW t \in Threads, ProbeSession(t)
      PROVE  FaultInv'
    <2>1. \A u \in Threads : loc'[u].cf = loc[u].cf
        BY <1>3, <1>t DEF ProbeSession
    <2> QED
        BY <1>3, <1>c, <2>1, FaultFrame DEF ProbeSession, files
<1>4. ASSUME NEW t \in Threads, StoreSession(t) \/ DeleteSession(t) \/ FailStep(t)
      PROVE  FaultInv'
    <2>1. \A u \in Threads : loc'[u].cf \in {loc[u].cf, None}
        BY <1>4, <1>t, <1>i DEF StoreSession, DeleteSession, FailStep, Return
    <2> QED
        BY <1>4, <1>c, <2>1, FaultFrame DEF StoreSession, DeleteSession, FailStep, Return, files
<1>5. ASSUME NEW t \in Threads, CloseVolume(t)
      PROVE  FaultInv'
    <2>1. \/ UNCHANGED loc
          \/ \E id : loc' = [loc EXCEPT ![t] = [Idle EXCEPT !.op = "close", !.id = id]]
        BY <1>5 DEF CloseVolume
    <2>2. \A id : [Idle EXCEPT !.op = "close", !.id = id].cf = None
        BY DEF Idle
    <2>3. \A u \in Threads : loc'[u].cf \in {loc[u].cf, None}
        <3>1. CASE UNCHANGED loc
            BY <3>1
        <3>2. ASSUME NEW id, loc' = [loc EXCEPT ![t] = [Idle EXCEPT !.op = "close", !.id = id]]
              PROVE  \A u \in Threads : loc'[u].cf \in {loc[u].cf, None}
            <4>1. loc'[t].cf = None /\ \A u \in Threads \ {t} : loc'[u] = loc[u]
                BY <1>t, <2>2, <3>2
            <4> QED
                BY <4>1
        <3> QED
            BY <2>1, <3>1, <3>2
    <2> QED
        BY <1>5, <1>c, <2>3, FaultFrame DEF CloseVolume, files
<1>6. ASSUME NEW t \in Threads, ChangePassword(t)
      PROVE  FaultInv'
    BY <1>6, ChangePasswordCases, LoadedUnusable, PanicFault, RefuseFault, WriteConfigFault
<1>7. ASSUME NEW t \in Threads, CreateVolume(t)
      PROVE  FaultInv'
    BY <1>7, CreateVolumeCases, RefuseFault, WriteConfigFault
<1>8. ASSUME NEW t \in Threads, OpenTmp(t) \/ WriteRootIV(t)
      PROVE  FaultInv'
    <2>1. /\ dir'.conf = dir.conf /\ dir'.tmp \in {dir.tmp, Torn} /\ journal' = journal
          /\ fault' = fault
          /\ \A u \in Threads : loc'[u].cf \in {loc[u].cf, None}
        BY <1>8, <1>t, <1>i
        DEF OpenTmp, WriteRootIV, Return, Step, FileInv, TypeOK, Directory
    <2> QED
        BY <1>c, <1>i, <2>1, FaultFrame
<1>9. ASSUME NEW t \in Threads, WriteTmp(t)
      PROVE  FaultInv'
    <2>1. /\ dir'.conf = dir.conf /\ dir'.tmp = loc[t].cf
          /\ journal' = journal /\ loc' = loc /\ fault' = fault
        BY <1>9 DEF WriteTmp, FileInv, TypeOK, Directory
    <2>2. WrittenWorks(loc[t].cf)
        BY <1>i DEF FaultInv, WrittenWorks
    <2> QED
        BY <1>c, <2>1, <2>2, FaultFrame
<1>10. ASSUME NEW t \in Threads, SyncTmp(t)
       PROVE  FaultInv'
    <2>1. dir.tmp = loc[t].cf /\ loc[t].cf \in Config
        BY <1>10 DEF SyncTmp, Step, FileInv, TmpInv, CallShaped, InWriteFile
    <2>2. /\ dir'.conf = dir.conf /\ dir'.tmp \in Marked(loc[t].cf)
          /\ journal' = journal /\ loc' = loc /\ fault' = fault
        BY <1>10, <2>1 DEF SyncTmp, Marked, FileInv, TypeOK, Directory
    <2>3. HashWorks(loc[t].cf.kdf)
        BY <2>1, ConfigIsConfig DEF FaultInv
    <2>4. WrittenWorks(dir'.tmp)
        BY <2>1, <2>2, <2>3, MarkedTyped DEF WrittenWorks
    <2> QED
        BY <1>c, <2>2, <2>4, FaultFrame
<1>11. ASSUME NEW t \in Threads, RenameTmp(t)
       PROVE  FaultInv'
    <2>1. /\ dir'.conf = dir.tmp /\ dir'.tmp = None /\ journal' = journal /\ fault' = fault
          /\ \A u \in Threads : loc'[u].cf \in {loc[u].cf, None}
        BY <1>11, <1>t, <1>i DEF RenameTmp, Return, Step, FileInv, TypeOK, Directory
    <2> QED
        BY <1>c, <1>i, <2>1, FaultFrame
<1>12. CASE Commit
    BY <1>12, <1>c, FaultFrame DEF Commit
<1>13. CASE Kill
    BY <1>13, <1>c, <1>i, FaultFrame DEF Kill, Restart, files
<1>14. CASE PowerLoss
    <2>1. \A f \in Config \cup NoConfig : WrittenWorks(f) =>
            \A g \in AfterLoss(f) : WrittenWorks(g)
        BY LossTyped DEF WrittenWorks
    <2>2. PICK d \in {dir, journal} :
            /\ d \in Directory /\ journal' = dir'
            /\ dir'.conf \in AfterLoss(d.conf) /\ dir'.tmp \in AfterLoss(d.tmp)
        BY <1>14, LossConf
    <2>3. WrittenWorks(dir'.conf) /\ WrittenWorks(dir'.tmp)
        BY <1>c, <2>1, <2>2 DEF Directory
    <2> QED
        BY <1>14, <1>i, <2>2, <2>3, FaultFrame DEF PowerLoss, Restart
<1> QED
    BY <1>1, <1>2, <1>3, <1>4, <1>5, <1>6, <1>7, <1>8, <1>9, <1>10, <1>11, <1>12, <1>13, <1>14
    DEF Next

\* Whatever gocryptfs.conf is there and whatever a client asks for, the process ends only on
\* a config file that wraps no key or whose scrypt parameters fail, and no call writes such
\* parameters: none of the flags that Validate lets through does it.
THEOREM EndsOnUnusable == Spec => []OnlyUnusableEnds
<1>1. Init => FileInv /\ FaultInv
    BY FileInit, FaultInit
<1>2. (FileInv /\ FaultInv) /\ [Next]_vars => (FileInv /\ FaultInv)'
    BY FileStep, FaultStep
<1>3. FileInv /\ FaultInv => OnlyUnusableEnds
    BY DEF FaultInv, WrittenWorks, OnlyUnusableEnds
<1> QED
    BY <1>1, <1>2, <1>3, PTL DEF Spec

-----------------------------------------------------------------------------
(* Volumes implements VolumeStore                                          *)

\* The variables of VolumeStore.
SVolume == Shown(dir.conf)
SSafe == Shown(journal.conf)
SSessions == [n \in Calls |->
    IF held[n] = None \/ opened[held[n]] = None THEN None ELSE core[opened[held[n]]]]
SOpOf(t) == [kind |-> IF pc[t] = "iv" THEN "created" ELSE loc[t].op,
             pw   |-> IF loc[t].cf = None THEN None ELSE loc[t].cf.pw]
SOp == [t \in Threads |->
    [kind |-> IF pc[t] = "iv" THEN "created" ELSE loc[t].op,
     pw   |-> IF loc[t].cf = None THEN None ELSE loc[t].cf.pw]]

\* The sessions that clients hold lead to their objects.
LEMMA SessionsAre ==
    ASSUME SessionInv
    PROVE  SSessions = [n \in Calls |-> IF held[n] = None THEN None ELSE core[n]]
<1>1. ASSUME NEW n \in Calls
      PROVE  (IF held[n] = None \/ opened[held[n]] = None THEN None ELSE core[opened[held[n]]])
                = IF held[n] = None THEN None ELSE core[n]
    <2>1. n # None
        BY VolumesAssumption DEF Calls
    <2> QED
        BY <2>1 DEF SessionInv, HeldStaysOpen
<1> QED
    BY <1>1 DEF SSessions

LEMMA SessionsPrimed ==
    ASSUME SessionInv'
    PROVE  SSessions' = [n \in Calls |-> IF held'[n] = None THEN None ELSE core'[n]]
<1>1. ASSUME NEW n \in Calls
      PROVE  (IF held'[n] = None \/ opened'[held'[n]] = None THEN None ELSE core'[opened'[held'[n]]])
                = IF held'[n] = None THEN None ELSE core'[n]
    <2>1. n # None
        BY VolumesAssumption DEF Calls
    <2> QED
        BY <2>1 DEF SessionInv, HeldStaysOpen
<1> QED
    BY <1>1 DEF SSessions

\* A call of one thread.
LEMMA OpChange ==
    ASSUME NEW t \in Threads,
           \A u \in Threads \ {t} : loc'[u] = loc[u] /\ pc'[u] = pc[u]
    PROVE  SOp' = [SOp EXCEPT ![t] = SOpOf(t)']
BY DEF SOp, SOpOf

LEMMA OpSame ==
    ASSUME \A u \in Threads : loc'[u] = loc[u] /\ (pc'[u] = "iv" <=> pc[u] = "iv")
    PROVE  SOp' = SOp
BY DEF SOp

LEMMA OpIs == \A t \in Threads : SOp[t] = SOpOf(t)
BY DEF SOp, SOpOf

Returned == [kind |-> "none", pw |-> None]

LEMMA OpIdle ==
    ASSUME NEW t \in Threads, pc[t] = "idle", loc[t] = Idle
    PROVE  SOpOf(t) = Returned
BY DEF SOpOf, Idle, Returned

\* A call returns.
LEMMA OpReturn ==
    ASSUME FileInv, NEW t \in Threads, NEW from, NEW r, Return(t, from, r)
    PROVE  /\ SOp' = [SOp EXCEPT ![t] = Returned]
           /\ report' = [report EXCEPT ![t] = r]
<1>1. /\ \A u \in Threads \ {t} : loc'[u] = loc[u] /\ pc'[u] = pc[u]
      /\ loc'[t] = Idle /\ pc'[t] = "idle"
    BY DEF Return, Step, FileInv, TypeOK
<1>2. SOpOf(t)' = Returned
    BY <1>1 DEF SOpOf, Idle, Returned
<1> QED
    BY <1>1, <1>2, OpChange DEF Return

LEMMA ShownConfig ==
    \A f \in Config :
        /\ Shown(f) = [key |-> f.key, set |-> f.set, pw |-> f.pw, weak |-> f.sync = "failed"]
        /\ Shown(f) \in Store!Volume
        /\ Store!IsVolume(Shown(f))
<1> SUFFICES ASSUME NEW f \in Config
             PROVE  /\ Shown(f) = [key |-> f.key, set |-> f.set, pw |-> f.pw, weak |-> f.sync = "failed"]
                    /\ Shown(f) \in Store!Volume
                    /\ Store!IsVolume(Shown(f))
    OBVIOUS
<1>1. Shown(f) = [key |-> f.key, set |-> f.set, pw |-> f.pw, weak |-> f.sync = "failed"]
    BY ConfigIsConfig DEF Shown
<1>2. Shown(f) \in Store!Volume
    <2>1. (f.sync = "failed") \in BOOLEAN
        OBVIOUS
    <2> QED
        BY <1>1, <2>1 DEF Config, Store!Volume
<1>3. \A x \in {None, Lost} : x \notin Store!Volume
    BY FilesAssumption DEF Store!Volume
<1> QED
    BY <1>1, <1>2, <1>3 DEF Store!IsVolume

\* VolumeStore has a volume exactly when the directory has a config file that is whole.
LEMMA ShownNone ==
    ASSUME FileInv
    PROVE  /\ SVolume = None <=> dir.conf = None
           /\ Store!IsVolume(SVolume) <=> IsConfig(dir.conf)
<1>1. CASE dir.conf \in {None, Lost}
    BY <1>1, VolumesAssumption DEF SVolume, Shown, IsConfig, NoConfig, Store!IsVolume
<1>2. CASE dir.conf \notin {None, Lost}
    <2>1. dir.conf \in Config
        BY <1>2, ConfOnDisk DEF OnDisk
    <2> QED
        BY <1>2, <2>1, ShownConfig, ConfigIsConfig DEF SVolume, Store!IsVolume
<1> QED
    BY <1>1, <1>2

\* A power loss does to a volume what VolumeStore says.
LEMMA ShownLoss ==
    ASSUME NEW f \in Config \cup NoConfig, OnDisk(f), NEW g \in AfterLoss(f)
    PROVE  Shown(g) \in Store!AfterLoss(Shown(f))
<1>1. CASE f \in {None, Lost}
    <2>1. g = f /\ Shown(f) = f
        BY <1>1 DEF AfterLoss, Shown, IsConfig, NoConfig
    <2> QED
        BY <1>1, <2>1 DEF Store!AfterLoss, Store!IsVolume
<1>2. CASE f \notin {None, Lost}
    <2>1. f \in Config /\ f.sync # "none" /\ IsConfig(f)
        BY <1>2, ConfigIsConfig DEF OnDisk
    <2>w. PICK weak \in BOOLEAN : weak = (f.sync = "failed")
        OBVIOUS
    <2>2. /\ Shown(f) = [key |-> f.key, set |-> f.set, pw |-> f.pw, weak |-> weak]
          /\ Store!IsVolume(Shown(f))
        BY <2>1, <2>w, ShownConfig
    <2>3. CASE g = [f EXCEPT !.sync = "done"]
        <3>1. g \in Config /\ g.key = f.key /\ g.set = f.set /\ g.pw = f.pw /\ ~(g.sync = "failed")
            BY <2>1, <2>3 DEF Config
        <3>2. Shown(g) = [key |-> g.key, set |-> g.set, pw |-> g.pw, weak |-> FALSE]
            <4>1. (g.sync = "failed") = FALSE
                BY <3>1
            <4> QED
                BY <3>1, <4>1, ShownConfig
        <3>3. Shown(g) = [Shown(f) EXCEPT !.weak = FALSE]
            <4>1. [Shown(f) EXCEPT !.weak = FALSE]
                    = [key |-> f.key, set |-> f.set, pw |-> f.pw, weak |-> FALSE]
                <5>1. PICK no : no = FALSE
                    OBVIOUS
                <5>2. [Shown(f) EXCEPT !.weak = no]
                        = [key |-> f.key, set |-> f.set, pw |-> f.pw, weak |-> no]
                    BY <2>2
                <5> QED
                    BY <5>1, <5>2, Zenon
            <4>2. Shown(g) = [key |-> f.key, set |-> f.set, pw |-> f.pw, weak |-> FALSE]
                BY <3>1, <3>2, Zenon
            <4> QED
                BY <4>1, <4>2, Zenon
        <3> QED
            BY <2>2, <3>3 DEF Store!AfterLoss
    <2>4. CASE g # [f EXCEPT !.sync = "done"]
        <3>1. g = Lost /\ f.sync = "failed"
            BY <2>1, <2>4 DEF AfterLoss
        <3>2. Shown(g) = Lost /\ Shown(f).weak
            <4>1. weak = TRUE
                BY <2>w, <3>1
            <4>2. Shown(f).weak
                BY <2>2, <4>1
            <4>3. Shown(g) = Lost
                BY <3>1 DEF Shown, IsConfig, NoConfig
            <4> QED
                BY <4>2, <4>3
        <3> QED
            BY <2>2, <3>2 DEF Store!AfterLoss
    <2> QED
        BY <2>3, <2>4
<1> QED
    BY <1>1, <1>2

\* A step that VolumeStore does not see.
LEMMA StoreStutter ==
    ASSUME SVolume' = SVolume, SSafe' = SSafe, SSessions' = SSessions, SOp' = SOp, report' = report
    PROVE  UNCHANGED Store!vars
BY DEF Store!vars, SVolume, SSafe, SSessions, SOp

\* What VolumeStore sees of a step that touches neither the config file nor the sessions.
LEMMA FilesSame ==
    ASSUME dir'.conf = dir.conf, journal'.conf = journal.conf
    PROVE  SVolume' = SVolume /\ SSafe' = SSafe
BY DEF SVolume, SSafe, Shown, IsConfig

LEMMA SessionsSame ==
    ASSUME UNCHANGED <<opened, core, held>>
    PROVE  SSessions' = SSessions
BY DEF SSessions

\* A call that fails.
LEMMA StoreFail ==
    ASSUME NEW t \in Threads, SVolume' = SVolume, SSafe' = SSafe, SSessions' = SSessions,
           SOp' = [SOp EXCEPT ![t] = Returned],
           report' = [report EXCEPT ![t] = "failed"]
    PROVE  Store!Next
<1>1. Store!Fail(t)
    BY DEF Store!Fail, Store!Return, Store!Nothing, Returned, SVolume, SSafe, SSessions, SOp
<1> QED
    BY <1>1 DEF Store!Next

\* A call begins.
LEMMA StoreBegin ==
    ASSUME NEW t \in Threads, NEW k \in {"init", "close", "change", "create"},
           NEW p \in Passwords \cup {None},
           SVolume' = SVolume, SSafe' = SSafe, SSessions' = SSessions,
           SOp[t] = Returned,
           SOp' = [SOp EXCEPT ![t] = [kind |-> k, pw |-> p]],
           report' = [report EXCEPT ![t] = "none"]
    PROVE  Store!Next
<1>1. Store!Begin(t)
    BY DEF Store!Begin, Store!Kinds, Store!Nothing, Returned, SVolume, SSafe, SSessions, SOp
<1> QED
    BY <1>1 DEF Store!Next

\* A call that fails at once.
LEMMA RefuseStore ==
    ASSUME FileInv, NEW t \in Threads, pc[t] = "idle", Refuse(t)
    PROVE  Store!Next
<1>1. loc[t] = Idle
    BY DEF FileInv, CallShaped
<1>2. SOp' = SOp /\ SOp[t] = Returned
    BY <1>1, OpSame, OpIdle, OpIs DEF Refuse
<1>3. SOp = [u \in Threads |-> SOp[u]]
    BY DEF SOp
<1>4. SOp' = [SOp EXCEPT ![t] = Returned]
    BY <1>2, <1>3
<1> QED
    BY <1>4, FilesSame, SessionsSame, StoreFail DEF Refuse, files, registry

LEMMA PanicStore ==
    ASSUME NEW cf, Panic(cf)
    PROVE  UNCHANGED Store!vars
BY FilesSame, SessionsSame, OpSame, StoreStutter DEF Panic, files, registry

\* gcf_init: it begins, or fails at once.
LEMMA InitVolumeStore ==
    ASSUME IInv, IInv', NEW t \in Threads, InitVolume(t)
    PROVE  [Store!Next]_Store!vars
<1> USE DEF IInv
<1>1. CASE Panic(dir.conf)
    BY <1>1, PanicStore
<1>2. CASE Refuse(t)
    BY <1>2, RefuseStore DEF InitVolume, MayBegin
<1>3. CASE /\ Begin(t, "init", "probe") /\ core' = [core EXCEPT ![calls + 1] = dir.conf.key]
           /\ UNCHANGED <<files, opened, held, crashes, fault>>
    <2>1. pc[t] = "idle" /\ loc[t] = Idle /\ calls + 1 \in Calls /\ calls + 1 > calls
        BY VolumesAssumption DEF InitVolume, MayBegin, FileInv, TypeOK, CallShaped, Calls
    <2>2. held[calls + 1] = None
        BY <2>1 DEF SessionInv, Unused
    <2>3. SSessions' = SSessions
        <3>1. \A n \in Calls : (IF held'[n] = None THEN None ELSE core'[n])
                                = IF held[n] = None THEN None ELSE core[n]
            BY <1>3, <2>1, <2>2 DEF FileInv, TypeOK
        <3> QED
            BY <3>1, SessionsAre, SessionsPrimed
    <2>4. /\ SOpOf(t)' = [kind |-> "init", pw |-> None]
          /\ \A u \in Threads \ {t} : loc'[u] = loc[u] /\ pc'[u] = pc[u]
        BY <1>3 DEF Begin, Idle, SOpOf, FileInv, TypeOK
    <2>5. SOp[t] = Returned
        BY <2>1, OpIdle, OpIs
    <2>6. SOp' = [SOp EXCEPT ![t] = [kind |-> "init", pw |-> None]]
        BY <2>4, OpChange
    <2> QED
        BY <1>3, <2>3, <2>5, <2>6, FilesSame, StoreBegin DEF Begin, files
<1> QED
    BY <1>1, <1>2, <1>3 DEF InitVolume

LEMMA StoreSessionStore ==
    ASSUME IInv, IInv', NEW t \in Threads, StoreSession(t)
    PROVE  Store!Next
<1> DEFINE n == loc[t].n
<1> USE DEF IInv
<1>1. Return(t, "store", "ok") /\ held' = [held EXCEPT ![n] = loc[t].id] /\ UNCHANGED <<files, core>>
    BY DEF StoreSession
<1>2. Running(t, "init") /\ InitShaped(t) /\ pc[t] = "store" /\ n \in Calls /\ loc[t].id # None
    BY VolumesAssumption
    DEF StoreSession, Return, Step, FileInv, TypeOK, CallShaped, SessionInv, Running, InitShaped,
        Calls, Sessions
<1>3. SOp[t].kind = "init"
    <2>1. SOpOf(t).kind = "init"
        BY <1>2 DEF SOpOf, Running
    <2> QED
        BY <2>1, OpIs
<1>4. SOp' = [SOp EXCEPT ![t] = Returned] /\ report' = [report EXCEPT ![t] = "ok"]
    BY <1>1, OpReturn
<1>5. dir.conf \in Config
    BY <1>2, IsConfigTyped DEF InitShaped, FileInv, TypeOK, Directory
<1>6. core[n] = SVolume.key /\ Store!IsVolume(SVolume)
    BY <1>2, <1>5, ShownConfig, ShownNone DEF InitShaped, SVolume
<1>7. SSessions[n] = None /\ SSessions' = [SSessions EXCEPT ![n] = SVolume.key]
    <2>1. held[n] = None
        BY <1>2 DEF InitShaped, Unused
    <2>2. \A m \in Calls : (IF held'[m] = None THEN None ELSE core'[m])
            = IF m = n THEN core[n] ELSE IF held[m] = None THEN None ELSE core[m]
        BY <1>1, <1>2, <2>1 DEF FileInv, TypeOK
    <2> HIDE DEF n
    <2> QED
        BY <1>2, <1>6, <2>1, <2>2, SessionsAre, SessionsPrimed
<1>8. SVolume' = SVolume /\ SSafe' = SSafe
    BY <1>1, FilesSame DEF files
<1>9. Store!Open(t)
    BY <1>2, <1>3, <1>4, <1>6, <1>7, <1>8
    DEF Store!Open, Store!Return, Store!Nothing, Returned, SVolume, SSafe, SSessions, SOp
<1> QED
    BY <1>9 DEF Store!Next

\* gcf_close: the client gives its session up, at once or until it is removed.
LEMMA CloseVolumeStore ==
    ASSUME IInv, IInv', NEW t \in Threads, CloseVolume(t)
    PROVE  Store!Next
<1> USE DEF IInv
<1>1. PICK n \in Calls :
        /\ held[n] # None
        /\ held' = [held EXCEPT ![n] = None]
        /\ ~IsClosed(held[n]) =>
                /\ core' = [core EXCEPT ![opened[held[n]]] = None]
                /\ pc' = [pc EXCEPT ![t] = "delete"]
                /\ loc' = [loc EXCEPT ![t] = [Idle EXCEPT !.op = "close", !.id = held[n]]]
                /\ report' = [report EXCEPT ![t] = "none"]
    BY DEF CloseVolume
<1>2. opened[held[n]] = n /\ core[n] # None /\ n # None
    BY <1>1, VolumesAssumption DEF SessionInv, HeldStaysOpen, Calls
<1>3. /\ core' = [core EXCEPT ![n] = None] /\ held' = [held EXCEPT ![n] = None]
      /\ pc' = [pc EXCEPT ![t] = "delete"]
      /\ loc' = [loc EXCEPT ![t] = [Idle EXCEPT !.op = "close", !.id = held[n]]]
      /\ report' = [report EXCEPT ![t] = "none"]
      /\ UNCHANGED files /\ pc[t] = "idle" /\ loc[t] = Idle
    BY <1>1, <1>2 DEF IsClosed, CloseVolume, FileInv, CallShaped
<1>4. SSessions[n] # None /\ SSessions' = [SSessions EXCEPT ![n] = None]
    <2>1. \A m \in Calls : (IF held'[m] = None THEN None ELSE core'[m])
            = IF m = n THEN None ELSE IF held[m] = None THEN None ELSE core[m]
        BY <1>3 DEF FileInv, TypeOK
    <2> QED
        BY <1>1, <1>2, <2>1, SessionsAre, SessionsPrimed
<1>5. SOp[t] = Returned
    BY <1>3, OpIdle, OpIs
<1>6. SOp' = [SOp EXCEPT ![t].kind = "close"]
    <2>1. SOpOf(t)' = [kind |-> "close", pw |-> None]
        BY <1>3 DEF SOpOf, Idle, FileInv, TypeOK
    <2>2. \A u \in Threads \ {t} : loc'[u] = loc[u] /\ pc'[u] = pc[u]
        BY <1>3 DEF FileInv, TypeOK
    <2>3. SOp' = [SOp EXCEPT ![t] = [kind |-> "close", pw |-> None]]
        BY <2>1, <2>2, OpChange
    <2>4. [SOp[t] EXCEPT !.kind = "close"] = [kind |-> "close", pw |-> None]
        BY <1>5 DEF Returned
    <2> QED
        BY <2>3, <2>4
<1>7. SVolume' = SVolume /\ SSafe' = SSafe
    BY <1>3, FilesSame DEF files
<1>8. Store!GiveUp(t)
    BY <1>3, <1>4, <1>5, <1>6, <1>7
    DEF Store!GiveUp, Store!Nothing, Returned, SVolume, SSafe, SSessions, SOp
<1> QED
    BY <1>8 DEF Store!Next

LEMMA DeleteSessionStore ==
    ASSUME IInv, IInv', NEW t \in Threads, DeleteSession(t)
    PROVE  Store!Next
<1> USE DEF IInv
<1>1. Return(t, "delete", "ok") /\ UNCHANGED <<files, core, held>>
    BY DEF DeleteSession
<1>2. SOp[t].kind = "close"
    <2>1. pc[t] = "delete" /\ loc[t].op = "close"
        BY <1>1 DEF Return, Step, FileInv, CallShaped
    <2>2. SOpOf(t).kind = "close"
        BY <2>1 DEF SOpOf
    <2> QED
        BY <2>2, OpIs
<1>3. SOp' = [SOp EXCEPT ![t] = Returned] /\ report' = [report EXCEPT ![t] = "ok"]
    BY <1>1, OpReturn
<1>4. SSessions' = SSessions
    BY <1>1, SessionsAre, SessionsPrimed
<1>5. SVolume' = SVolume /\ SSafe' = SSafe
    BY <1>1, FilesSame DEF files
<1>6. Store!Closed(t)
    BY <1>2, <1>3, <1>4, <1>5
    DEF Store!Closed, Store!Return, Store!Nothing, Returned, SVolume, SSafe, SSessions, SOp
<1> QED
    BY <1>6 DEF Store!Next

\* A call that goes on to WriteFile.
LEMMA BeginWriteStore ==
    ASSUME FileInv, NEW t \in Threads, pc[t] = "idle",
           NEW kind \in {"change", "create"}, NEW cf \in Config, BeginWrite(t, kind, cf)
    PROVE  Store!Next
<1>1. loc[t] = Idle
    BY DEF FileInv, CallShaped
<1>2. cf # None /\ cf.pw \in Passwords
    BY FilesAssumption DEF Config
<1>3. SOpOf(t)' = [kind |-> kind, pw |-> cf.pw]
    BY <1>2 DEF BeginWrite, SOpOf, FileInv, TypeOK
<1>4. \A u \in Threads \ {t} : loc'[u] = loc[u] /\ pc'[u] = pc[u]
    BY DEF BeginWrite, FileInv, TypeOK
<1>5. SOp' = [SOp EXCEPT ![t] = [kind |-> kind, pw |-> cf.pw]]
    BY <1>3, <1>4, OpChange
<1>6. SOp[t] = Returned
    BY <1>1, OpIdle, OpIs
<1> QED
    BY <1>2, <1>5, <1>6, FilesSame, SessionsSame, StoreBegin DEF BeginWrite, files, registry

LEMMA ChangePasswordStore ==
    ASSUME FileInv, NEW t \in Threads, ChangePassword(t)
    PROVE  [Store!Next]_Store!vars
<1>1. pc[t] = "idle"
    BY DEF ChangePassword, MayBegin
<1> QED
    BY <1>1, ChangePasswordCases, PanicStore, RefuseStore, BeginWriteStore DEF WriteConfig

LEMMA CreateVolumeStore ==
    ASSUME FileInv, NEW t \in Threads, CreateVolume(t)
    PROVE  [Store!Next]_Store!vars
<1>1. pc[t] = "idle"
    BY DEF CreateVolume, MayBegin
<1> QED
    BY <1>1, CreateVolumeCases, PanicStore, RefuseStore, BeginWriteStore DEF WriteConfig

\* A write error.
LEMMA FailReturnStore ==
    ASSUME FileInv, NEW t \in Threads, NEW from, Return(t, from, "failed"),
           dir'.conf = dir.conf, journal'.conf = journal.conf, UNCHANGED <<opened, core, held>>
    PROVE  Store!Next
BY OpReturn, FilesSame, SessionsSame, StoreFail

LEMMA OpenTmpStore ==
    ASSUME FileInv, NEW t \in Threads, OpenTmp(t)
    PROVE  [Store!Next]_Store!vars
<1>1. /\ dir'.conf = dir.conf /\ journal'.conf = journal.conf
      /\ UNCHANGED <<opened, core, held>>
    BY DEF OpenTmp, registry, FileInv, TypeOK, Directory
<1>2. CASE dir.tmp # None
    BY <1>1, <1>2, FailReturnStore DEF OpenTmp
<1>3. CASE dir.tmp = None
    <2>1. /\ \A u \in Threads : loc'[u] = loc[u] /\ (pc'[u] = "iv" <=> pc[u] = "iv")
          /\ report' = report
        BY <1>3 DEF OpenTmp, Step, FileInv, TypeOK
    <2> QED
        BY <1>1, <2>1, FilesSame, SessionsSame, OpSame, StoreStutter
<1> QED
    BY <1>2, <1>3

LEMMA WriteTmpStore ==
    ASSUME FileInv, NEW t \in Threads, WriteTmp(t)
    PROVE  UNCHANGED Store!vars
<1>1. /\ dir'.conf = dir.conf /\ journal'.conf = journal.conf
      /\ UNCHANGED <<opened, core, held>>
      /\ \A u \in Threads : loc'[u] = loc[u] /\ (pc'[u] = "iv" <=> pc[u] = "iv")
      /\ report' = report
    BY DEF WriteTmp, Step, registry, FileInv, TypeOK, Directory
<1> QED
    BY <1>1, FilesSame, SessionsSame, OpSame, StoreStutter

\* The config file comes on disk.
LEMMA CommitStore ==
    ASSUME Commit
    PROVE  Store!Next
<1>1. /\ dir' = dir /\ journal' = dir
      /\ UNCHANGED <<opened, core, held, pc, loc, report>>
    BY DEF Commit, registry
<1>2. SVolume' = SVolume /\ SSafe' = SVolume
    BY <1>1 DEF SVolume, SSafe, Shown, IsConfig
<1>3. SSessions' = SSessions /\ SOp' = SOp
    BY <1>1, SessionsSame, OpSame
<1>4. Store!Commit
    BY <1>1, <1>2, <1>3 DEF Store!Commit, SVolume, SSafe, SSessions, SOp
<1> QED
    BY <1>4 DEF Store!Next

LEMMA SyncTmpStore ==
    ASSUME FileInv, NEW t \in Threads, SyncTmp(t)
    PROVE  UNCHANGED Store!vars
<1>1. /\ dir'.conf = dir.conf /\ journal'.conf = journal.conf
      /\ UNCHANGED <<opened, core, held>>
      /\ \A u \in Threads : loc'[u] = loc[u] /\ (pc'[u] = "iv" <=> pc[u] = "iv")
      /\ report' = report
    BY DEF SyncTmp, Step, registry, FileInv, TypeOK, Directory
<1> QED
    BY <1>1, FilesSame, SessionsSame, OpSame, StoreStutter

\* What a rename shows: the same volume under the new password, or a new one.
LEMMA RenamedVolume ==
    ASSUME FileInv, KeyInv, NEW t \in Threads, RenameTmp(t)
    PROVE  /\ SVolume' \in Store!Volume
           /\ SVolume'.pw = SOp[t].pw
           /\ SOp[t].kind = loc[t].op
           /\ IF loc[t].op = "change"
              THEN /\ Store!IsVolume(SVolume)
                   /\ SVolume'.key = SVolume.key /\ SVolume'.set = SVolume.set
              ELSE loc[t].op = "create" /\ SVolume = None
           /\ SSafe' = SSafe /\ SSessions' = SSessions
<1>1. PICK cf \in Config : cf = loc[t].cf
    BY DEF RenameTmp, Return, Step, FileInv, CallShaped, InWriteFile
<1>n. cf # None /\ pc[t] # "iv"
    BY <1>1, FilesAssumption DEF RenameTmp, Return, Step
<1>2. PICK new \in Config : /\ new = dir'.conf
                            /\ new.key = cf.key /\ new.set = cf.set /\ new.pw = cf.pw
    BY <1>1, RenamedConf, MarkedTyped
<1>3. PICK weak \in BOOLEAN : weak = (new.sync = "failed")
    OBVIOUS
<1>4. /\ SVolume' = [key |-> cf.key, set |-> cf.set, pw |-> cf.pw, weak |-> weak]
      /\ SVolume' \in Store!Volume
    <2>1. SVolume' = Shown(new)
        BY <1>2 DEF SVolume, Shown, IsConfig
    <2> QED
        BY <1>2, <1>3, <2>1, ShownConfig
<1>5. SOp[t].pw = cf.pw /\ SOp[t].kind = loc[t].op
    <2>1. SOpOf(t).pw = cf.pw /\ SOpOf(t).kind = loc[t].op
        BY <1>1, <1>n DEF SOpOf
    <2> QED
        BY <2>1, OpIs
<1>6. loc[t].op # "change" => loc[t].op = "create" /\ SVolume = None
    BY RenamedConf, ShownNone
<1>7. ASSUME loc[t].op = "change"
      PROVE  /\ Store!IsVolume(SVolume)
             /\ SVolume'.key = SVolume.key /\ SVolume'.set = SVolume.set
    <2>1. IsConfig(dir.conf) /\ SameKey(dir'.conf, dir.conf)
        BY <1>7, RenamedConf
    <2>2. PICK old \in Config : old = dir.conf
        BY <2>1, IsConfigTyped DEF FileInv, TypeOK, Directory
    <2>3. old.key = cf.key /\ old.set = cf.set
        BY <1>2, <2>1, <2>2 DEF SameKey
    <2>4. PICK was \in BOOLEAN : was = (old.sync = "failed")
        OBVIOUS
    <2>5. SVolume = [key |-> cf.key, set |-> cf.set, pw |-> old.pw, weak |-> was]
        BY <2>2, <2>3, <2>4, ShownConfig DEF SVolume
    <2> QED
        <3>1. Store!IsVolume(SVolume)
            BY <2>1, ShownNone
        <3>2. SVolume.key = cf.key /\ SVolume.set = cf.set
            BY <2>5
        <3>3. SVolume'.key = cf.key /\ SVolume'.set = cf.set
            BY <1>4
        <3> QED
            BY <3>1, <3>2, <3>3
<1>8. SSafe' = SSafe /\ SSessions' = SSessions
    BY SessionsSame DEF RenameTmp, registry, SSafe, Shown, IsConfig
<1> QED
    BY <1>4, <1>5, <1>6, <1>7, <1>8

LEMMA RenameTmpStore ==
    ASSUME FileInv, KeyInv, NEW t \in Threads, RenameTmp(t)
    PROVE  Store!Next
<1>1. CASE Return(t, "rename", "ok")
    <2>1. SOp' = [SOp EXCEPT ![t] = Returned] /\ report' = [report EXCEPT ![t] = "ok"]
        BY <1>1, OpReturn
    <2>2. CASE loc[t].op = "change"
        <3>1. Store!ChangePassword(t)
            BY <2>1, <2>2, RenamedVolume
            DEF Store!ChangePassword, Store!Return, Store!Nothing, Returned,
                SVolume, SSafe, SSessions, SOp
        <3> QED
            BY <3>1 DEF Store!Next
    <2>3. CASE loc[t].op # "change"
        <3>1. Store!Create(t)
            BY <2>1, <2>3, RenamedVolume
            DEF Store!Create, Store!Return, Store!Nothing, Returned, SVolume, SSafe, SSessions, SOp
        <3> QED
            BY <3>1 DEF Store!Next
    <2> QED
        BY <2>2, <2>3
<1>2. CASE loc[t].op = "create" /\ Step(t, "rename", "iv") /\ UNCHANGED <<loc, report>>
    <2>1. \A u \in Threads \ {t} : loc'[u] = loc[u] /\ pc'[u] = pc[u]
        BY <1>2 DEF Step, FileInv, TypeOK
    <2>2. SOpOf(t)' = [SOpOf(t) EXCEPT !.kind = "created"]
        BY <1>2 DEF Step, FileInv, TypeOK, SOpOf
    <2>3. SOp' = [SOp EXCEPT ![t].kind = "created"]
        BY <2>1, <2>2, OpChange, OpIs
    <2>4. Store!Create(t)
        BY <1>2, <2>3, RenamedVolume
        DEF Store!Create, SVolume, SSafe, SSessions, SOp
    <2> QED
        BY <2>4 DEF Store!Next
<1> QED
    BY <1>1, <1>2 DEF RenameTmp

LEMMA WriteRootIVStore ==
    ASSUME FileInv, NEW t \in Threads, WriteRootIV(t)
    PROVE  Store!Next
<1>1. /\ dir'.conf = dir.conf /\ journal'.conf = journal.conf
      /\ UNCHANGED <<opened, core, held>>
    BY DEF WriteRootIV, registry, FileInv, TypeOK, Directory
<1>2. CASE Return(t, "iv", "failed")
    BY <1>1, <1>2, FailReturnStore
<1>3. CASE Return(t, "iv", "ok")
    <2>1. SOpOf(t).kind = "created"
        BY <1>3 DEF Return, Step, SOpOf
    <2>2. SOp[t].kind = "created"
        BY <2>1, OpIs
    <2>3. SOp' = [SOp EXCEPT ![t] = Returned] /\ report' = [report EXCEPT ![t] = "ok"]
        BY <1>3, OpReturn
    <2>4. SVolume' = SVolume /\ SSafe' = SSafe /\ SSessions' = SSessions
        BY <1>1, FilesSame, SessionsSame
    <2>5. Store!Created(t)
        BY <2>2, <2>3, <2>4
        DEF Store!Created, Store!Return, Store!Nothing, Returned, SVolume, SSafe, SSessions, SOp
    <2> QED
        BY <2>5 DEF Store!Next
<1> QED
    BY <1>2, <1>3 DEF WriteRootIV

LEMMA FailStepStore ==
    ASSUME FileInv, NEW t \in Threads, FailStep(t)
    PROVE  Store!Next
BY FailReturnStore DEF FailStep, files, registry

\* A crash leaves the volume as it was, or what the disk has of it.
LEMMA RestartStore ==
    ASSUME FileInv, Restart,
           \/ SVolume' = SVolume /\ SSafe' = SSafe
           \/ /\ SVolume' \in Store!AfterLoss(SVolume) \cup Store!AfterLoss(SSafe)
              /\ SSafe' = SVolume'
    PROVE  Store!Next
<1>1. SSessions' = [n \in Calls |-> None]
    BY DEF Restart, SSessions
<1>2. SOp' = [t \in Threads |-> Returned]
    BY DEF Restart, SOp, Idle, Returned
<1>3. Store!Crash
    BY <1>1, <1>2
    DEF Restart, Store!Crash, Store!NoSessions, Store!Nothing, Returned,
        SVolume, SSafe, SSessions, SOp
<1> QED
    BY <1>3 DEF Store!Next

LEMMA KillStore ==
    ASSUME FileInv, Kill
    PROVE  Store!Next
BY RestartStore, FilesSame DEF Kill, files

LEMMA PowerLossStore ==
    ASSUME FileInv, PowerLoss
    PROVE  Store!Next
<1>1. PICK d \in {dir, journal} :
        d \in Directory /\ journal' = dir' /\ dir'.conf \in AfterLoss(d.conf) /\ OnDisk(d.conf)
    BY LossConf
<1>2. PICK f \in Config \cup NoConfig : f = d.conf
    BY <1>1 DEF Directory
<1>g. PICK g \in AfterLoss(f) : g = dir'.conf
    BY <1>1, <1>2
<1>3. Shown(g) \in Store!AfterLoss(Shown(f))
    BY <1>1, <1>2, <1>g, ShownLoss
<1>4. SVolume' = Shown(g) /\ SSafe' = Shown(g)
    BY <1>1, <1>g DEF SVolume, SSafe, Shown, IsConfig
<1>5. Shown(f) \in {SVolume, SSafe}
    BY <1>1, <1>2 DEF SVolume, SSafe
<1>6. SVolume' \in Store!AfterLoss(SVolume) \cup Store!AfterLoss(SSafe)
    BY <1>3, <1>4, <1>5
<1> QED
    BY <1>4, <1>6, RestartStore DEF PowerLoss

LEMMA StoreInit == Init => Store!Init
<1> SUFFICES ASSUME Init PROVE Store!Init
    OBVIOUS
<1>1. FileInv
    BY FileInit
<1>2. SVolume = None \/ SVolume \in Store!Volume
    <2>1. dir.conf = None \/ dir.conf \in Config
        BY FileConfig
    <2> QED
        BY <1>1, <2>1, ShownNone, ShownConfig DEF SVolume
<1>3. SSafe = SVolume
    BY DEF SVolume, SSafe, Init
<1>4. SSessions = [n \in Calls |-> None]
    BY DEF Init, SSessions
<1>5. SOp = [t \in Threads |-> Returned]
    BY DEF Init, SOp, Idle, Returned
<1> QED
    BY <1>2, <1>3, <1>4, <1>5
    DEF Init, Store!Init, Store!NoSessions, Store!Nothing, Returned,
        SVolume, SSafe, SSessions, SOp

LEMMA StoreStep == IInv /\ IInv' /\ [Next]_vars => [Store!Next]_Store!vars
<1> SUFFICES ASSUME IInv, IInv', [Next]_vars
             PROVE  [Store!Next]_Store!vars
    OBVIOUS
<1>f. FileInv /\ FileInv' /\ KeyInv
    BY DEF IInv
<1>1. CASE UNCHANGED vars
    BY <1>1, FilesSame, SessionsSame, OpSame, StoreStutter DEF vars
<1>2. ASSUME NEW t \in Threads, ProbeSession(t)
      PROVE  UNCHANGED Store!vars
    <2>1. UNCHANGED <<dir, journal, opened, core, held, report>>
        BY <1>2 DEF ProbeSession, files, registry
    <2>2. \A u \in Threads : loc'[u].op = loc[u].op /\ loc'[u].cf = loc[u].cf
                             /\ (pc'[u] = "iv" <=> pc[u] = "iv")
        BY <1>2, <1>f DEF ProbeSession, Step, FileInv, TypeOK
    <2>3. SOp' = SOp
        BY <2>2 DEF SOp
    <2> QED
        BY <2>1, <2>3, FilesSame, SessionsSame, StoreStutter
<1>3. CASE Commit
    BY <1>3, CommitStore
<1> QED
    BY <1>f, <1>1, <1>2, <1>3, InitVolumeStore, StoreSessionStore, CloseVolumeStore,
       DeleteSessionStore, ChangePasswordStore, CreateVolumeStore, OpenTmpStore, WriteTmpStore,
       SyncTmpStore, RenameTmpStore, WriteRootIVStore, FailStepStore, KillStore, PowerLossStore
    DEF Next

\* Whatever the threads of a careful client do at once, whatever fails and whenever the
\* machine crashes, the calls do what VolumeStore promises: one volume whose key and settings
\* never change, a password that is replaced as a whole, a session for each gcf_init.
THEOREM Implements == ASSUME Careful PROVE Spec => ImplementsVolumeStore
<1>1. Init => Store!Init
    BY StoreInit
<1>2. IInv /\ IInv' /\ [Next]_vars => [Store!Next]_Store!vars
    BY StoreStep
<1>3. Spec => []IInv
    BY IInvHolds
<1> QED
    BY <1>1, <1>2, <1>3, PTL DEF Spec, ImplementsVolumeStore, Store!Spec
=============================================================================
