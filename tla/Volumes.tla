-------------------------------- MODULE Volumes --------------------------------
(***************************************************************************)
(* volume.go and internal/configfile: gcf_create_volume, gcf_init,         *)
(* gcf_change_password and gcf_close on one directory, called from several *)
(* threads, and the registry OpenedVolumes.  What may fail between two     *)
(* system calls fails; the process may be killed and the machine may lose  *)
(* power at any moment.                                                    *)
(*                                                                         *)
(* The n-th call draws the n-th random master key and scrypt salt, and     *)
(* makes the n-th Volume object.  A scrypt hash is the number of its salt. *)
(* What a scrypt hash seals opens with this hash only (external).          *)
(***************************************************************************)
EXTENDS Naturals

CONSTANTS
    Threads,
    Passwords,
    LogNs,          \* scrypt cost parameters that the client asks for
    Foreign,        \* key, settings and scrypt parameters of a gocryptfs.conf from elsewhere
    MemoryLog,      \* scrypt.Key can allocate 2^MemoryLog times 128 bytes
    MaxCalls,       \* bound: calls
    ForeignCalls,   \* bound: of these, calls when there is such a gocryptfs.conf
    MaxCrashes,     \* bound: kills and power losses
    NumSessions,    \* bound: sessions 0 .. NumSessions - 1
    DiskMayFail,    \* whether writes, syncs and renames may fail
    Serial,         \* kinds of calls that the client makes one at a time
    OverExisting,   \* whether it creates volumes where one exists
    None, Torn, Lost, Empty

Calls    == 1..MaxCalls
Keys     == 0..MaxCalls
Sessions == 0..NumSessions - 1

ASSUME VolumesAssumption ==
    /\ {MaxCalls, MaxCrashes} \subseteq Nat
    /\ NumSessions \in Nat \ {0}
    /\ ForeignCalls \in 0..MaxCalls
    /\ LogNs \subseteq Nat
    /\ MemoryLog \in 0..29
    /\ DiskMayFail \in BOOLEAN
    /\ OverExisting \in BOOLEAN
    /\ Serial \subseteq {"init", "create", "change"}
    /\ None # Torn /\ None # Lost /\ Torn # Lost
    /\ None \notin Nat \cup Passwords
    /\ Empty \notin Nat
    /\ \A p \in Passwords : p \notin Nat

VARIABLES
    dir,      \* the directory: gocryptfs.conf, its .tmp, gocryptfs.diriv
    journal,  \* the directory as a power loss leaves it
    opened,   \* OpenedVolumes: session to Volume object
    core,     \* the key in the cryptoCore of each Volume object
    held,     \* the session that each gcf_init returned and the client keeps
    pc, loc,  \* where each thread is and the locals of its call
    report,   \* what its last call returned
    calls, crashes,
    fault     \* the config file on which the process has ended, if it has

vars == <<dir, journal, opened, core, held, pc, loc, report, calls, crashes, fault>>

alive == fault = None

-----------------------------------------------------------------------------
(* Settings: feature flags, LongNameMax and scrypt parameters of a ConfFile *)

KnownFlags == {"PlaintextNames", "DirIV", "EMENames", "GCMIV128", "LongNames", "LongNameMax",
               "AESSIV", "Raw64", "HKDF", "FIDO2", "XChaCha20Poly1305"}

\* cryptocore.KeyLen
KeyLen == 32

\* ScryptKDF: N is 2^logN, or lies between 2^logN and the next power of two; the salt
\* is its length.
ScryptKDF == [logN : Nat, power : BOOLEAN, r : Nat, p : Nat, keyLen : Nat, salt : Nat]

\* NewScryptKDF: 1 << 63 is negative and 1 << 64 is 0 in 64 bits, less than any minimum.
NewScryptKDF(logN) ==
    [logN |-> IF logN = 0 THEN 16 ELSE IF logN < 63 THEN logN ELSE 0,
     power |-> TRUE, r |-> 8, p |-> 1, keyLen |-> KeyLen, salt |-> 32]

\* LogN: the logarithm of N, rounded.
LogN(k) == {k.logN} \cup (IF k.power THEN {} ELSE {k.logN + 1})

\* validateParams: nothing is too large for it.
ValidateParams(k) == k.logN >= 10 /\ k.r >= 8 /\ k.p >= 1 /\ k.salt >= 32 /\ k.keyLen >= KeyLen

\* Slip: XChaCha20 without HKDF is let through.
ValidateNoHKDF(s, k) ==
    /\ ValidateParams(k)
    /\ s.flags \subseteq KnownFlags
    /\ ~({"XChaCha20Poly1305", "AESSIV"} \subseteq s.flags)
    /\ "GCMIV128" \in s.flags <=> "XChaCha20Poly1305" \notin s.flags
    /\ "PlaintextNames" \in s.flags =>
            s.flags \cap {"EMENames", "DirIV", "LongNames", "Raw64", "LongNameMax"} = {}
    /\ s.longNameMax # 0 <=> "LongNameMax" \in s.flags

\* Validate
Validate(s, k) ==
    /\ ValidateParams(k)
    /\ s.flags \subseteq KnownFlags
    /\ ~({"XChaCha20Poly1305", "AESSIV"} \subseteq s.flags)
    /\ "GCMIV128" \in s.flags <=> "XChaCha20Poly1305" \notin s.flags
    /\ "XChaCha20Poly1305" \in s.flags => "HKDF" \in s.flags
    /\ "PlaintextNames" \in s.flags =>
            s.flags \cap {"EMENames", "DirIV", "LongNames", "Raw64", "LongNameMax"} = {}
    /\ s.longNameMax # 0 <=> "LongNameMax" \in s.flags

\* Create: the flags that follow from its arguments.
CreateFlags(a) ==
    {"HKDF"}
    \cup (IF a.xchacha THEN {"XChaCha20Poly1305"} ELSE {"GCMIV128"})
    \cup (IF a.plaintext THEN {"PlaintextNames"}
          ELSE {"EMENames", "LongNames", "Raw64"}
               \cup (IF a.deterministic THEN {} ELSE {"DirIV"})
               \cup (IF a.longNameMax \in {0, 255} THEN {} ELSE {"LongNameMax"}))
    \cup (IF a.aessiv THEN {"AESSIV"} ELSE {})

CreateSettings(a) ==
    [flags |-> CreateFlags(a),
     longNameMax |-> IF ~a.plaintext /\ a.longNameMax # 255 THEN a.longNameMax ELSE 0]

\* The arguments gcf_create_volume passes on.
CreateArgs ==
    [plaintext : BOOLEAN, xchacha : BOOLEAN, logN : LogNs,
     aessiv : {FALSE}, deterministic : {FALSE}, longNameMax : {255}]

\* ContentEncryption, and the nonce length in bytes of its result.
ContentEncryption(s) ==
    IF "XChaCha20Poly1305" \in s.flags THEN "XChaCha20-Poly1305"
    ELSE IF "AESSIV" \in s.flags THEN "AES-SIV-512" ELSE "AES-GCM-256"

NonceSize(algo) == IF algo = "XChaCha20-Poly1305" THEN 24 ELSE 16

\* cryptocore.New: whether it accepts the backend with a nonce of that size.
CoreAccepts(algo, nonce, hkdf) ==
    CASE algo = "XChaCha20-Poly1305" -> nonce = 24 /\ hkdf
      [] algo = "AES-SIV-512"        -> nonce = 16
      [] algo = "AES-GCM-256"        -> nonce \in {12, 16}

\* DeriveKey: parameters below the minimum end the process, and so do those that scrypt.Key
\* refuses or has no memory for (external): 128 * N * r and 128 * r * p bytes.
DeriveKeyWorks(k) ==
    /\ ValidateParams(k)
    /\ k.power
    /\ k.logN <= MemoryLog /\ k.r * 2^k.logN <= 2^MemoryLog
    /\ k.r * k.p <= 2^MemoryLog

\* ... and the hash is a key that cryptocore.New takes.
HashWorks(k) == DeriveKeyWorks(k) /\ k.keyLen = KeyLen

\* registerNewVolume up to the registry; an empty EncryptedKey decrypts to an empty key.
Mounts(cf) ==
    LET algo == ContentEncryption(cf.set)
    IN  cf.key # Empty /\ CoreAccepts(algo, NonceSize(algo), "HKDF" \in cf.set.flags)

\* getKeyEncrypter: the master key is wrapped with GCM whatever the content uses.
KeyEncrypterWorks(s) ==
    CoreAccepts("AES-GCM-256", IF "HKDF" \in s.flags THEN 16 ELSE 12, "HKDF" \in s.flags)

Settings == [flags : SUBSET (KnownFlags \cup {"Unknown"}), longNameMax : 0..255]

-----------------------------------------------------------------------------
(* Files and locals                                                        *)

\* A config file: the key it wraps, if any, under which password and salt, and how its sync ended.
Config == [key : Keys \cup {Empty}, pw : Passwords, salt : Keys, set : Settings, kdf : ScryptKDF,
           sync : {"none", "failed", "done"}]

ASSUME FilesAssumption ==
    /\ Foreign \subseteq [key : {0, Empty}, set : Settings, kdf : ScryptKDF]
    /\ \A x \in {None, Torn, Lost} :
        /\ x \notin Config
        /\ x \notin [key : Keys \cup {Empty}, set : Settings, pw : Passwords, weak : BOOLEAN]

\* Torn: written in part, or never synced when the power was lost; Lost: its sync had failed.
NoConfig == {None, Torn, Lost}

Directory == [conf : Config \cup NoConfig, tmp : Config \cup NoConfig, iv : BOOLEAN]

Idle == [op |-> "none", n |-> 0, id |-> 0, cf |-> None]

IsConfig(f) == f \notin NoConfig

\* A password or a hash that a call returned.
Secrets == Passwords \cup 0..calls

\* GetMasterkey: DecryptMasterKey or DecryptMasterKeyWithScryptHash.
Opens(secret, cf) == cf.key = Empty \/ secret \in {cf.pw, cf.salt}

\* Load
Loads(f) == IsConfig(f) /\ Validate(f.set, f.kdf)

InWriteFile == {"tmp", "write", "sync", "rename"}

-----------------------------------------------------------------------------
(* Steps of a call                                                         *)

Running(t, kind) == loc[t].op = kind

\* The client's discipline.
MayBegin(t, kind) ==
    /\ alive
    /\ pc[t] = "idle"
    /\ calls < MaxCalls
    /\ kind \in Serial => \A u \in Threads : ~Running(u, kind)

Begin(t, kind, first) ==
    /\ pc' = [pc EXCEPT ![t] = first]
    /\ loc' = [loc EXCEPT ![t] = [Idle EXCEPT !.op = kind, !.n = calls + 1]]
    /\ report' = [report EXCEPT ![t] = "none"]
    /\ calls' = calls + 1

Step(t, from, to) ==
    /\ alive
    /\ pc[t] = from
    /\ pc' = [pc EXCEPT ![t] = to]

\* What r the call returns; its locals are gone.
Return(t, from, r) ==
    /\ Step(t, from, "idle")
    /\ loc' = [loc EXCEPT ![t] = Idle]
    /\ report' = [report EXCEPT ![t] = r]

files    == <<dir, journal>>
registry == <<opened, core, held>>
counts   == <<calls, crashes>>

-----------------------------------------------------------------------------
(* gcf_init                                                                *)

\* DeriveKey runs only when no hash is given.
UnlockPanics(secret) ==
    /\ Loads(dir.conf)
    /\ \/ secret \in Passwords /\ ~HashWorks(dir.conf.kdf)
       \/ ~KeyEncrypterWorks(dir.conf.set)

Unlocks(secret) == Loads(dir.conf) /\ Opens(secret, dir.conf)

\* A panic, or os.Exit.
Panic(cf) ==
    /\ fault' = cf
    /\ UNCHANGED <<files, registry, pc, loc, report, counts>>

\* A call that fails before it has changed anything.
Refuse(t) ==
    /\ report' = [report EXCEPT ![t] = "failed"]
    /\ UNCHANGED <<files, registry, pc, loc, counts, fault>>

\* Load, GetMasterkey and the Volume object of registerNewVolume.
InitVolume(t) ==
    /\ MayBegin(t, "init")
    /\ \E secret \in Secrets :
            IF UnlockPanics(secret) \/ (Unlocks(secret) /\ ~Mounts(dir.conf)) THEN Panic(dir.conf)
            ELSE IF ~Unlocks(secret) THEN Refuse(t)
            ELSE /\ Begin(t, "init", "probe")
                 /\ core' = [core EXCEPT ![calls + 1] = dir.conf.key]
                 /\ UNCHANGED <<files, opened, held, crashes, fault>>

\* Slip: the first session is taken, in use or not.
ProbeSessionNot(t) ==
    /\ Step(t, "probe", "store")
    /\ UNCHANGED <<files, registry, loc, report, counts, fault>>

\* One round of the search for an unused session: OpenedVolumes.Load.
ProbeSession(t) ==
    LET id == loc[t].id
    IN  /\ Step(t, "probe", IF opened[id] = None THEN "store" ELSE "probe")
        /\ IF opened[id] = None THEN UNCHANGED loc
           ELSE /\ id + 1 \in Sessions
                /\ loc' = [loc EXCEPT ![t].id = id + 1]
        /\ UNCHANGED <<files, registry, report, counts, fault>>

\* OpenedVolumes.Store, and the client has its session.
StoreSession(t) ==
    /\ Return(t, "store", "ok")
    /\ opened' = [opened EXCEPT ![loc[t].id] = loc[t].n]
    /\ held' = [held EXCEPT ![loc[t].n] = loc[t].id]
    /\ UNCHANGED <<files, core, counts, fault>>

-----------------------------------------------------------------------------
(* gcf_close: the handles are in HandleTable                               *)

\* gcf_is_closed
IsClosed(id) == opened[id] = None

\* Slip: no Wipe.
CloseVolumeUnwiped(t) ==
    /\ alive
    /\ pc[t] = "idle"
    /\ \E n \in Calls :
            /\ held[n] # None
            /\ held' = [held EXCEPT ![n] = None]
            /\ pc' = [pc EXCEPT ![t] = "delete"]
            /\ loc' = [loc EXCEPT ![t] = [Idle EXCEPT !.op = "close", !.id = held[n]]]
    /\ report' = [report EXCEPT ![t] = "none"]
    /\ UNCHANGED <<files, opened, core, counts, fault>>

\* Load and Wipe.
CloseVolume(t) ==
    /\ alive
    /\ pc[t] = "idle"
    /\ \E n \in Calls :
        LET id == held[n]
        IN  /\ id # None
            /\ held' = [held EXCEPT ![n] = None]
            /\ IF IsClosed(id)
               THEN /\ report' = [report EXCEPT ![t] = "ok"]
                    /\ UNCHANGED <<core, pc, loc>>
               ELSE /\ core' = [core EXCEPT ![opened[id]] = None]
                    /\ pc' = [pc EXCEPT ![t] = "delete"]
                    /\ loc' = [loc EXCEPT ![t] = [Idle EXCEPT !.op = "close", !.id = id]]
                    /\ report' = [report EXCEPT ![t] = "none"]
    /\ UNCHANGED <<files, opened, counts, fault>>

DeleteSession(t) ==
    /\ Return(t, "delete", "ok")
    /\ opened' = [opened EXCEPT ![loc[t].id] = None]
    /\ UNCHANGED <<files, core, held, counts, fault>>

-----------------------------------------------------------------------------
(* gcf_change_password and gcf_create_volume up to WriteFile               *)

\* EncryptKey: the key under a new salt and the default scrypt parameters but for the cost.
EncryptKey(key, p, set, logN) ==
    [key |-> key, pw |-> p, salt |-> calls + 1, set |-> set, kdf |-> NewScryptKDF(logN),
     sync |-> "none"]

BeginWrite(t, kind, cf) ==
    /\ pc' = [pc EXCEPT ![t] = "tmp"]
    /\ loc' = [loc EXCEPT ![t] = [op |-> kind, n |-> calls + 1, id |-> 0, cf |-> cf]]
    /\ report' = [report EXCEPT ![t] = "none"]
    /\ calls' = calls + 1
    /\ UNCHANGED <<files, registry, crashes, fault>>

\* WriteFile comes after DeriveKey of the new hash.
WriteConfig(t, kind, cf) ==
    IF HashWorks(cf.kdf) THEN BeginWrite(t, kind, cf) ELSE Panic(cf)

\* The same key and settings under a new password and salt.
ChangePassword(t) ==
    /\ MayBegin(t, "change")
    /\ \E secret \in Secrets, p \in Passwords :
            IF UnlockPanics(secret) THEN Panic(dir.conf)
            ELSE IF ~Unlocks(secret) THEN Refuse(t)
            ELSE \E logN \in LogN(dir.conf.kdf) :
                    WriteConfig(t, "change", EncryptKey(dir.conf.key, p, dir.conf.set, logN))

CreateVolume(t) ==
    /\ MayBegin(t, "create")
    /\ OverExisting \/ dir.conf = None
    /\ \E a \in CreateArgs, p \in Passwords :
        LET set == CreateSettings(a)
        IN  IF ~Validate(set, NewScryptKDF(a.logN)) THEN Refuse(t)
            ELSE WriteConfig(t, "create", EncryptKey(calls + 1, p, set, a.logN))

-----------------------------------------------------------------------------
(* WriteFile, and the end of gcf_create_volume                             *)

\* Slip: the error of the open is not returned.
OpenTmpSilent(t) ==
    /\ IF dir.tmp = None
       THEN /\ Step(t, "tmp", "write")
            /\ dir' = [dir EXCEPT !.tmp = Torn]
            /\ UNCHANGED <<loc, report>>
       ELSE /\ Return(t, "tmp", "ok")
            /\ UNCHANGED dir
    /\ UNCHANGED <<journal, registry, counts, fault>>

\* O_EXCL: a .tmp that is there, from whomever, makes the call fail.
OpenTmp(t) ==
    /\ IF dir.tmp = None
       THEN /\ Step(t, "tmp", "write")
            /\ dir' = [dir EXCEPT !.tmp = Torn]
            /\ UNCHANGED <<loc, report>>
       ELSE /\ Return(t, "tmp", "failed")
            /\ UNCHANGED dir
    /\ UNCHANGED <<journal, registry, counts, fault>>

WriteTmp(t) ==
    /\ Step(t, "write", "sync")
    /\ dir' = [dir EXCEPT !.tmp = loc[t].cf]
    /\ UNCHANGED <<journal, registry, loc, report, counts, fault>>

\* Slip: Sync is forgotten.
SyncTmpNot(t) ==
    /\ Step(t, "sync", "rename")
    /\ UNCHANGED <<files, registry, loc, report, counts, fault>>

\* fd.Sync: when it fails, syscall.Sync says nothing, and the call goes on all the same.
SyncTmp(t) ==
    /\ Step(t, "sync", "rename")
    /\ \E s \in {"done"} \cup (IF DiskMayFail THEN {"failed"} ELSE {}) :
            dir' = [dir EXCEPT !.tmp.sync = s]
    /\ UNCHANGED <<journal, registry, loc, report, counts, fault>>

\* os.Rename; a volume with encrypted names gets its root diriv next.
RenameTmp(t) ==
    LET rest == loc[t].op = "create" /\ "PlaintextNames" \notin loc[t].cf.set.flags
    IN  /\ IF rest
           THEN Step(t, "rename", "iv") /\ UNCHANGED <<loc, report>>
           ELSE Return(t, "rename", "ok")
        /\ dir' = [dir EXCEPT !.conf = dir.tmp, !.tmp = None]
        /\ UNCHANGED <<journal, registry, counts, fault>>

\* WriteDirIVAt: O_EXCL too.
WriteRootIV(t) ==
    /\ Return(t, "iv", IF dir.iv THEN "failed" ELSE "ok")
    /\ dir' = [dir EXCEPT !.iv = TRUE]
    /\ UNCHANGED <<journal, registry, counts, fault>>

\* An error of open, write, close or rename: the .tmp stays as it is.
FailStep(t) ==
    /\ DiskMayFail
    /\ pc[t] \in {"tmp", "write", "rename", "iv"}
    /\ Return(t, pc[t], "failed")
    /\ UNCHANGED <<files, registry, counts, fault>>

-----------------------------------------------------------------------------
(* The machine                                                             *)

\* The kernel writes the directory back on its own account.
Commit ==
    /\ journal # dir
    /\ journal' = dir
    /\ UNCHANGED <<dir, registry, pc, loc, report, counts, fault>>

\* What a power loss may leave of a file.
AfterLoss(f) ==
    IF ~IsConfig(f) THEN {f}
    ELSE {[f EXCEPT !.sync = "done"]}
         \cup {x \in {Torn, Lost} : f.sync = IF x = Torn THEN "none" ELSE "failed"}

LoseUnsynced(d) == [conf : AfterLoss(d.conf), tmp : AfterLoss(d.tmp), iv : {d.iv}]

Restart ==
    /\ crashes < MaxCrashes
    /\ crashes' = crashes + 1
    /\ opened' = [s \in Sessions |-> None]
    /\ core' = [n \in Calls |-> None]
    /\ held' = [n \in Calls |-> None]
    /\ pc' = [t \in Threads |-> "idle"]
    /\ loc' = [t \in Threads |-> Idle]
    /\ report' = [t \in Threads |-> "none"]
    /\ fault' = None
    /\ UNCHANGED calls

Kill == Restart /\ UNCHANGED files

PowerLoss ==
    /\ Restart
    /\ \E d \in {dir, journal} : dir' \in LoseUnsynced(d)
    /\ journal' = dir'

-----------------------------------------------------------------------------

Init ==
    /\ dir \in [conf : {None} \cup {[key |-> f.key, pw |-> p, salt |-> 0, set |-> f.set,
                                     kdf |-> f.kdf, sync |-> "done"] : f \in Foreign, p \in Passwords},
                tmp : {None}, iv : BOOLEAN]
    /\ dir.iv => dir.conf # None
    /\ journal = dir
    /\ opened = [s \in Sessions |-> None]
    /\ core = [n \in Calls |-> None]
    /\ held = [n \in Calls |-> None]
    /\ pc = [t \in Threads |-> "idle"]
    /\ loc = [t \in Threads |-> Idle]
    /\ report = [t \in Threads |-> "none"]
    /\ calls = IF dir.conf = None THEN 0 ELSE MaxCalls - ForeignCalls
    /\ crashes = 0
    /\ fault = None

Next ==
    \/ \E t \in Threads :
            \/ InitVolume(t) \/ ProbeSession(t) \/ StoreSession(t)
            \/ CloseVolume(t) \/ DeleteSession(t)
            \/ ChangePassword(t) \/ CreateVolume(t)
            \/ OpenTmp(t) \/ WriteTmp(t) \/ SyncTmp(t) \/ RenameTmp(t) \/ WriteRootIV(t)
            \/ FailStep(t)
    \/ Commit
    \/ Kill
    \/ PowerLoss

Spec == Init /\ [][Next]_vars

-----------------------------------------------------------------------------
(* Properties                                                              *)

TypeOK ==
    /\ dir \in Directory
    /\ journal \in Directory
    /\ opened \in [Sessions -> Calls \cup {None}]
    /\ core \in [Calls -> Keys \cup {None}]
    /\ held \in [Calls -> Sessions \cup {None}]
    /\ pc \in [Threads -> {"idle", "probe", "store", "delete", "iv"} \cup InWriteFile]
    /\ loc \in [Threads -> [op : {"none", "init", "close", "change", "create"},
                            n : 0..MaxCalls, id : Sessions, cf : Config \cup {None}]]
    /\ report \in [Threads -> {"none", "ok", "failed"}]
    /\ calls \in 0..MaxCalls
    /\ crashes \in 0..MaxCrashes
    /\ fault \in Config \cup {None}

\* "a password change atomically replaces the file" (WriteFile): gocryptfs.conf is complete at
\* every moment and after every kill, and after every power loss unless it is itself a file
\* whose sync failed, which WriteFile does not report.
ConfSurvives ==
    \A f \in {dir.conf, journal.conf} : f \in {None, Lost} \/ (IsConfig(f) /\ f.sync # "none")

\* The session that a gcf_init returned leads to the Volume it made, with its keys, until the
\* client closes it, whatever others open and close (registerNewVolume, gcf_close).
HeldStaysOpen ==
    \A n \in Calls : held[n] # None =>
        /\ opened[held[n]] = n
        /\ core[n] # None

\* No key stays in memory that no session leads to (gcf_close wipes what it removes).
KeysHaveSession ==
    \A n \in Calls : core[n] # None =>
        \/ \E s \in Sessions : opened[s] = n
        \/ \E t \in Threads : Running(t, "init") /\ loc[t].n = n

\* No combination of flags, names and key types that Validate lets through ends the process
\* (cryptocore.New): only a file that wraps no key does, or one whose scrypt parameters are too
\* large or give no key, for which validateParams has no limit.  No call writes such parameters,
\* not even from a file that has them.
Unusable(cf) == cf.key = Empty \/ ~HashWorks(cf.kdf)
OnlyUnusableEnds ==
    /\ ~alive => Unusable(fault)
    /\ \A f \in {dir.conf, dir.tmp} : IsConfig(f) /\ f.salt # 0 => HashWorks(f.kdf)

\* The directory and the sessions as the clients see them.
Shown(f) ==
    IF IsConfig(f) THEN [key |-> f.key, set |-> f.set, pw |-> f.pw, weak |-> f.sync = "failed"]
    ELSE f

Store == INSTANCE VolumeStore WITH
    volume   <- Shown(dir.conf),
    safe     <- Shown(journal.conf),
    sessions <- [n \in Calls |->
        IF held[n] = None \/ opened[held[n]] = None THEN None ELSE core[opened[held[n]]]],
    op       <- [t \in Threads |->
        [kind |-> IF pc[t] = "iv" THEN "created" ELSE loc[t].op,
         pw   |-> IF loc[t].cf = None THEN None ELSE loc[t].cf.pw]]

\* Under any interleaving and crash the calls do what VolumeStore promises.
ImplementsVolumeStore == Store!Spec
=============================================================================
