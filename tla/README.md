# A TLA+ model of libgocryptfs

libgocryptfs (`src/`) is gocryptfs without FUSE: a Go library that opens encrypted volumes and gives
the host program (an Android app through `native/gocryptfs_jni.c`, or the command line of `cli.go`)
files and directories in plaintext. This directory holds TLA+ modules of its state machines, TLC
configurations that check them on small instances, and proofs that TLAPS checks for all values of
the constants.

- [The system](#the-system)
- [The modules](#the-modules)
- [The runs](#the-runs)
- [Bounds](#bounds)
- [Fairness](#fairness)
- [Proofs](#proofs)
- [What the code does differently from what it
  says](#what-the-code-does-differently-from-what-it-says)
- [Not modelled](#not-modelled)
- [Plan](#plan)

## The system

| component | state | operations | talks to | what is hard | correct when |
|---|---|---|---|---|---|
| Volume registry (`volume.go`) | `OpenedVolumes`: session to `Volume`; the keys in each | `gcf_init`, `gcf_create_volume`, `gcf_change_password`, `gcf_close`, `gcf_is_closed` | config file, handles, crypto core | `registerNewVolume` looks for a free session and stores it in two steps; `gcf_close` wipes keys long before it gives the session back | a session belongs to the one `gcf_init` that returned it; no key stays that no session leads to |
| Open-file table (`file.go`, `volume.go`) | `fileHandles`, `File` objects with `fdLock`, `contentLock` and the cached file ID; process descriptors | `gcf_open_*`, `gcf_read_file`, `gcf_write_file`, `gcf_truncate`, `gcf_close_file`, `gcf_close` | file content, operating system | any thread calls at any time; three locks in two orders; handles and descriptors are reused | a call acts on the file it was called for, every call returns, no acknowledged write is lost |
| File content (`file.go`, `internal/contentenc`) | header with file ID, encrypted blocks, file ID cached per handle | `doRead`, `doWrite`, `zeroPad`, `truncateGrowFile`, `truncate` | offset arithmetic, crypto core, disk | read-modify-write of partial blocks, a full disk or a kill in the middle, several handles with cached IDs | every block on disk opens; the file is the plain file the calls describe |
| Offset arithmetic (`offsets.go`, `intrablock.go`, `bpool.go`) | none | block numbers, sizes, `ExplodePlainRange`, pool sizes | used by all content calls | off-by-one at block boundaries, 64-bit wrap-around | a request is cut into exactly its blocks; sizes translate back |
| Directory operations (`directory.go`, `common_ops.go`, `helpers.go`, `file.go`) | the backing tree: `gocryptfs.diriv` per directory, `.name` file per long name; `dirIVLock` | `gcf_mkdir`, `gcf_rmdir`, `gcf_rename`, `gcf_open_write_mode`, `gcf_remove_file`, `gcf_get_attrs`, `gcf_list_dir` | directory cache, name encryption | each operation is several system calls; undo on failure; kills in between; path resolution by other threads | the volume is a plain tree; content never loses its name, a directory never its IV |
| Directory cache (`dircache.go`) | path to descriptor and IV, round robin, cleared every 60 s | `Lookup`, `Store`, `Delete`, `Clear` | every path resolution | entries that outlive the directory or its name; a `Delete` that takes no lock | an entry is the directory at its path |
| Name encryption (`internal/nametransform`) | none | padding, encryption, hashing of names; `.name` and diriv files | directory operations | long names, torn small files | names round-trip, the two files of a long name exist together |
| Config file (`internal/configfile`) | `gocryptfs.conf`: wrapped master key, feature flags | `Create`, `Load`, `GetMasterkey`, `EncryptKey`, `WriteFile` | volume registry | replacing the file through a temporary one, kills and power losses in between; a sync that fails silently; a leftover temporary file; combinations of feature flags and scrypt parameters | the file is whole at every moment and keeps its master key; a call that fails changed nothing; of the files that `Validate` accepts only those end the process that hold no key or scrypt parameters that cannot be computed |
| Synchronisation (`sync.go`) | a host tree and a volume | `encryptSync`, `decryptSync`, pruning, mtime window | all calls above | interruption, partial files with a fresh mtime, unreadable directories taken as empty | the target becomes the source; nothing is pruned that the source has |
| Command line (`cli.go`, `find.go`, `main.go`) | none | argument parsing, `mkdirAll`, listing | library calls | | |
| Crypto core (`internal/cryptocore`, `stupidgcm`, `siv_aead`) | keys; the random prefetch buffer | seal, open, `Wipe`, `randPrefetcher.read` | content, names | one buffer of random bytes for all goroutines, refilled by a worker over a channel | no random byte is handed out twice |
| Parallel encryption (`content.go`, `bpool.go`) | pooled buffers | `EncryptBlocks`, `encryptBlocksParallel` | file content | two goroutines fill one slice; buffers are reused as soon as they are put back | the blocks arrive complete, in order, under their own numbers; a buffer has one user |
| System calls (`internal/syscallcompat`) | none | `Getdents`, `EnospcPrealloc`, EINTR retries | operating system | | |
| JNI bridge, allocator, build scripts | none | conversions | host program | | |

The parts meet in this order: a call looks the session up (`OpenedVolumes.Load`), resolves its path
through the directory cache, opens or removes backing files with their `.name` companions, registers
a handle; content calls look the handle up, take its locks, translate offsets and read, merge,
encrypt and write blocks. Nothing but the locks and the disk carries state from one call to the
next, so the model is split along them: `Volumes` has the sessions and the config file,
`HandleTable` the locks and descriptors, `FileContent` the bytes of one file, `BlockEncryption` the
goroutines, nonces and buffers that encrypt them, `DirTree` the names, `ExplodeRange` the
arithmetic; `SyncFiles` is the client that the command line adds on top. What one module leaves out
of a call is another's: `FileContent` changes a block in one step, which `BlockEncryption` takes
apart; `HandleTable` has `gcf_close`'s handles, `Volumes` its keys and session.

## The modules

### ContentOffsets, ExplodeRange, MCExplodeRange

`ContentOffsets` is the arithmetic of `offsets.go`, `intrablock.go` and the pool sizes of
`contentenc.New` as operators on unsigned words: every product and sum is reduced modulo `Word`, as
Go's `uint64` is. `ExplodeRange` is the loop of `ExplodePlainRange`; its variables are the loop's
(`offset`, `length`, `blocks`) with the request (`off0`, `len0`) beside them, and one step is one
iteration. The properties compare the loop with the closed form of the request's blocks, and the
sizes with their inverse.

### HandleTable, FileStore, MCHandleTable, HandleTableProofs, DisciplineProofs

`HandleTable` has the table of open files under concurrent calls. An action is what a thread does
between two points where others can interfere; `pc` names the point and `loc` holds the call's local
variables, among them the `File` found first (`file`, whose locks are taken) and the one found by
the second lookup of `doWrite` (`via`, whose descriptor is used). `sync.RWMutex` is a writer and a
set of readers; `Lock` announces itself, which keeps new readers out, and then waits for the readers
inside. A lookup under `handlesLock.RLock` cannot block, so it is one action that needs only that no
writer has the lock. Descriptors are numbers that the process reuses, lowest first; `File` objects
are reclaimed when nothing refers to them. A backing file is one block of two parts, enough for two
writes to meet in a read-modify-write. What ends the process (a nil `File`, a nil cipher after
`Wipe`, keys wiped twice, a map iterated while it changes) clears `alive`. `gcf_close` may be called
again while another is under way: with some backends the keys then cannot be wiped twice
(`WipeTwice`). A read or write whose `File` was closed under it ends with EBADF; a write to an empty
file takes this for a full disk and goes on to close its handle (`UseClosedFile`).

`FileStore` is the promise: handles that belong to paths, and contents that are written, resized,
opened and closed in one step. It is about atomicity: a change is the write of one part or the
resize to one length, the rest kept, whichever call asked for it, and results of reads are not in
it. What a call's arguments have to do with the outcome is `PlainFile`'s.

### FileContent, PlainFile, MCFileContent, FileContentProofs

`FileContent` has the bytes of one file. A ciphertext block is the plaintext it opens to and the
file ID it was encrypted under; a hole of full size opens to zeros (`DecryptBlock` treats an
all-zero block so), a block stretched by a hole does not open. A call is the list of changes it
still has to make (`header`, `put`, `cut`, `stretch` ...), so a kill or a full disk falls between
any two of them. Each handle has its own cached file ID. `request` has what the client asked for:
data and an offset, or a size. `PlainFile` is the promise between calls: the write puts these data
at this offset, the resize gives this size, and nothing else changes; or the call reports failure
and leaves a whole file, old up to where it worked. `SizeAsPromised` is the same promise for the
size alone, of a client that does what loses the content (`INSTANCE PlainFile` with a single value).

### DirTree, PlainTree, MCDirTree, DirTreeProofs

`DirTree` has directories as inodes with their entries, `.name` files, `gocryptfs.diriv` and the
`gocryptfs.diriv.rmdir.*` files that `gcf_rmdir` moves there. Every call first resolves its path
(`Lookup`, `OpenDir`, `ReadDirIV`, `StoreCache`) through the cache, then goes on with one system
call per action; `gcf_rename` that finds a directory in its way runs `gcf_rmdir` with a resolution
of its own (`nested`). A directory that is removed while somebody holds a descriptor of it stays an
inode without links, in which nothing can be created. A `.name` file is created in one step and
filled in the next (`WriteLongName` and `FillName`, `WriteTargetName` and `FillTarget`); `torn` has
those that a kill left empty. `gcf_mkdir` and `gcf_open_write_mode` fail on such a file as on any
other, `gcf_rename` goes on. A `gocryptfs.diriv` is written in one step: empty or absent, it cannot
be read. `gcf_mkdir` opens its directory once more at the end and may fail then, with the directory
made (`Reopen`).

`dirCache.Delete` takes no lock. It is two steps (`Uncache`, `ClearCached`), between which other
calls look up and store, and clears whatever the entry it found holds by then. If a `Lookup`, a
`Store` or the expiry accesses the entry itself at that moment, Go's memory model promises nothing;
then the model ends (`raced`), and its properties hold for executions without this data race.

`PlainTree` is the promise: paths that hold a file, a directory or nothing, changed in one step by a
call that then reports success, or not at all by one that reports failure. Three exceptions are
visible in the code: `gcf_mkdir` may take its directory back before it fails, or fail and leave it,
and `gcf_rename` removes an empty directory in its way first. The refinement mapping is what the
calls find that are given a path: a path leads to a directory (`DirAt`) if there is a walk from the
root through one directory after the other (`Walks`). They hash a long name and do not read its
`.name` file; that `gcf_list_dir`, which does, finds one is `ContentHasName`.

### SyncFiles, MCSyncFiles, SyncFilesProofs

`SyncFiles` has the two sides of `gcfs sync` as trees of files with contents and times, over a
volume that keeps the promises of `PlainTree` and `PlainFile`. One set of actions serves both
directions; where `encryptSync` and `decryptSync` differ (what a failed listing, a vanished file or
a failed read does) the guard asks for `way`. `todo` holds the entries that directory listings have
returned and that wait, so a directory is read at one moment and its files are looked at, opened and
read at later ones; the user changes the source in between. Calls whose result the code ignores
always work here: `gcf_truncate` of the copy (`sync.go:188`; if it failed, a longer old copy would
keep its tail until the next sync), `gcf_set_mtime` and `os.Chtimes` (`sync.go:161`, `310`; if they
failed, the next sync would copy again). A listing of the volume has all entries or fails; `listDir`
passes over one whose name it cannot read or decrypt (`cli.go:104-117`), and such entries do not
occur here. A kill may come between any two steps, and stands also for the errors that end the
process. `counts`, `touched` and the clock's end only bound the model and say which paths the user
changed since a sync began.

### Volumes, VolumeStore, MCVolumes, VolumesProofs

`Volumes` has one directory (`gocryptfs.conf`, `gocryptfs.conf.tmp`, the root `gocryptfs.diriv`),
what a power loss would leave of it (`journal`), and `OpenedVolumes`. A config file is the master
key it wraps (or none: an empty `EncryptedKey`), the password and the scrypt salt that open it, its
settings (feature flags, `LongNameMax`), its scrypt parameters (N, R, P, `KeyLen`, length of the
salt) and how its sync ended. `Create`'s flags, `Validate`, the choice of the AEAD, what
`cryptocore.New` panics on and which parameters `scrypt.Key` refuses or has no memory for are
operators on them. The run feeds them config files with every combination of the four encryption
flags and several sets of name flags, one of them unknown; and files without key, with an N that is
no power of two, and with parameters at, below and beyond the limits. `validateParams` has lower
limits only, so some of these end the process; `fault` is the file on which it did. `fd.Sync` may
fail, after which `WriteFile` goes on (`SyncTmp`): a power loss may take such a file (`Lost`). Each
call of `WriteFile` that another thread, a kill or an error can come between is an action of its own
(`OpenTmp`, `WriteTmp`, `SyncTmp`, `RenameTmp`); so are the search for a session and its `Store`,
and `Wipe` and `Delete`. The n-th call draws the n-th master key and salt and makes the n-th
`Volume` object, so that keys, hashes and objects of different calls differ. A client gives a
session up when it calls `gcf_close` with it; another `gcf_close` of that session, or any call with
it, is not modelled here (a second wipe is in `HandleTable`).

`VolumeStore` is the promise: at most one volume, whose key and settings never change, a password
that a call replaces as a whole or not at all, sessions opened and closed in one step; a power loss
takes a volume only if the disk had refused to sync it. The refinement mapping shows the volume in
`gocryptfs.conf`, the one that a power loss would leave, and for each `gcf_init` the key behind the
session it returned.

### RandPrefetch, BlockEncryption, MCBlockEncryption, BlockEncryptionProofs

`RandPrefetch` is `randPrefetcherT`: the random source is a stream, a byte its position. `read`
copies from the buffer and advances it in two steps, so that the mutex matters; what is left when a
chunk replaces it is lost, as in `bytes.Buffer.Reset`. The channel is unbuffered: the worker has at
most one chunk ready, and `Refill` receives it.

`BlockEncryption` extends it with `EncryptBlocks` and `DecryptBlocks` and the pools they use. `part`
has the range of each of the two goroutines, `sealed` the slice `ciphertextBlocks` that both fill,
`content` what is in each buffer. A sealed block is whose it is, its number and its nonce; it opens
as this block of this file only. The caller appends the blocks to the request buffer one by one and
puts each buffer back; `WriteAt` stands for `doWrite`'s use of the result, `ReadAt` and what follows
for `doRead`. The pool's choice of a free buffer is fixed by `CHOOSE`: nobody reads what a free
buffer holds before writing it, so one free buffer is as good as another. `StepUsesPrefetch` shows
that nothing in it disturbs the prefetcher.

## The runs

| run | what it shows |
|---|---|
| `explode_range` | For every request of up to three blocks that ends within the word, up to offsets whose product wraps around: the loop yields exactly the blocks of the request, an unaligned request fits the pooled buffers, the check against `MaxInt64` lets pass what fits and wrongly passes an offset only if it is itself beyond every `int64`, and a torn last block never makes the reported size jump. |
| `handles_any_client` | Two threads make any calls on two files, the conflicting ones too, with a disk that may fill. Whatever the client does, no descriptor leaks or has two owners, and no operation loses the descriptor of a `File` it has locked. |
| `handles_disciplined` | A client that serialises the calls that conflict (see `Conflicts`) never crashes the process, its handles stay the files it opened, the volume is an atomic store (`FileStore`), and every call returns. Writes to one file through one handle run concurrently here. |
| `write_close_deadlock` (violation) | A write and a close of one handle wait for each other for ever. |
| `content_careful` | Two handles of one file, calls one after another, kills and a full disk between any two changes: every block left behind opens under the ID in the header, cached IDs agree with it, and the file refines `PlainFile`: data are where the call put them, the size is the one asked for. |
| `content_any_client` | One handle and a client that does everything, empty reads and writes, writes beyond a partial block and truncation of a file in use included: the size reported is the one each call asked for, and the process panics in a read or write of no bytes only, never in a truncation. |
| `content_emptied` (violation) | After a truncation to zero the next write leaves blocks without a header. |
| `dirtree_sequential` | One thread, any sequence of calls: the cache never names another directory than the one at its path, and the volume refines `PlainTree` with calls that fail only when they cannot be done. |
| `dirtree_concurrent` | Two threads on different paths (also a directory and what is in it), a disk that may fill and a kill at any step: content with a long name has its `.name` file at every moment, which no call has still to fill, directories keep their IV, no call leaves anything behind, and the volume refines `PlainTree`. |
| `sync_mirror` | Two syncs in any direction with `-delete`, `-checksum` or as a dry run, two changes by the user at any time, one kill: files that size and time take for the same are the same, so no torn copy stays; a successful sync leaves a mirror, which the next one takes as it is; pruning removes nothing the source has. |
| `volumes` | Two threads create, open and close a volume and change its password; writes and renames may fail, syncs too, silently, the process may be killed and the machine lose power at any step. `gocryptfs.conf` is whole at every moment and after every kill, and after a power loss unless its own sync had failed; the master key never changes, a session belongs to one `gcf_init`, keys that no session leads to are wiped, a gocryptfs.conf ends the process only if it has no key or unusable scrypt parameters, no call writes such, and the calls refine `VolumeStore`. |
| `encrypt_blocks` | Two threads write and read, a large write with two goroutines: no pooled buffer has two users, a request's blocks reach the file complete, in order and under their numbers, no two nonces share a random byte, and every request returns. |

A refinement that lets calls fail would hold of a library whose calls always fail; therefore
`dirtree_sequential` is checked with `Reliable`, which allows failure only where the tree gives a
reason, and `handles_disciplined` with `CallsReturn` and `NoCrash`.

### What the careful client avoids

The passing runs of clients with a discipline state it in the guards of the calls; each clause
stands for something the code does not protect against, and dropping it makes TLC find the failure:

- `HandleTable.Conflicts`: no close or truncate of a file while a call on it runs, one handle per
  path, no open or close elsewhere while a truncate runs (it iterates over the map unlocked and
  holds a bare descriptor number), `gcf_close` only when all is idle and closed.
- `FileContent`: `MinBytes` (no empty reads or writes), `PastEnd` (no write beyond a partial last
  block), `ZeroCached` (no truncation to zero of a file whose ID a handle has cached), `FullDuring`
  (the disk does not fill while a file shrinks).
- `SyncFiles.Changes` and `MayChange`: a file is changed only when `Window` seconds have passed
  since either side of it was written (the comparison cannot see another change of the same size),
  not while it is copied, and no directory takes the place of a file or the reverse; `ReadErrors`
  and `UnreadableDirs` are off.
- `Volumes.Serial` = `{"init", "create"}`: the client calls `gcf_init` one at a time, and
  `gcf_create_volume` too; password changes and closes overlap with everything. `OverExisting` is
  FALSE: it creates a volume only where there is none.
- `DirTree.Begin` and `Rename`: no two calls on one path at a time, directories are renamed while
  nothing else runs and the cache is left to expire after, nothing is renamed to itself or over a
  directory with a long name.

## Bounds

- `ExplodeRange`: blocks of 4 bytes, overhead 2, header 3, requests of 12 bytes (three blocks),
  words of 8 bits. Every alignment of start and end to a block occurs, and so do torn blocks of
  every length. Offsets go to 243, the last from which a request cannot run over the word: positions
  of blocks pass `MaxInt64` of the small word (127) at 84 and wrap around at 172.
- `HandleTable`: 2 threads, 2 paths, 2 handles and descriptors (`NumFiles`), 4 `File` objects, 4 or
  5 calls (`MaxCalls`). Two calls make an interleaving, two more open what they use, the fifth
  reuses what was closed. A deadlock or a lost update needs two threads; the proofs cover the
  invariants for any number.
- `FileContent`: blocks of 2 bytes, files of up to 5 (three blocks, the last one partial), bytes 0
  and 1, 3 file IDs. A partial, a full and a hole block occur together; a third ID exists besides
  the one in the header and the one cached.
- `DirTree`: a short and a long name, the paths `short`, `long`, `short/long`, 4 directories
  (`NumDirs`: the root, one per directory path, one removed and still held open). `CacheSize` is 2
  sequentially, so that round robin evicts, and 1 concurrently. The concurrent run starts with an
  empty directory `short` (`Populated`) and makes 3 calls, with 1 kill; the sequential one makes
  calls without bound (`MaxCalls = 0`). The proofs have no bound on the depth of paths, the
  directories, the threads or the cache.
- `SyncFiles`: a file in the root and one in a directory, the latter with a long name; contents of
  up to two chunks of two values, a window of 1 second, times 0 to 3. Two chunks are a file torn in
  the middle; two syncs and a kill are one that is interrupted and one that repairs; two changes
  make an old copy and a new original of the same size.
- `Volumes`: 2 threads, 2 passwords, 3 sessions (`NumSessions`, one more than can be held while a
  third is being given back), 3 calls (`MaxCalls`: create, change, open; a call that is refused is
  not counted) on a directory that was empty, 2 (`ForeignCalls`) on one with a foreign
  gocryptfs.conf, 1 kill or power loss (`MaxCrashes`). The client asks for the default scrypt cost,
  for 9 (refused), 18 and 63 (an N that is negative in 64 bits); memory is there for costs below 18
  with R = 8 (`MemoryLog`).
- `BlockEncryption`: 2 threads, writes of 1 to 3 blocks (`MaxBlocks`), two goroutines from 3 blocks
  on (`ParallelFrom`, 32 in the code) with groups of 1 and 2 blocks, chunks of 5 bytes (`PrefetchN`)
  for nonces of 2, so that a byte is left over in every chunk, 4 units of work (`MaxWork`: blocks
  written and requests to read), as many buffers as two threads can use at a time. The proofs cover
  all bounds but two goroutines per request, which is `encryptMaxSplit`.

## Fairness

`HandleTable` and `BlockEncryption` have liveness properties. In `HandleTable` each thread's own
steps (`Continue`) are weakly fair: the Go runtime runs every goroutine or thread that can run. No
call is fair: nothing makes the client call. `RWMutex.Lock` queues behind readers and keeps new ones
out, which the announce step models; calls are finite in number, so weak fairness is enough for the
lock to be got, and nothing stronger is assumed. In `BlockEncryption` all internal steps together
are weakly fair (`Run`): the runtime does not idle while a goroutine can run, and which one it runs
is left open; requests are finite in number and length, so some step is always taken until all have
returned. It is less than fairness for each goroutine, which the Go scheduler also gives.

## Proofs

`ExplodeRangeProofs` proves, for every block size, overhead, word size and request whose end fits
into the word (`RequestsFit`), that the loop keeps its types (`LoopTypes`), builds exactly the
blocks of the request (`ExplodedRange`) with partial blocks at the ends only (`PartialEnds`), and
that a request of at most `MaxKernelWrite` bytes fits the pools (`PoolsLargeEnough`). The invariant
`LoopInv` adds to the property that the loop stands, after each iteration but the last, at the
beginning of a block: without it the next block's `Skip` is unknown. The lemmas on division
(`DivMod`, `DivUnique`, `NextDivision`, `BlockEnd`) carry the arithmetic. `SizeRoundTripForAll`
proves that the plaintext size computed from a ciphertext size is the one it was computed from.
`OffsetCheck` proves `WronglyAcceptedOnlyNegative` for all offsets of the word, those whose product
wraps included. It needs `OverheadIsSmall`: nonce and tag at most half a block and the header at
most a quarter of the word. A block that begins at a plaintext position of an int64 then begins in
the ciphertext before the word ends (`NoWrapAround`), so that a product that wraps belongs to an
offset that, as a jlong, is negative. `SizesGrow` puts the ciphertext size as whole blocks and a
rest, for which the plaintext size has a closed form (`SizeOfBlocks`); a rest not longer than the
overhead is padded to one byte.

`HandleTableProofs` proves type correctness, `LockedFileStaysOpen` and `FdsHaveOneOwner` of `Spec`
for any sets of threads, paths and values, any numbers of handles, objects and calls, disciplined or
not. None is inductive: who holds a lock is known from the lock's fields only if these agree with
where each thread is. `IInv` adds

- `CallsShaped`: at each location a thread has the locals it needs, a file looked up where locks are
  taken, a bare descriptor only where it has not been handed over;
- `LocksMatch`: the writer and readers of every `fdLock` and `contentLock`, and the writer of
  `handlesLock`, are exactly the threads at the locations between lock and unlock;
- `ExclusiveAlone`: past the wait for readers a writer is alone;
- `FdInv` and `TableInv`: descriptors of `File` objects are open and differ, objects with a
  descriptor are in the table once, and an open call's descriptor belongs to nobody else.

The step lemmas split along the parts of `IInv`: `TypeOKStep`, `CallStep`, `TableStep`, `LocksStep`,
put together in `IInvStep`. The constants' assumptions (`HandleTableAssumption`,
`OffsetsAssumption`, `RangesAssumption`) are evaluated by TLC in the runs that extend the modules.

`DisciplineProofs` proves what the run `handles_disciplined` checks, but for its liveness, of any
numbers of threads, paths, handles and calls: handles stay valid (`HandlesAreValid`), no call panics
(`NeverCrashes`), and `Spec` implements `FileStore` (`ImplementsFileStore`). The assumption is
`Careful`: the client keeps to `Conflicts` and the disk does not fill. `DInv`, inductive together
with `IInv`, says what the rules on *beginning* a call mean while calls are under way:

- `Serial`: which operations are in progress together, and on which paths;
- `IssuedInv`: one handle for a path, one `File` for a handle, and a handle that is in the table but
  no longer the client's is being closed, by one thread. Without the last part a close could find
  its handle already gone;
- `HandleUse` and `CloseUse`: a call on an issued handle has the handle's `File`, from both lookups,
  and the descriptor number of a truncate is still that `File`'s;
- `DataUse`: what a call has read of a file is still the file's content when it writes it back;
- `KeysInv`: the keys are gone only when `gcf_close` has the library to itself.

`DataUse` is where the locks pay off. Nobody changes a file while another thread relies on what it
has read (`Alone`): a truncate is alone with its path by `Serial`, and of two writes at `w_out` each
has the `contentLock` of the one `File` of the handle, against `ContentLockAlone` of
`HandleTableProofs`. The refinement mapping `AbstractContent` shows a truncate that has still to
write the last block as done; the invariant makes it well defined (`ContentState`). Six actions are
steps of the store (`RegisterStore`, `CloseStore`, `WriteOutStore`, `GrowStore`, `CompareStore`,
`CutStore`); the others leave it as it is (`OtherSteps`) or never happen (`Never`, `FileIsOpen`).

`FileContentProofs` proves the invariants of the run `content_careful` for any block and file sizes,
handles, IDs and values (`Types`, `BlocksAlwaysOpen`, `CachedIDs`), and that no call panics
(`NeverPanics`), under `Careful`: no empty read or write, no gap behind a partial last block,
truncation to zero only of a file no handle has read or written, and no full disk while a file
shrinks. Each of the four is a place where the code does fail (see below). `IInv` adds

- `Whole` and `EndsIn`: only the last block may be incomplete, and the file ends within the bound;
- `CallShape`: what a call in progress has left to do is one of a few lists for its operation, and
  the blocks it meets are what the rest of the list needs (a grow that still pads knows that the
  last block is partial, one that stretches has only full blocks before it, a put after a cut knows
  what was cut);
- `IdInv`: every block has the ID in the header or is a hole, and every cached ID is the one in the
  header, at each step of a call; without the steps the invariants between calls are not inductive.

Half of the proof is about data: what `NewBlock`, `Written`, `Stretched` and a cut do to `Whole`,
`EndsIn` and the IDs (`NewBlockIs`, `WrittenIs`, `StretchKeeps`), and that `TruncateGrowFile` and
`TruncateShrink` produce the lists of `CallShape` (`GrowShape`, `ShrinkShape`).

`IsAPlainFile` proves, for the same client, that `Spec` implements `PlainFile`. It has two parts.

- Bytes: what a file of blocks holds is characterised byte by byte, through the block number and the
  place in the block (`BytesOf`, `NewBlockBytes`, `WrittenByte`), and from this as a whole: the
  content after a `put` is `PlainFile`'s `Put` of the content before it, after a `stretch` or `cut`
  its `Resized` (`WrittenContent`, `StretchContent`, `CutContent`). It is here that a wrong `Skip`,
  a merge that drops the tail of the old block or a padding one byte short would show.
- `Follows`, inductive together with `IInv`: what the steps made so far have left. A write is one
  step, so before it the content is the old one. A file that grows holds the old content and a part
  of the zeros to come, and what is left to do, with the arguments it was computed with at the
  beginning of the call, still leads to the size asked for (`Growing`, `GrowTo`). A file that
  shrinks is the old one, or the old one cut at the block its end will be in, and the rest to be
  written back is the old bytes of that block (`Shrinking`).

`Follows` ties the arguments of the changes still to come to the `request`, so the step that ends a
call is the `Write` or `Resize` that was asked for, a failure or kill is a `Fail` at a length
`Follows` gives, and all other steps leave what the client sees unchanged.

`DirTreeProofs` proves the invariants of `dirtree_sequential` and `dirtree_concurrent` for any
threads, names, paths of any depth, numbers of directories, sizes of the cache, calls and kills.
`Types` holds for any client; the other theorems assume a `Disciplined` one (no two calls have a
path in common, and directories are renamed alone), `CacheNamesTheDirectory` also that it has one
thread: with two, a `gcf_rmdir` can return between another call's `OpenDir` and its `StoreCache`,
and the stale entry is stored after the `Delete`. (That `Delete` itself is unlocked matters with two
threads only; its two steps are in all the proofs.) `TInv` has the types, which locals a call has at
each location (`PlaceShape`) and who holds `dirIVLock`. `IInv` adds a map `where` from directories
to paths: there is one such that

- every entry of a directory is at the directory's path and its own name (`TreeAt`), and the cache
  and the descriptors of the calls in progress agree with it (`CacheAt`, `HeldAt`). Without it
  nothing says that two calls on different paths are on different entries: both only have
  descriptors. It also excludes cycles and second links. A directory that was removed stays empty
  (`UnlinkedEmpty`);
- `MakeInv` and, for `gcf_rename`, `MoveInv`: the entry and the `.name` file a call works on are
  still as it found or left them, because whoever would change them has the same path
  (`PathsDiffer`); in particular there is no content yet beside a `.name` file that a call has still
  to fill;
- `RenameAt` and `RenamedAlone`: a directory moves while no other call holds a descriptor, and until
  the cache has expired nothing begins;
- `FreshInv`: a directory that `gcf_mkdir` has made but not filled is in no cache and in no call
  past `ReadDirIV`, so nothing is created in a directory that may be taken back;
- `IVInv` and `OwedInv`: until the process is killed, a directory without IV, a moved IV and a
  `.name` file without content each have a call that has still to deal with it. `DirsHaveIV` and
  `NothingLeftBehind` say so only of the moments when no such call is under way.

A step keeps `where`, changes it for a directory just made, or, when a directory is renamed, for all
that is below it (`MovedHas` and the lemmas around it); that `rename(2)` refuses to move a directory
below itself makes the new map one of the tree. `ContentHasName` itself is part of the invariant.
`CacheInv`, for the last theorem, says that a path is cached once (`OncePerPath`), so that `Delete`,
which drops the first entry it finds, drops the only one; that cached directories have their IV,
which those that were removed have not (`CachedHasIV`); and that while a path is resolved nothing
below the directory reached is cached (`CachedAbove`), so that `StoreCache` does not add a second
entry.

`SyncFilesProofs` proves all that the run `sync_mirror` checks, for any trees, contents, windows,
times and numbers of syncs, changes and kills. Its theorems differ in what they assume:

| theorem | disciplined user | directories can be read | files can be read |
|---|---|---|---|
| `Types` | | | |
| `NoTornFileIsKept` | yes | | |
| `PruneKeepsWhatIsThere` | | yes | |
| `SyncMirrors`, `ResyncIsIdle` | yes | yes | yes |

`IInv` holds without any of the three. It says that both sides are trees; that the copy at work is
the beginning of its original (`CopyInv`), which holds because the user leaves alone the file that
is being copied; that what the walk has seen or has still to visit is in the source as it was
listed, but for what the user changed, and is in a directory that was seen (`WalkInv`); and that the
pruning has still to look at all of the target that the walk has not seen (`PruneInv`).
`NoTornFileIsKept` follows from `CopyInv`: a copy has the size of its original only when it is
whole, whatever time it has. `SeenInv` says that what is in a directory that was seen was seen or
waits in `todo`. So when `todo` is empty everything was seen, by descent to the shortest path that
was not (`WalkedAll`, with `WFMin` on lengths). `MirrorInv` says that all that was seen is mirrored
but for the file at work, whose original still has the time it had when it was looked at
(`SyncInv`), and that no path has a directory on one side and a file on the other (`KindsAgree`),
which `mkdirAll` would not notice. `mkdirAll` can make a directory only because the directory above
it was seen and is mirrored (`DirMirrored`). `TreeAssumption` says that the files at the start are
in directories that are there.

`BlockEncryptionProofs` begins with `RandPrefetch` alone: for any readers, chunk size and lengths of
nonces, no byte is returned twice (`BytesOnce`). `PrefetchInv` adds that all bytes returned lie
below the buffer, the buffer below the next chunk (`StreamInv`), and that whoever is between `Lock`
and `Unlock` has the mutex (`MutexInv`), which keeps what a reader copied equal to where the buffer
stands (`ReaderInv`). `UsesPrefetch` shows that `BlockEncryption` is a user of it, so
`NonceBytesOnce` follows by modus ponens. Of `BlockEncryption` all invariants of the run are proved
for any callers, buffers, request lengths and numbers of processors (`Types`, `OneOwner`, `InOrder`,
`InFull`, `ReadBack`, `Nonces`). `IInv` adds

- `RequestsInv`: at each location of a caller, how many blocks of the request are sealed, in the
  request buffer, or read; while the goroutines run, that their ranges adjoin and which places they
  have filled (`SplitInv`);
- `GoroutineInv`: a goroutine with a nonce has a block to seal with it;
- `PoolInv`: a pool has buffers of its kind, so that a block buffer is never a request buffer;
- `NonceInv`: the bytes of sealed blocks and of nonces about to be used have been returned.

`CallerStepOK` says what a step of one caller has to show, so that the lemma of each action speaks
of that caller only; `RequestFrame` and `NonceFrame` carry the others.

`VolumesProofs` proves all that the run `volumes` checks, for any threads, passwords, settings,
calls, sessions, failures and crashes. For every client the types and `ConfSurvives` hold (`Types`,
`ConfIsAtomic`), by `FileInv`: `TmpInv` says that whoever is between the open and the rename of the
`.tmp` is alone with it, and that it renames what it wrote and tried to sync. `ConfSurvives` is the
whole file without exception for kills; a power loss takes it only if its sync had failed, which the
file remembers (`sync`). `EndsOnUnusable`, also for every client, by `FaultInv`: the flags and nonce
lengths that `Validate` lets through all make an AEAD, so only a file without key or with parameters
that scrypt does not compute ends the process, and what the calls themselves write derives a key. No
assumption is made on the costs clients ask for. For a client that is `Careful` (one `gcf_init` at a
time, one `gcf_create_volume` at a time and only where there is no volume) `SessionsStayOpen`,
`NoKeyLeftBehind` and `Implements`, the refinement of `VolumeStore`, hold by

- `KeyInv`: what a password change writes has the key and settings of the volume in the directory,
  and what is on disk has them too; a new volume is written where there is none;
- `SessionInv`: objects of calls to come are unused, a session belongs to one object, a `gcf_init`
  that has not stored its session has an object nobody else leads to and the key of the volume
  (`InitShaped`), a `gcf_close` holds a session whose keys are wiped and that no client has
  (`CloseShaped`).

The refinement has one lemma per action (`InitVolumeStore` to `PowerLossStore`), on the variables of
`VolumeStore` as the mapping shows them (`SVolume`, `SSafe`, `SSessions`, `SOp`).

The type invariants of `HandleTable`, `ExplodeRange`, `Volumes` and `BlockEncryption` are proved and
in no run; those of the other modules are run, and proved.

Model-checked only: liveness (`CallsReturn`, `RequestsReturn`), because the prover has no fairness
reasoning for ENABLED here; the refinement of `PlainTree`.

## What the code does differently from what it says

The runs marked as violations, and what else was met while modelling:

- `gcf_close_file` waits for `fdLock` holding `handlesLock`, a write needs `handlesLock` holding
  `fdLock` (`file.go:182`, `504-506`). A write that finds the disk full on an empty file closes its
  own handle from inside (`file.go:238`) and waits for itself, with one thread.
- `doWrite` looks the handle up again (`file.go:183`) and may find nil or another file.
- `gcf_truncate` takes neither lock (`file.go:428-441`), though it writes; "every writer must take
  this lock" (`volume.go:31-32`). `contentLock` belongs to the handle: two handles of one path
  exclude nothing.
- `truncate` to zero keeps `File.ID` (`file.go:326`), and a write beyond a partial last block leaves
  it unreadable. An empty write panics (`file.go:224`) where `file.go:180` allows it.
- `blockNo * cipherBS` wraps around before it is compared with `MaxInt64` (`file.go:127`, `230`):
  the library takes a `uint64`, and offsets that no `int64` holds, such as a negative `jlong`
  (`jni.c:315`, `329`, `343`), can pass as small ones. `WronglyAcceptedOnlyNegative` says that no
  other can.
- `gcf_close` closes handles by index, not by handle (`volume.go:146`), and wipes keys under running
  calls (`volume.go:139`). Nothing keeps two of them from wiping the keys twice, which the OpenSSL
  and AES-SIV backends answer with a panic.
- `gcf_rename` to the same long name, or over an empty directory with a long name, deletes the
  `.name` file of what it put there; a directory's cached descriptor survives its rename.
- `gcf_rmdir` tests for `io.EOF` (`directory.go:222`), which `Getdents` never returns: a directory
  that lost its diriv to a kill cannot be removed.
- `gcf_open_write_mode` fails on an existing file with a long name (`WriteLongNameAt` wants a new
  `.name` file), and so does a sync that updates one.
- `encryptSync` takes a source directory that it cannot read for an empty one, and a source that
  does not exist too (`sync.go:102`): with `-delete` the volume is emptied.
- A read error in the volume ends a file like its end (`sync.go:340`, `417`, `cli.go` `cat`), and
  the sync reports success; a file where a directory should be made is left there (`cli.go:132`).
- The results of `gcf_truncate`, `gcf_set_mtime` and `os.Chtimes` are ignored (`sync.go:188`, `161`,
  `310`).
- `gcf_create_volume` over an existing volume replaces its `gocryptfs.conf` (`volume.go:193`), and
  with it the only copy of the master key, before it fails on the old `gocryptfs.diriv`;
  `cli.go:250` takes the failure for "dir must be empty". TLC finds it with `OverExisting = TRUE`.
- Two `gcf_init` at the same time can take one session (`volume.go:103-111`): the first volume is
  lost with its keys in memory. TLC finds it with `Serial = {"create"}`.
- A kill after `WriteFile` has opened `gocryptfs.conf.tmp` leaves it, and every later password
  change fails on it (`config_file.go:296`, `O_EXCL`) until somebody removes it.
- A kill between `gocryptfs.conf` and the root `gocryptfs.diriv` leaves a volume that opens and
  cannot be listed; creating it again fails.
- `validateParams` has lower limits only (`scrypt.go:85-103`): an N that is no power of two, an N, R
  or P that asks for more memory than there is, and a `KeyLen` other than 32 pass, and `DeriveKey`
  or `cryptocore.New` ends the process; so does an empty `EncryptedKey`, which decrypts to an empty
  key. The client's own cost is not limited either: 63 shifts to a negative N.
- An error of `fd.Sync` is only logged (`config_file.go:310-316`): `syscall.Sync`, which has no
  result, takes its place and the rename follows. After a power loss `gocryptfs.conf` can then be
  gone.
- A kill between creating and filling a `.name` file (`longnames.go:137-143`) leaves it empty.
  `gcf_mkdir` and `gcf_open_write_mode` of that name fail from then on; `gcf_rename` takes it for
  one that is in use (`common_ops.go:89`) and puts content beside it, which opens by its path but is
  in no listing (`longnames.go:101`, `cli.go:104-107`).
- `dirCache.Delete` takes no lock (`dircache.go:146-154`), unlike `Lookup`, `Store` and `Clear`.
- `registerNewVolume` always passes `longNames = true` (`volume.go:84`), whatever `FlagLongNames`
  says (`feature_flags.go:22`).
- Nobody takes `dirIVLock.RLock` (`volume.go:40-42`): a path resolution that reads `gocryptfs.diriv`
  (`helpers.go:89`) sees directories in work, and its call fails, without effect.

## Not modelled

- Cryptography (AEAD implementations, `stupidgcm`, `siv_aead`, HKDF, scrypt, EME) is external: a
  block opens as the block it was sealed as, a wrapped key under the hash it was wrapped with. What
  is modelled of `cryptocore` is which combinations `New` accepts, the nonces and the wiping of
  keys; `Wipe` overwrites the keys one by one, the model does it in one step.
- Buffers lost on error paths of `doRead` and `doWrite` are garbage-collected and change nothing.
  All-zero blocks (holes) are in `FileContent`, not in `BlockEncryption`; reads that run in parallel
  with a write of the same file are in `HandleTable`. The pools are sets, so that a second `Put` of
  one buffer in a row would not show.
- `nametransform` beyond the files of long names: padding, encryption and encoding of a name are
  stateless conversions on byte strings, and no property here tells names apart by their bytes.
- Changes to the backing files from outside are not modelled. Plaintext-names volumes, symbolic
  links, permissions and times are left out of `DirTree`; reverse-mode ranges (`ExplodeCipherRange`,
  `CropBlock`) have no caller.
- `syscallcompat` retries on EINTR and fills `Getdents` buffers: one system call is one step, and a
  listing that is cut short by a concurrent change is what `SyncFiles` and `DirTree` read at one
  moment.
- The JNI bridge, the allocator, argument parsing and the build scripts convert and keep no state.

## Plan

Done, in this order:

1. `ContentOffsets`, `ExplodeRange`: the arithmetic everything rests on, with proofs.
2. `HandleTable` over `FileStore`: locks, handles, descriptors, with proofs.
3. `FileContent` over `PlainFile`: header, IDs, read-modify-write, truncation, with proofs.
4. `DirTree` over `PlainTree`: long names, directory IVs, the directory cache, with proofs.
5. `SyncFiles`: the mirror, its comparison, its interruption and its pruning, with proofs.
6. `Volumes` over `VolumeStore`: config file, password changes, registry, crashes, with proofs.
7. `RandPrefetch`, `BlockEncryption`: nonces, goroutines and buffers, with proofs.

Next, in order of what they would add: a proof that `DirTree` implements `PlainTree`, on the
invariant of `DirTreeProofs` and its map `where` (`KindAt` of a path is the entry of the directory
there); a composition of `HandleTable` with `Volumes` for a `gcf_close` under running calls; names
of bounded length over a small alphabet, with padding and the length at which a name becomes long.

The number of runs is kept small: a module that was added took the place of a violation run whose
finding stays in the list above. So it was with the descriptor number reused under `gcf_truncate`,
the write beyond the end, the `.name` file lost by a rename and the volume emptied by an unreadable
source; the guards `HandleTable.Conflicts`, `FileContent.PastEnd`, `DirTree.Rename` and
`SyncFiles.UnreadableDirs` keep them out of the passing runs.
