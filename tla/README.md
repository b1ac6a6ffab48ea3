# libudfread in TLA+

libudfread reads files from UDF (ECMA 167) volumes through a block input that the
application provides or that the library opens for a path. This directory models
the parts of it that carry its own logic, model-checks them with TLC and proves
the most important properties with TLAPS for every value of the constants.

File and line references are to the repository (`src/udfread.c` and so on).

## The system

| component | state | operations | properties that make it right |
|---|---|---|---|
| directory cache and path lookup (`udfread.c:92-354, 445-662`, `udf_atomic.h`) | the tree of `struct udf_dir` under `udf->root_dir`: entries, `subdirs` arrays and their slots; the `UDFDIR`s that point into it | `udfread_opendir`, `_opendir_at`, `_file_open`, `_file_openat` walk a path and fill the tree on the way, `udfread_closedir`, `udfread_close` | no memory is used after it was freed, leaked or owned twice; a directory is complete before another thread can see it and never changes; a lookup ends where the tree says; close ends and frees everything |
| file stream and block access (`udfread.c:591-956`) | `struct udfread_file`: file entry, position, one block buffer | `udfread_file_read`, `_seek`, `_tell`, `udfread_read_blocks`, `udfread_file_lba` | the bytes of the file are delivered, however a request is cut and whatever the input fails to deliver; the position moves by what was delivered |
| volume recognition and descriptor search (`udf_volume.c:60-275`) | the descriptors found so far and their mask | `udf_probe_volume`, `udf_read_vds` | the partition asked for is found if the readable descriptors hold it |
| partition maps, opening, closing (`udf_volume.c:277-476`, `udfread.c:136-164, 217-232, 361-459`) | the fields of `struct udfread`: input, partitions, identifiers, root directory, requested partition | `udfread_init`, `_select_partition`, `_open`, `_open_input`, `_close` | a failed open leaves no input behind; an open volume is not disturbed; what is opened is complete |
| metadata blocks with mirror (`udf_fs.c:156-288`) | none of its own | `_read_metadata_blocks`, `udf_find_root_dir` | one readable copy of each block is enough |
| file entries and allocation extents (`udf_fs.c:294-359`, `ecma167.c:256-411`) | the growing list of allocation descriptors | `udf_read_file_entry` | the list is whole, or it is known not to be; no block is read from a wrong place |
| directory reading (`udf_fs.c:227-250, 365-496`, `ecma167.c:172-202`) | a buffer with the blocks of the directory, the growing list of entries | `udf_read_dir` | the entries are the identifiers of the directory, in order, none lost but for want of memory |
| directory streams (`udfread.c:485-506, 544-584`) | `UDFDIR.current_file` | `udfread_readdir`, `_rewinddir` | every entry once and in order |
| names (`udf_fs.c:43-123`) | the output buffer, its size and position | `udf_cs0_to_mutf8` | no write outside the buffer; the output decodes to the units of the name |
| log switch (`udfread.c:136-215`, `ecma167.c:32`, `logger.h`) | `lc_storage` (level, ctx, logger) and the pointer `ecma.lc` | `udfread_set_log`, `_set_log_level`, every message | a logger gets its own ctx; switching is safe in the middle of a message |
| default block input (`default_blockinput.c`) | a file descriptor with one offset, and without `pread` a mutex | `block_input_new`, `_def_read`, `_def_size`, `_def_close` | a call gets the blocks of its place, whatever other calls do and however short the reads are |
| descriptor decoders (`ecma167.c`) | none | `decode_*` | accepted lengths keep every read and write inside the block and the allocation |
| compare-and-exchange (`udf_atomic.h`) | on Windows a critical section that is made on first use | `atomic_pointer_compare_and_exchange` | atomic |

How they interact: the application calls the API from any number of threads on
one handle. Opening and closing are calls of one thread. Path lookups call
`udf_read_dir`, which reads a file entry (`udf_read_file_entry`) and the blocks of
the directory (`_read_metadata_blocks`) through the callback of the input, and
install the result in the shared tree. A file that is opened gets a file entry of
its own and from then on shares nothing but the input with other threads.
Everything shared is the tree, the handle's fields set by the open, the log
pointers, `UDFDIR`s if the program shares them, and the input; the only lock is the
mutex of the block input in builds without `pread`, and there is no queue. Nothing is persisted and nothing is
written to the medium, so there is no crash recovery.

Behaviours that are hard to test, with the line at which each bites and the
properties about it, are the hazards of `PROJECT.json`: the lock-free tree
(races, losers that free what they built, a pointer read again after the
exchange, reads that fail between two installs), the cutting of byte requests
into blocks with a buffer in between (short and failing input, sparse files,
32-bit products), the search through redundant descriptors any of which may be
unreadable, calls on a handle whose first open failed, lists that continue
over several extents, directories that are cut by block borders and unreadable
copies, names that grow while they are converted, reads that are short,
interrupted or moved by another thread, and the log switch.

## Modules

| module | models | builds on |
|---|---|---|
| `DirCache` | the directory cache, each access to a shared pointer a step | |
| `SharedTree` | what the cache promises: one tree that only grows | |
| `DirCacheRefines` | the refinement mapping of `DirCache` to `SharedTree` | `DirCache`, `SharedTree` |
| `DirCacheProofs`, `DirCacheRefinesProofs` | proofs about them | |
| `FileStream` | an open file | |
| `FileStreamProofs` | proofs about it | |
| `VolumeOpen` | opening and closing: recognition, search, partition maps, metadata blocks, root directory | |
| `VolumeOpenProofs` | proofs about it | |
| `FileEntry` | gathering the allocation descriptors of a file, and what a reader makes of them | |
| `Cs0` | the conversion of a name | |
| `Decode` | the lengths in descriptors: what the decoders accept, read and write | |
| `DirRead` | reading and parsing a directory | `FileEntry`, `Cs0`, `Decode` |
| `DirPartsProofs` | proofs about `FileEntry`, `Cs0` and `Decode` | |
| `DirReadProofs` | proofs about `DirRead` | `DirPartsProofs` |
| `BlockInput` | the block input for local files under `_read_blocks` | |
| `BlockDevice` | what a block input promises, the abstract specification of `BlockInput` | |
| `BlockInputProofs` | proofs about `BlockInput` | |
| `Handle` | the log switch and directory streams | |
| `HandleProofs` | proofs about it | |
| `MCDirCache`, `MCFileStream`, `MCVolumeOpen`, `MCFiles`, `MCFileEntry`, `MCDirRead`, `MCBlockInput`, `MCHandle` | small volumes, files, discs, directories and names for TLC | |

Every definition that stands for code is listed with its lines in `PROJECT.json`
(`map`); actions carry the name of the function they are, or of the part of it.

### DirCache

`heap`, `content`, `subdirs` and `slots` are the memory of the tree: which
addresses are allocated, the entries of a directory object, its array of
children, and the children in an array. Each thread has a program counter and the
local variables that live across steps (`cur` is `current_dir`, `fdir` and `fidx`
are `fid` as directory and index, `arr` and `sub` are `subdirs` and `subdir` before they
are installed). `_cache_subdir` (`udfread.c:238-273`) is seven actions: test the
array, exchange it (freeing it on a loss), test the slot, read the directory into
private memory (or fail), exchange it (freeing it on a loss), read the slot again. A test that
finds the pointer set and a read of it are separate steps from the exchange, so another
thread can act in between. `calloc` may fail and so may the read; an address that
was freed can be allocated again, so a stale pointer would be seen. `udfread_close`
begins the recursion of `_clean_tree`; `stack` has a frame for each call, with its directory and the counter of
its loop. A pass of the loop is an action (a recursion into the child the counter is at, or past a child that was never loaded),
and so is its end, which frees the array. The API says that no other call may be running when a volume is
closed, and so does the guard of `udfread_close`; that callers may still hold a
`UDFDIR` is allowed, and `HandlesLive` is about an open volume.

What `udf_read_dir` delivers for a location is a set of possible entry lists
(`Readings`), since a name that cannot be converted for want of memory is dropped
without failing the call (`udf_fs.c:414`). `SharedTree` forgets arrays, private objects, races
and teardown: a directory enters the tree in one step, complete, and calls
descend in it.

### FileStream

A byte is known by where it comes from: a place on the medium, a place inside the
file entry, zero fill, or junk (memory nothing wrote to). So "the bytes of the
file" (`FileByte`, `BlockByte`) is a definition over the extents that does not
mention how a request is processed. The actions are one pass of a loop each: a
chunk of `_read` through the buffer (`ChunkBuffered`, `ChunkPart`) or straight into
the caller's memory (`ChunkWhole`), a run of blocks in `udfread_read_blocks` that
is filled with zeros (`BlocksFill`), read in part or in full (`BlocksRead`) or fails (`BlocksFail`),
and the way back. `first` of a file holds the sums `_file_lba` has subtracted when it reaches an
extent. 32-bit products are taken modulo `M32`.

### VolumeOpen

The handle's fields are `request`, `input`, `part`, `volid`, `root`; `o` holds the
local variables of the open in progress and `pc` its stage, or the way in which it failed. A
block of a disc is what its decoder finds in it. An open chooses the set of
blocks that cannot be read for the time of this attempt. Each allocation that the code tests may fail, too:
of the volume identifier, which is then NULL (`Identifier`, `udfread.c:391`), of a metadata file entry, which is then passed over
(`lost` in `MapType2`), of the file entry and the blocks of the root directory (`ReadRoot`), of the array of entries, which is then gone while its
count stays (`ArrayLost`), and of a name, which is then left out without a word (`ReadName`). `o.short` remembers which of the three
parts, partition map, identifier or root, it was; the code goes on or fails without it, so only properties look at it. A step is one pass of a loop: a block of the recognition
area, a block of a descriptor sequence, a partition map, a block of the File Set
Descriptor area, an identifier of the root directory. `held` counts the inputs the library is responsible for closing.
Nothing resets `part` and `root` when an open fails, as in the code. The File Entry of the root directory
is taken to have its first extent on one block, as `udf_read_dir` reads only the
first; a root directory inside its file entry is left out.

Discs are typed: each kind of block has the fields its decoder delivers, `DiscAssumption` says that
the discs have such blocks, and `Names` are the identifiers and file names that occur. A partition does not begin at
block 0, since the code takes 0 for "not found" (`udf_volume.c:361`). Addresses have no width, so sums of
32 bits that wrap, on a disc with addresses near 2^32, are not modelled. `PointerAssumption` ranks the pointers of a disc: none leads
back, directly or by way of others, to the extent it is in. A disc may have pointers in any other arrangement.

The reference for the search (`Sequence`, `Found`, `Chosen`) says what a sequence of
extents holds as sets of descriptors with their place in the reading order,
without a mask or an early end. The reference for the partitions (`Copies`, `AnyCopy`) says at which places a
block of a partition is recorded, without an order of maps or copies. `OneCopyIsEnough` and
`OpenedIsComplete` compare with it for volumes that are `WellMapped`: no two maps for the same partition, at most one metadata
partition, behind the map of the partition it lies in, and metadata files of the right types. The code relies on all of this: a
type 1 map behind the metadata map sets `num_partition` back to 1 (`udf_volume.c:409-432`), and the two entries of
`struct udf_partitions` have room for one of each. `Sound` blocks are readable and what they should be in all readable copies, as the
code looks at the mirror only when the main copy cannot be read, not when it is something else. Both properties have an exemption
for memory and no more than the failure explains: a lost name may be missing from the root directory, but the others are
there in their order, and an attempt fails for a reason of the disc or because memory was short. Both are about the first attempt with a handle.
After a failed attempt the root directory begins with the entries that attempt has read, since the code appends to them (`udfread.c:412`), and
the metadata partition may be where that attempt found it (the violation `volume_retry`).

`SearchIsRight` says which descriptors a search ends with, and that a search that fails lacked one of the three kinds. It does not
say which of them a volume can do without: there code and comment differ, and `PvdMayBeMissing` states what the comment says (`volume_pvd`).

### FileEntry

A recorded file has an entry and allocation extents at addresses; the list is
gathered part by part, any part may be unreadable, of another kind or empty. Behind
it stands a reader that asks for single blocks, so that the properties can be
about what a user of the file gets. The list as the standard defines it is a constant of the recorded
file: `Chain(m)[n]` is its `n`-th part and all that is listed up to there, without the pointers, and `Whole` is what
the last part completes. The files of `MediaAssumption` have well-formed chains: a pointer ends its part, as ECMA 167
4/12 demands and the code does not test (a descriptor behind a pointer would be taken for data), and the
chain ends within `MaxParts` extents, whatever that number is.

### DirRead

`udf_read_dir` as a composition: the actions of `FileEntry` read the entry of the
directory, each of its blocks from the main or the mirror copy; then the blocks of the
first extent are read one by one (`data` holds the address each block of the buffer came
from), and the loop of `_parse_dir_file` goes over them, handing each name to `Cs0`. A
directory is recorded as a list of identifiers with a name, implementation use of some length and a
tag that is right or wrong; where they lie follows from the lengths (`Begins`), with the
padding and acceptance tests of `Decode`. Which copies of blocks are unreadable is chosen with the
directory. Memory may be short at every allocation: the entry, an allocation
extent, the buffer, the array of entries (which is then gone while `num_entries` stays), and the output of a name
at each growth. `short` remembers it, since `udf_read_dir` then drops a name
without a word. The same recorded files can also be opened as files (`FileWork`), so
that the properties of `FileEntry` are checked in this composition, too.
`EntriesAreRight` compares every entry with the identifier it was made of, its number if the buffer holds the
blocks it lies in and no number otherwise; `Listing` is the set of the identifiers a listing shows. `DirIsWhole` and `OneCopyOfEach` say
when nothing may be missing.

### Cs0

`out` has the bytes of each unit that was written, `used` and `size` are `out_pos` and
`out_size`: that one never reaches the other is not tested by the code but follows
from the growth of each unit, so it is the invariant `NameFits`. `NameDecodes`
reads the output back with a decoder written from the definition of the format; it
accepts overlong forms, as readers of modified UTF-8 do. `FormLength` says how long a form should be, and the theorem `FormsAreRight` for which unit it is not.

### Decode

Operators, no state: the tests of `decode_file_entry` and `decode_ext_file_entry` (a sum in 64 bits,
then one that could wrap in 32), of allocation extents, file identifiers, dstrings and the walk over partition maps,
and the sets of byte offsets that are read and written then.

### BlockInput

One file descriptor for all threads. A build with `pread` names its place in
each read; without it `pread_impl` locks, seeks, reads and unlocks, each a step. The system may
answer with any number of bytes up to those there are, an interruption or an error. Byte `p` of the
file is the number `p`, so `PlaceIsRight` says of every byte that it is where it belongs. `_def_size` moves the
offset without the mutex; it is called while the volume is opened, by the only thread there is.
`BlockDevice` is what the rest of the library relies on: an answer is a beginning of the blocks asked
for, and shorter only when the medium ends or failed during this call.

### Handle

`lc` is the pointer that `udfread_set_log_level` sets to NULL and back; nothing
orders it with the messages of other threads. `udf_log_msg` copies the pointer
into a local variable, and the model takes the copy to be what the later uses see, as it is in the code compilers make of it.
`ecma_error` spells out three loads, and each may or may not be made again (`EcmaSees`).
`udfread_readdir` tests, uses and increments `current_file`; the model lets each use see the
value tested or the present one. A thread that follows NULL is the phase `crashed`,
after which the program starts again. `shared` is set when calls for one stream overlap, for which nothing is claimed.

## What the runs check

| run | instance | shows |
|---|---|---|
| `dircache` | two threads, one `UDFDIR`, a tree with three directories, one of them reachable in two ways, a reading that lost an entry; paths that are empty, lead through two directories, and go through a file | memory safety of the races (`NoDangling`, `NoLeak`, `CleanClose`), handles and private reads (`HandlesLive`), `Loaded`: visible directories are complete, `WalkIsRight`: lookups end at the right directory or entry, `Stable`: published pointers never change |
| `dircache_live` | one path through two directories, only one thread is known to run | a call returns although the other thread may stop anywhere (`LoneCallReturns`); the recursion of `udfread_close` ends (`CloseReturns`); the cache implements `SharedTree` (`ImplementsSharedTree`) |
| `filestream` | blocks of 3 bytes, requests of up to 10 bytes, positions up to 14, a sparse file of three extents, a file longer than its extents, an inline file | reads and block reads deliver the file (`ReadIsRight`, `BlocksAreRight`), buffer and position stay coherent (`BlockCoherent`, `PositionFollows`), `InsideFile`, and each call returns (`ReadReturns`) |
| `filestream_wide` | blocks of 2 bytes, 32-bit numbers modulo 4 | violation: a read of a multiple of 2^32 bytes never returns |
| `volume` | three discs (a mirrored metadata partition; two partitions and a pointer between extents; a damaged root directory), any two blocks unreadable in the first attempt and any one in the second, memory short at any allocation, first, last or numbered partition | `SearchIsRight`, `OneCopyIsEnough`, `OpenedIsComplete`, `InputsHeld`, `StaysOpen`, `OpenReturns` |
| `volume_pvd` | the same discs, one attempt | violation: a search that found the partition and a logical volume fails without a primary volume descriptor |
| `volume_retry` | two attempts on one handle, discs with different metadata files | violation: the metadata partition of the second disc is looked for where the first one had it |
| `fileentry_loss` | seven files: plain, inline, three parts, a chain of pointers, a wrong part, a file longer than its list, an invalid entry | violation: the blocks behind a lost part are delivered as zeros |
| `dirread` | 54 layouts of three identifiers against block borders, nine special directories (in the entry, behind a pointer, cut, empty, in pieces, with a wrong tag, without a mirror, odd names) and the seven files; up to two copies unreadable | entries are right at any time and complete at the end (`EntriesAreRight`, `DirIsWhole`), one copy of each block is enough (`OneCopyOfEach`), the list of descriptors is whole or a beginning (`ListIsWhole`, `NoWrongBlock`), names fit and decode (`NameFits`, `NameDecodes`), and the calls return (`DirReturns`) |
| `blockinput` | two threads, a file that ends inside a block, requests inside, across and behind its end, empty and negative ones, with and without `pread` | `PlaceIsRight`, `ImplementsDevice`, and the last call returns (`LastCallReturns`) |
| `handle` | two threads, one stream of two entries, two loggers, three levels | `LoggerPaired`, `OnlyEcmaFollowsNull`, `ReaddirInOrder` |
| `handle_log` | the same | violation: switching logging off during `ecma_error` crashes |

Each property of a passing run has a mutant in `PROJECT.json`: a definition of the
model changed as a plausible bug would change the code, under which the property fails.

### Bounds, and why they are enough

- `DirCache`: two threads make every race between a winner and a loser; a third
  would be another loser (the proofs cover any number). Four addresses for
  directories, the root's included, and three for arrays let both threads hold a private object while
  what is above is installed, and freed addresses are used again. Three entries per
  directory: one before and one behind the entry that matters. Threads, free addresses and streams are symmetric;
  the liveness run uses no symmetry, and the smaller instance keeps it affordable.
- `FileStream`: a request of 10 bytes at blocks of 3 is a part, up to three
  whole blocks and a part, in every combination with extents whose last block is not full, holes and the
  end of the file. `MaxRead` and `MaxPos` bound the caller. `M32 = 18` is above every number these
  requests make, as 2^32 is for requests below 4 GiB, so the passing run says nothing about larger
  ones; `filestream_wide` is about those.
- `VolumeOpen`: two unreadable blocks (`MaxBad`, one less in each further attempt) lose both copies of anything,
  and one of each of two redundant structures. `MaxHops` is the number of pointers of
  the discs. Two attempts are one after a failure and one on an open volume. The
  recognition area is 3 blocks instead of 240 (`RecFirst`, `Anchor`), one with each descriptor, as all the others are skipped alike.
- `DirRead`: blocks of 8 bytes with a fixed part of 5, tags of 3 and padding to 2 stand for 2048, 38, 16 and 4; what matters is that
  identifiers begin before, at and behind the border of a block, are longer and shorter than one, and that the rest behind
  the last one is shorter and longer than a tag. Two unreadable copies (`Faults`) lose one block altogether or
  one copy of each of two. The decoders are evaluated with a word of 512 (`M32`) at the lengths around each limit.
- `Cs0`: within `DirRead`, names of no more than two units, in each encoding, with units of each length and with half a unit at the end.
- `BlockInput`: a request of two blocks of two bytes takes one to four reads; one interruption for each request (`MaxInterrupts`) is followed by any
  other answer. A negative count stands for 2^31 blocks and more. With two threads every seek meets a read of the other.
- `Handle`: one thread switches or rewinds while the other is inside a message or a call; entries before and at the end of a stream.
- `FileEntry`: three parts are a first, a middle and a last one; eight blocks go beyond the end of each file.

### Fairness

`WF_vars` of the steps inside a call of one thread: it runs on when it can, which is what a
scheduler grants a thread that does not block; the library has no lock to
wait for, except in builds without `pread`. Nothing is assumed of the input but that its callback returns, nor of the callers: no call
has to be made. In `dircache_live` only one of the threads, and the thread inside `udfread_close`, has this
fairness; the other may stop for ever at any step. In `blockinput` each thread inside a call has it; a mutex is not
fair, so `LastCallReturns` speaks of a thread when the others have stopped calling: it fails if somebody leaves the mutex
locked. That a signal does not interrupt every read for ever is the bound `MaxInterrupts`. `Handle` has no fairness and no liveness.

## What is proved

For any number of threads, streams and addresses, any volume, block size, file,
disc, request and pattern of failures:

- `DirCacheProofs`: the type invariant, `NoDangling`, `OneOwner`, `NoLeak`, `HandlesLive`, `Loaded`,
  `CleanClose`, `WalkIsRight` and the action property `Stable`. None of the safety properties is inductive: whether an exchange may publish an
  object depends on what the calls have in hand. `Inv` adds that a private
  array or directory has no children (`Private`), what a call can rely on at each
  program point (`Calls`: a thread holds an array exactly between its allocation and its exchange,
  and the directory about to be published was read for the entry it goes to) and that the recursion of
  `_clean_tree` goes down the tree without meeting a directory twice: each call is in the child that the counter of its caller is
  at, and the children before a counter are gone (`StackOK`, without which freeing could dangle). Assumed: `AddressAssumption` (addresses of directories, arrays and NULL differ) and
  `ImageAssumption` (entry lists are finite and of the stated type).
- `DirCacheRefinesProofs`: `Refinement`, `Spec => Tree!Spec`, by the mapping in `DirCacheRefines`: the two
  winning exchanges are `Load` or invisible, a losing one, a failed read and the teardown are stuttering.
- `FileStreamProofs`: the type invariant, `BlockCoherent`, `ReadIsRight`, `BlocksAreRight`, `PositionFollows`,
  `InsideFile`. `Inv` adds what stands in the caller's memory in the middle of a run of blocks
  (`Reading`) and how the counters of a call are related (`Calls`); the arithmetic of
  blocks and offsets is a set of lemmas. Assumed: `SizeAssumption` (block size and modulus positive, the modulus a multiple
  of the block size, as 2^32 is of 2048) and `FilesAssumption`
  (the block counts before each extent are their sums and fit into 32 bits, and a file is at most
  2^32 - 1 blocks long, as the comment at `udfread.c:800` says). `BlocksAreRight` and `ReadIsRight` hold for oversized
  requests, too: those never return, but what they have delivered is right.
- `VolumeOpenProofs`, for any number of discs, attempts and unreadable blocks:
  - `InputsHeld` and the action property `StaysOpen`. The count of inputs
    says nothing in the middle of an open; `Inv` says for each stage whether the handle has an input and
    how many are held.
  - the type invariant `TypeOK`, by `Typed`, which adds what a stage knows of earlier ones: after the anchor `o.avdp` is one, after
    validation the logical volume descriptor has maps and a File Set Descriptor area.
  - `SearchIsRight`. What is collected at the end of the search depends on all that came before, so
    `Searched` says it for the middle: the descriptors and the mask are what `Collected` makes of the descriptors passed so far
    (`Seen`: complete extents before this one, and this one up to `lba`). `TakeCollects` is the step for one block;
    at the end of a sequence what was seen is all there is (`SeenAll`), which needs that the chain of pointers has come to its end
    within `MaxHops` (`PointersEnd`, from the ranks) and that the functions `Extents` and `Reach` exist (`ChainExists`, from the least number
    for which they would not); and an early end leaves out nothing that would be chosen (`RestIsLeftOut`), since a complete set is changed by later
    descriptors only when the last partition is wanted, and then there is no early end.
  - `OneCopyIsEnough` and `OpenedIsComplete`. `Opening` says what became of the maps that have been seen (`MapsSeen`); when
    all have been seen, the places where the handle reads a partition are exactly those where the disc has it
    (`AllPlaced`, `PlacedRight`), so that the block that is used is a readable copy if there is one (`CopyIs`). It also says what was passed
    over in the File Set Descriptor area, and that at the first attempt the handle has names of this root directory only, in order, and
    all up to the counter unless memory was short (`RootShown`). When a metadata file entry was lost for want of
    memory the handle knows the partition at some of its places only, or not at all (`PlacedRight`), and that root directory is still a readable copy.

  Assumed: `BoundAssumption` (an input is not NULL), `DiscAssumption`, `PointerAssumption`.
- `DirPartsProofs`, about the parts of `udf_read_dir`:
  - `FileEntry`: the type invariant, `ListIsWhole` and `NoWrongBlock`. `FInv` says that what is gathered is always the data of
    the first `n` parts of the chain for some `n`, followed by the pointer to the next one as long as the loop runs; the lemmas
    show that a block has at most one descriptor (`HitOnce`) and that it is the same one in a list and in any
    beginning of it (`BeginningAgrees`). `SumsAre` and `ChainIs` show that the recursive functions of the
    model exist, from the least number for which there would be none. Assumed: `MediaAssumption`, `BoundAssumption`.
  - `Cs0`: `NameFits` and `NameDecodes` for names of any length. In the loop `size - used` is the length of the
    input less the number of units written (`RoomLeft`), and every unit takes a byte of the input at least. Assumed:
    `NamesAssumption` (a name is a sequence of bytes). `FormsAreRight` compares the length of each unit's form with `FormLength`.
  - `Decode`: for all lengths of the width of `M32`, what is accepted is read inside the input and stored inside the
    allocation (`EntryReadsInside`, `EntryStoresInside`, `ExtentInside`, `IdentifierInside`, `MapsInside`). `EntryReadsInside` rests on
    the test in 64 bits: without it the sum of the second test could wrap. `ExtentInside` assumes that the number of all
    descriptors of a file stays below 2^32, which the code does not test; reaching it takes more memory than 48 GiB for one list.
    These are theorems about operators, which `DirRead` uses for identifiers; `DecodeAssumption` says how the parts of `struct file_entry` lie.
- `DirReadProofs`: the type invariant, `EntriesAreRight`, `DirIsWhole` and `OneCopyOfEach`, and again the properties of the parts, as
  properties of `DirSpec`. `DInv` joins the invariants of `FileEntry` and `Cs0` with: the buffer is filled from the
  first extent on (`Filled`); the parser stands at the border of two identifiers, and the entries are
  complete ones from before it and, if memory was not short, all that are to be shown (`Between`, `ListedTo`); in the middle of a name,
  this is the name of the identifier before the border, which lies inside the directory (`Naming`); and as long as the directory is as it should be,
  memory suffices and each block has a readable copy, nothing has failed (`Readable`). The arithmetic is that of the
  borders: `EdgesAre` (they grow by more than a tag), `BlockOf` (a byte of the directory is in a block of the buffer),
  `AtEdge` (what the parser meets is the next identifier and no other) and `NothingBehind`
  (where it ends no complete identifier is left). Assumed: `LayoutAssumption`, `DirsAssumption`, and the assumptions of the parts.
- `BlockInputProofs`: `TypeOK`, `PlaceIsRight` and `ImplementsDevice` for any number of threads, file and requests. `PhaseOK` adds that
  nobody is inside a call when the file is closed or its size is asked for, and `BInv` what each program point knows of the
  offset: only the owner of the mutex is between a seek and a read. For `ImplementsDevice` a call also knows that what it has is a beginning of what was
  asked for, cut short only by the end of the file or an error.
- `HandleProofs`: the type invariant, `LoggerPaired`, `OnlyEcmaFollowsNull` and `ReaddirInOrder`, for any number of threads, streams and
  loggers and any directory. The invariant says what each program point knows: which of the two
  messages runs and whether its copy of the log pointer is set, that a thread inside `udfread_readdir` has an open
  stream and, if no other call overlaps with it, the cursor its caller has counted. Assumed: `HandleAssumption`.

Proofs of an invariant have a step for each action. `Spec` is in each case the specification that TLC runs, without
its fairness where the run needs it.

## What is only model-checked

Liveness (`LoneCallReturns`, `CloseReturns`, `ReadReturns`, `OpenReturns`, `DirReturns`, `LastCallReturns`), which the prover does not reach.
Every invariant and every action property of the passing runs is proved. The other way round, `OneOwner` is proved
(in `MemorySafe`) and no run checks it.

## Where code and comments disagree

- `udfread.c:828`: a chunk of 2^32 bytes counts as 0 bytes and is read for ever
  (`udfread.h:363` promises the position to move on).
- `udf_fs.c:328`: the pointer to an allocation extent is dropped before the extent is read, so
  a lost extent turns into zeros (the comment at 351 promises an error).
- `udf_volume.c:169`: the primary volume descriptor is required, while a missing logical volume descriptor is left to
  `udf_validate_logical_volume` to refuse (the comment at 269 says that all strictly needed data was found and the primary one may be missing).
- `udf_volume.c:361`: the address of the metadata partition may be that of an earlier, failed open
  on the same handle (the comment at 362 takes it for the primary location just read).
- `udf_fs.c:73`: U+07FF is encoded in three bytes, although `udfread.h:50` names an encoding that has two for it (proved, of this unit and no other: `FormsAreRight`).
- `ecma167.c:33`: `ecma_error` reads the log pointer three times, so switching logging off while the volume is in use
  is not safe, as the comment at `udfread.c:206` says it is. `udf_log_msg` copies it first.

## What is not modelled, and why

Decoders copy fixed fields and have no state: those fields, and whether a tag has the right checksum, are data of the
models; of the decoders only the lengths are modelled. Volume identifiers are copied out, `udfread_tell`, `_file_size` and `_file_lba` only read. The lazy
critical section of `udf_atomic.h` and the Windows code of `default_blockinput.c` are for a platform whose primitives the
models would have to invent. Circular pointers (volume descriptor
pointers, allocation extents) are left out of the discs and files: the loops that follow them have no
bound, which a look at them shows. A File Set Descriptor area of length 0 (`udf_fs.c:268`) and positions near 2^63 (`udfread.c:938`) are outside the bounds.
The memory that an open allocates can fail but is not counted: a second open after a failed one loses the first volume
identifier, and `VolumeOpen` does not say so. Calls that overlap on one
`UDFDIR` are modelled, but nothing is claimed for them. Examples, tests and build files only use the library.

## Plan

All components with state of their own are modelled, and the safety properties that the runs check are proved. What could follow:

1. `VolumeOpen`: properties of an attempt after a failed one, beyond the violation of `volume_retry`: what holds when
   the failed attempt found no metadata partition and no entry of a root directory.
2. A volume that is opened (`VolumeOpen`) and then walked (`DirCache`) as one composition, with what the open promises as the
   initial state of the tree.
