# A TLA+ model of ext4-rw

`ext4-rw` is a `no_std` crate that reads and writes ext4 file systems through a
`BlockDevice` that its user implements. It has no journal: what keeps a disk
consistent is the order in which `write_file`, `mkdir` and `sync_metadata`
write to it. The modules here describe those writes one at a time, and ask what
is on the disk, and what later calls make of it, when a call stops after any of
them. Paths like `readwrite.rs` are files of `src/src/`.

## The system

| Part | State | Operations | Hard to get right |
|---|---|---|---|
| `bitmap.rs`, `BitmapAllocator` | none of its own: byte buffers of callers | `is_set`, `set`, `clear`, `find_first_free`, `find_contiguous_free`, `count_free`, `allocate_one`, `allocate_contiguous`, `free_range` | two passes that meet at `start`; runs across the seam; bits past the end |
| Allocation in `Ext4Fs` (`readwrite.rs`) | `groups` and `sb` in the handle; bitmaps, descriptors and superblock on disk | `allocate_block`, `allocate_inode`, `sync_metadata`, `mount` | cached counts older than the bitmaps; a sync cut short; a bitmap write that fails but happens |
| `dir.rs` | none: directory blocks | `DirEntry::from_bytes`/`to_bytes`, `DirEntryIter`, `lookup_in_block`, `find_space_in_block`, `create_dot_entries` | record chains; unsigned slack; what an insertion wipes |
| Directory operations (`readwrite.rs`) | directory inodes and blocks on disk | `lookup_in_dir`, `lookup_path`, `list_dir`, `add_dir_entry` | names hidden, lost or doubled by a sequence of calls |
| `write_file`, `mkdir`, `read_file` (`readwrite.rs`) | all of the above, and the inode copies in memory | one call at a time (`&mut self`), many device writes | a call cut short between any two writes; leaks; torn rewrites; link counts |
| `extent.rs` and its callers | the root node in `i_block`, nodes on disk | `append_extent`, `resolve_extents`, `find_leaf_for_block`, `find_index_for_block` | full root node, deep trees, 0x8000-block extents, overflow |
| `inode.rs`, `block_group.rs`, `superblock.rs` | on-disk records | `from_bytes`, `to_bytes`, accessors | fields that are parsed but not written back, widths |
| `BlockDevice` | the disk | `read_bytes`, `write_bytes`, `flush` (user's code) | errors, power loss, caching |
| `lib.rs`, `Display`, `Debug`, logging | none | | |

How they interact: everything goes through `Ext4Fs`. `write_file` and `mkdir`
look up the parent with `lookup_path`, the name with `lookup_in_dir`, take an
inode and blocks with the allocator, put the name in the parent with
`add_dir_entry`, append blocks with `append_extent`, and end with a `flush`. The
free counts they change stay in memory until the user calls `sync_metadata`.
There are no threads and no callbacks other than the device's. `PROJECT.json`
lists under "hazards" the places where this can go wrong, with the properties
that cover each, and why some have none.

What makes each part correct:

* bitmaps: a search returns the nearest clear bit of its scan, and sets of bits
  given to different callers stay apart;
* allocation: a number is granted at most once in the life of the disk, and
  "no free blocks" is the truth, however stale the counts;
* directory blocks: records tile the block, and no insertion hides, overwrites
  or brings back another name;
* calls: whatever can be reached on disk was written before it was linked; a
  block belongs to one extent; completed contents read back; every set bit is
  used, and every directory's links are counted, unless a call failed. To those
  who use names, a call is one change of a store of whole files, or a torn file;
  it returns, and what it reported survives a loss of the device's cache;
* extents: reading finds the blocks that the tree maps by the disk format,
  whichever of the two searches is used, and appending moves none of them;
* records: what is stored in halves, at computed places and in two sizes stands
  for the numbers that the calls meant, and a write touches nothing else.

## The modules

| Module | What it is |
|---|---|
| `Bitmap` | operators: `bitmap.rs` over the set of bits that are 1 |
| `BitmapOps` | callers that take and give back bits of one bitmap |
| `BitmapProofs` | what the searches and `count_free` return; quotients and halves; proved |
| `BitmapOpsProofs` | the theorems of `BitmapOps` |
| `ResourcePool` | abstract specification: a pool per kind, granted from at most once |
| `Allocator` | blocks and inodes: bitmaps, both copies of the free counts, sync, mount |
| `AllocatorProofs` | the theorems of `Allocator`, `Descriptors` and `Volume`, and what implements what |
| `DirBlock` | operators: `dir.rs` in units of 4 bytes |
| `DirBlockProofs` | what iteration meets and what an insertion leaves, for every block, proved |
| `Directory` | one directory under sequences of `write_file` and `mkdir`, a call per step |
| `DirectoryProofs` | its theorems |
| `FileOps` | `write_file` and `mkdir` on a disk of inodes and blocks, a device write per step |
| `FileOpsProofs` | the theorems of `FileOps` and `CachedDevice`, and that `FileOps` implements `FileStore` |
| `FileStore` | abstract specification: names, and files that change as a whole or are torn |
| `FileOpsStore` | that `FileOps` implements `FileStore`: the refinement mapping |
| `FileOpsLiveness` | a device that may stop failing, and what calls do in the end |
| `Volume` | the whole: the calls of `FileOps` on the allocator of `Allocator` |
| `CachedDevice` | `FileOps` on a device with a volatile cache |
| `BlockMap` | abstract specification: a map of blocks that grows at its end |
| `ExtentTree` | extent trees of any depth: both searches, reading, appending |
| `ExtentTreeProofs` | its theorems, for every shape of tree, and that it implements `BlockMap` |
| `Descriptors` | `Allocator` with the bytes of descriptors and superblock, and `used_dirs` |
| `InodeTable` | the bytes of inodes of two sizes, and the calls' read-modify-writes |
| `InodeTableProofs` | that every inode keeps its bytes and reads back, proved |
| `MCDirectory`, `MCFileOps`, `MCVolume`, `MCCachedDevice`, `MCExtentTree`, `MCDescriptors` | instances for TLC |

What builds on what: `Descriptors` extends `Allocator`, which implements
`ResourcePool`. `Directory` and `FileOps` use `DirBlock`; `FileOpsStore` extends
`FileOps` and maps it to `FileStore`; `CachedDevice` extends `FileOpsStore`, and
`FileOpsLiveness` extends `FileOps`. `Volume` extends `Allocator` and takes
`FileOpsLiveness` as an instance whose `taken`, `Blocks` and `Inodes` are the
allocator's bitmaps and numbers. `ExtentTree` implements `BlockMap`; the flat extents of `FileOps`
are such maps. `InodeTable` stands by itself.

**Bitmap, BitmapOps.** A bitmap is the set of its bits that are 1.
`ScanForRun` is one `for` loop of `find_contiguous_free`, its run length a
recursive function of the position. `start` ranges over 0..`total`, and `total`
is at most the bits of the buffer: beyond it `is_set` answers false and `set`
does nothing, so that a search could return a bit that cannot be set. A group
whose last bits do not exist is a bitmap with those bits set, as `mkfs` leaves
it. In `BitmapOps` several callers hold what they were given and release only
that; `reserved` and `owned` are history.

**Allocator, ResourcePool.** `bitmap`, `diskGroup` and `diskSuper` are on disk,
`memGroup` and `memSuper` are `Ext4Fs.groups` and `Ext4Fs.sb`. `Allocate` is a
call that returns `Ok`: the loop skips groups whose *cached* count is 0
(`Usable`), goes round from the preferred group (`Visit`), takes the first clear
bit, writes the bitmap and then lowers the counts in memory. `AllocateIoError`
is the same call stopped by the device, with the bitmap written or not.
`sync_metadata` takes one step per write (`SyncSuper`, `SyncGroup`, `SyncEnd`,
which may come early). `Remount` may happen at any point: power loss, or a
handle that is dropped. `Pool` maps the set bits to the abstract pool's `taken`
numbers. The pool has no frees because the crate never frees: `Ext4Fs` has no
delete, and overwriting drops blocks without freeing them.

**DirBlock, Directory.** A block is a function from the offsets where a header
was written to records. That is what the defects and the guarantees are about:
iteration follows `rec_len` from 0, `find_space_in_block` offers a deleted slot
or slack, and the write of `rec_len` bytes wipes the headers below it
(`InsertEntry`). Names are model values with a size. A call is one step. It may
end in an error before its write, or after it, for want of blocks (which of them are
free is in `FileOps`) or by the device; on a `faulty` device a lookup may fail, too,
which ends `write_file` while `mkdir` goes on.

**FileOps.** `inodes`, `content` and `taken` are the disk; `call` is the call in
progress: its place (`pc`), arguments, the inode and the block in hand. Each
action is one device write (`PutInode`, `PutBlock`, `Take`) in the order of the
code: for a new file `AllocateInode`, `WriteNewFile`, then `add_dir_entry`
(`AddInPlace`, or `Grow`, `WriteEntry`, `AppendEntry`, `SizeParent`), then for
each block `AllocateData`, `WriteData`, `AppendData`, and `SizeFile`. `mkdir` is
`AllocateInode`, `AllocateDots`, `WriteDots`, `WriteNewDir`, `SizeNewDir`,
`add_dir_entry`, `CountLink`. `Abort` ends a call at any point: an error of the
device, or a power loss and a mount. The allocator is a parameter,
`Candidates`: `Allocator` says what it may return. `Reserved` are the bits of the
metadata and of inodes without a use here, set from the start. Both calls take any name, "." and ".."
included: no code refuses them, and after an error of its lookup `mkdir` may
add a second one, behind that with which the first block begins
(`BeginsWithDots`). `acked`, `torn` and `clean`
are history. The parent inode in memory always equals the one on disk here,
since one call runs at a time and writes what it changes; so the model reads it
from `inodes`. The same holds for the file's inode but for its extents before
the first append, which `AppendData` resets.

**FileStore, FileOpsStore.** `Entries` is what `list_dir` shows of all
directories, and `Contents` what `read_file` returns, or "torn" for a file that a
rewrite has begun to replace. Under this mapping every device write of a call is
a step of the store or none: adding a name for a complete node, or replacing the
contents of one file. The store lets a directory take a name that is in use,
because `mkdir` does that after an error.

**FileOpsLiveness.** While `reliable` is false, the device may end any call (`Abort`);
it may become true at any time, or never, and then stays.

**Volume.** In `FileOps`, an allocation picks any free number and fails only on a full
disk. Here it is `Allocator`'s (`GetNumber`, `GetNothing`): it skips groups by their
cached counts, prefers the group of the inode at hand (`Preferred`), and lowers counts
in memory that a `PowerLoss` in the middle of a call takes back to what the last
`SyncMetadata`, whole or cut short, left on disk. `GetLost` is a bitmap write that
fails having reached the disk: the bit is set, no count goes down, and the call ends
with the next step (`failing`). All else is `FileOps`'s. `FilesSpec` says that the
allocator keeps its side: every step is one of `FileOps`, under the mapping that
reads `taken` from the bitmaps.

**CachedDevice.** The trait `BlockDevice` promises nothing of writes before
`flush`. `medium` holds, for each inode, block and bitmap, the set of values that
the medium may have by now: every write adds one, a flush (at the end of a call
that succeeds, and of `sync_metadata`) leaves the last. `Crash` picks one value
per place, independently. The file system then has to be checked before it is
mounted again, so the behaviour ends. `promised` and `written` are history: what
callers were told by `Ok`.

**ExtentTree, BlockMap.** A tree is a function from the places of nodes to their
depth, capacity and entries. `resolve_extents` and `find_leaf_for_block` with its
binary search are recursive functions over it, as are their loops in the code.
The length field is an integer whose bit 15 marks an uninitialised extent
(`BlockCount` masks it, so that 0x8000 is 0 blocks and uninitialised, where the
reference `TrueCount` of the disk format says 32768 and initialised), and `block + count` wraps
at `LogicalLimit`. `AppendExtent` is `append_extent` on directories as they are
and on files after the reset of `write_file`. What a tree that another
implementation made must satisfy is `Ordered`, and `Whole` and `Apart` besides: each
node has an extent of logical blocks, `span`, that holds all its entries map, in
order. The extents are not on the disk; an image brings them along as the witness
that its tree is ordered, and nothing but `ImagesAssumption` mentions them.

**Descriptors.** Each step is one of `Allocator` joined with what it does to
`groups`, `sb`, and on disk to `table` (units of 32 bytes) and `super`. The base of
a half is small, so that counts cross it; in descriptors of 32 bytes the high half of
`used_dirs`, which `mkdir` sets in memory, is not written, and lost at the next mount
(`exact` becomes false). `super.unparsed` stands for the fields
that `from_bytes` drops and `to_bytes` fills with zeros. `BeginMkdir` and `EndMkdir`
are the two ends of `mkdir` that this part of the state sees; `homes`, `exact` and
`spilled` are history.

**InodeTable.** The tables of adjacent groups as units of 128 bytes, each a record
of the fields that a step can tell apart. `FromBytes` and `ToBytes` translate the
offsets and the conditions on `inode_size`; the calls read an inode, change it
and write it back. `truth` is history: the inode as its user meant it.

## The runs

| Run | Instance | What it shows |
|---|---|---|
| `allocator` | 2 groups of 1 block and 2 inodes, any clean bitmaps; descriptors of 64 bytes with halves of one bit, or of 32 bytes | `TypeOK`, `CountsCoverFree`, `SuperBetween`, `ExhaustedMeansFull`, `BytesAgree`, `DirsCounted`, `PrefersGroup`, `PoolSpec` |
| `bitmap_ops` | 2 callers, 4 bits of a byte, any start and length | `OwnershipExact`, `NearestFree`, `RunFoundUnlessSplit` |
| `contiguous` | same | *violated*: `ContiguousComplete` |
| `directory` | all one-block directories of "." and ".." and up to two more entries, in use or deleted, wherever they may stand; a device that fails or not | `TypeOK`, `ChainsTile`, `NamesUniqueWithoutFaults`, `FoundUnlessInSlack`, `NamesKept`, `NothingResurfaces` |
| `mkdir_duplicates` | same | *violated*: `NamesUnique` |
| `created_is_lost` | same | *violated*: `CreatedIsFound` |
| `file_ops` | 6 blocks, 3 inodes, root nodes of 2 extents, writes of 0, 2 and 3 blocks, three images | `TypeOK`, `FilesReadBack`, `NoSharedBlock`, `LinkedIsWritten`, `SpaceAccounted`, `LinksCounted`, `EntriesKept`, `StoreSpec` |
| `blocks_counted` | same | *violated*: `BlocksCounted` |
| `volume` | 2 groups of 2 blocks and 2 inodes, three blocks and one inode free, one name, writes of 1 and 2 blocks | `FilesSpec`, `CallsEnd`, `WritesSucceed` |
| `cached_device` | 5 blocks, files of 1 and 2 blocks, two images, one failed call | `WrittenSurvives`, `CreatedSurvives`, `SurvivorsMarked` |
| `extent_tree` | trees of up to 3 levels and 3 extents, logical numbers of 4 bits, lengths of 3 | `TypeOK`, `ExtentsSorted`, `LookupsAgree`, `ReadExact`, `SearchesComplete`, `MapSpec` |
| `inodes` | 2 groups of 2 inodes, of 128 or 256 bytes, three calls | `InodesReadBack`, `NeighboursKept` |

What the properties say, beyond their comments:

* `CountsCoverFree` is why stale counts are harmless. A count is written to disk
  only by a sync and lowered only after the bitmap is written, so a crash can
  only leave it too high. Too low, it would hide free space for ever.
  `SuperBetween` says the same of the superblock, which holds because
  `sync_metadata` writes it before the descriptors.
* `PoolSpec` spans crashes: a number granted before one is not granted after.
* `NothingResurfaces`: an entry lost in slack stays lost, and the directory does
  not start to show an old inode under an old name later.
* `FilesReadBack` excludes files whose rewriting was cut short (`torn`): the
  code replaces their extents in place, and such a file may read as `Corrupt` or
  as a mixture of new data and old size.
* `SpaceAccounted` and the exact half of `LinksCounted` are conditional on
  `clean`: after a failed call, or the rewriting of a file that had blocks, bits
  stay set for nothing. `clean` is what the code can promise: it frees nothing.
* `StoreSpec` says in one formula what the invariants of the same run say in parts:
  whoever looks between two writes, or after a failure, sees a name only with its
  complete node, and a file old, new, empty if it is new, or torn.
* `WritesSucceed`: whenever `write_file` has its file and the data fit in the root
  node and in the blocks that are free, it gets to `Ok` with the file readable,
  leaks of earlier calls notwithstanding, once the device fails no more, and whatever
the counts have been through. `CallsEnd` holds on any device.
* `WrittenSurvives` and `CreatedSurvives` hold because a call flushes before it
  says `Ok`, and because what later calls write over (a parent's inode and
  blocks, a bitmap) contains what was there. A later call that rewrites the very
  file takes it out of `written`: then it may be lost, or mixed.
* `ReadExact` compares `read_inode_data` with the disk format. The blocks are the
  right ones unless an extent of 0x8000 blocks hides behind its flag or there is
  a hole, in which case the read fails. Blocks of uninitialised extents are
  returned as they are.
* `SearchesComplete` and `ExtentsSorted` name the same length as their exception. In a directory
  with an initialised extent of 0x8000 blocks (128 MiB of entries), `block_count`
  (`extent.rs:217`) says 0: `lookup_in_dir` and `add_dir_entry` skip these blocks, so that their
  names are not found, and `append_extent` (`readwrite.rs:652`) places its block at the logical block where the
  extent begins if it is the last one, on top of it. The images of the run have such extents. What
  the properties rule out is that any other block is skipped, doubled or out of order. `MapSpec` follows the
  code's reading: its map leaves the blocks of such extents out (`partial`).
* No end of an extent wraps around 2^32: images keep to the last logical block of
  the disk format, and directories are far from it.
* `BytesAgree` carries every property of `Allocator`'s counts over to what is
  stored. `DirsCounted`: `used_dirs` adds up, and each group's count is right as
  long as no inode came from another group than the parent's. It is too low, and only
  that, once a call ended between its entry and its count, or a 32-byte descriptor lost a high half.
* `InodesReadBack` and `NeighboursKept` are about read-modify-write with two sizes
  of inode, sizes on both sides of 2^32, and adjacent inodes and tables.

The four violated statements are the crate's own words:

* `bitmap.rs:104`, "Returns the starting index of the run, or `None` if no
  suitable run exists": the second pass stops at `start`, so a run that
  straddles it is not found.
* `readwrite.rs:684`, "If it does not exist, it is created": an entry put into
  slack space is never reached by iteration, since the previous entry's
  `rec_len` is not cut (the comment at 585 promises it, the block under it is
  empty). The file is reported as written and cannot be read.
* `readwrite.rs:788`, "Check for existing entry": `is_ok()` takes an I/O error
  of the lookup for absence, and the name is doubled.
* `inode.rs:105`, "Number of 512-byte blocks allocated": a directory that grows
  keeps its old count.

The models also show losses that no run states as a property, since they happen
on every such call: a sync fills the superblock's unparsed fields with zeros
(`SuperToBytes`), a write of an inode its extended attributes and, in an inode of
128 bytes, the high halves of its owner (`Serialised`, `FromBytes`); a rewritten
file keeps its old `blocks_hi` (`SizeFile`); reads return uninitialised blocks.

**Bounds, and why they are enough.** Two groups make the loop skip, wrap and
fail; one block per group makes a kind that runs out at once, two inodes per
group one that does not, with counts on both sides of the base 2 of a half. The
base of 32-byte descriptors, 3, is above the blocks and inodes of one group, as the
format demands, and not above the directories of two: a group that counts those of
the other one overflows. Four
bits hold every arrangement of a run around a
seam. A directory block of 13 words holds four entries of the smallest size, or
three with slack of every size in between, or one name (`wide`) that fits only
a block of its own; with two blocks the root node fills up. Six blocks and two-extent
roots allow a file in a directory in a directory, a file of two names, a directory that grows, a
full root node, and exhaustion of blocks and inodes. Where a counter is bounded by the
disk, no bound in a guard cuts a behaviour off: nothing is ever freed, so
these instances are finite as they are. `FirstFit` is what
`allocate_one` with `start` 0 makes of a bitmap; the proofs do not depend on it.

In `volume` the root directory is full and an inode is free in the other group only,
so that the one `write_file` or `mkdir` that gets it needs blocks for the directory and
for itself, from its parent's group first and then across both, and runs out of
blocks when an earlier call has leaked some; counts are lost, synced and stale in any combination. The disk
is small because the two halves of the model multiply; each is checked at its own
size by `allocator` and `file_ops`, and that they fit is proved for every size.

`MaxFailures` bounds the failed calls in `cached_device`: one leaves a leak, a torn
file or a half-made directory in the cache under the calls that follow. Three
extents in up to three levels give the binary search every position of its middle
and every outcome; starts reach the end of the logical numbers, lengths the flag.
`MaxCalls` in `inodes` is three: a create, a size across the boundary, and a change
of a neighbour. Two different words for sizes and a base of 3 make every half
both zero and not. Four root entries in `extent_tree` are the code's number.

**Deadlock** is checked where a call can be made in every state. The cfg files of
`volume`, `cached_device`, `extent_tree` and `inodes` turn it off: the first
ends in fairness properties that say more, a crash ends `cached_device`, the blocks of
`extent_tree` run out, and `MaxCalls` ends `inodes`.

**Fairness.** Only `VolumeSpec` assumes any: weak fairness of `Work`, the next write
of the call in progress, or its end when a write has just failed. The code runs in its caller's thread, takes
no lock and waits for nothing but the device, so a call that has begun goes on
(`readwrite.rs:683`ff: loops over finite lists). Calls themselves, device errors
and crashes are not fair: none need ever happen.

## What is proved

TLAPS proves the following for every value of the constants that satisfies the
modules' assumptions. These say what the code takes for granted: geometries without
empty groups (`GeometryAssumption`, `InodeTableAssumption`, `LimitsAssumption`),
free counts of a group, and inodes of the
whole disk, that fit the fields of the format (`FormatAssumption`; nothing bounds `used_dirs`), a bitmap whose buffer covers its
bits (`SizeAssumption`), names that fit in a block of their own (`DirAssumption`,
`DotsAssumption`), an allocator that returns free numbers (`CandidatesAssumption`,
which `VolumeImplementsFileOps` discharges), finite inodes and paths
(`InodesAssumption`, `PathsAssumption`, `WritesAssumption`), and images that are clean
(`ImagesAssumption`, and `TreesAssumption` for the store: each directory is listed
somewhere, and so is its parent). The one of `ExtentTree` asks of images what the disk
format asks of a tree, and of directories that they have no holes and no uninitialised
extents. TLC evaluates all of them on its instances, those of `FileOps` also on the
instance of `Volume` (`VolumeAssumption` names them there).

**Recursive functions.** `Chain`, `ScanForRun`, `SumOver` and `Resolve` are recursive
functions, and the library's induction theorems cannot be used with these provers.
What the proofs use instead is a least counterexample (`MinExists`, from the
well-foundedness of the naturals, and `FirstFailure`): where a function with the
recursive equation fails to exist on some prefix, or differs from what is claimed, there
is a first such place, and the equation there contradicts its being first. Each time
the existence of the function is proved first (`SolutionExists`, `RunsExist`,
`SumsExist`, `WalkExists`); then facts that replace the definition.

* `BitmapProofs`: `find_first_free` from 0 returns a clear bit below `total`, or
  `NoBit` when there is none (`FindFromZero`); setting a clear bit lowers
  `count_free` by one (`CountFreeSetBit`); one pass of `find_contiguous_free`
  finds a clear run between its bounds exactly when there is one (`ScanForRunCorrect`, for which
  `RunsMeasure` says that the counter of the loop is the length of the clear run
  that ends there).
* `BitmapOpsProofs`: `OwnershipIsExact`, `NearestIsFound` and `RunsAreFound`.
  Ownership is inductive when callers hold bits of the bitmap; the other two
  follow from what the searches return.
* `AllocatorProofs`, of `Allocator`: `TypeCorrect`, `CountsCorrect`, `ExhaustionCorrect`,
  `PreferenceCorrect`. The first two together are inductive: a step lowers a
  cached count by one only with a bit that it sets, and a mount or a sync copies
  a count to where a higher or an equal one was. Exhaustion and preference
  follow: if a group has a clear bit, its count is not 0, so the loop visits
  it. `AllocatorImplementsPool` maps each step to a step of the pool; that
  different groups and bits have different numbers is the arithmetic of it.
  `SuperCountsCorrect`: `SuperBetween` is not inductive, since a sync that writes
  a superblock must not put it above the sum of descriptors not yet written. `Stale`
  orders all four: the clear bits, the handle's superblock, the sums of the handle's
  counts, and the same on disk.
* Of `Descriptors`: `DescriptorsImplementAllocator` (each step is one of
  `Allocator`, so that its theorems hold here too) and `BytesAgreeCorrect`.
  `BytesAgree` is inductive with `TypeOK`, `Fits` (counts only fall, so what fits in
  its fields at first always does) and `Shapes` (both copies of the superblock
  name the format of the image, so that the table is read with the stride it
  was written with). `CountSet` and `SuperLowered` are the two setters,
  `SyncGroupStored` that a descriptor is written over no other's units.
  `DirectoriesCounted`: `Housed` says that no group has more directories than
  inodes in use, so that both halves of `used_dirs` in memory have room for all of them, whatever a
  descriptor of 32 bytes drops; `Tallied` that
  the handle's counts add up to no more than the directories, that the disk's are
  never above the handle's, and that a directory is counted where it lives until an
  inode comes from another group.
* Of `Volume`: `VolumeImplementsAllocator` and `VolumeImplementsFileOps`. The first
  needs only that a call prefers a group that exists (`GroupOfInode`, from `Callers`:
  the inodes in hand are inodes). With it come `TypeOK` and `CountsCoverFree`, and from
  them the second: a number granted was not taken (`AllocationTakes`), and when every
  group is skipped or found full, every bit is set. So the theorems of `FileOpsProofs`
  hold of the whole, for images and writes that satisfy the assumptions of `FileOps`
  (`AnyOf` satisfies the one about `Candidates`).
* `DirBlockProofs`: what iteration meets is a chain whose records follow each other
  without gap or overlap (`ChainOrdered`, `ChainTiled`). An insertion where
  `find_space_in_block` says, in a deleted slot or in slack, leaves every other entry
  that iteration meets as it was, and adds the new one to them only in a slot
  (`InsertKeepsChain`, `InsertLookup`).
* `DirectoryProofs`: all six properties of `Directory`. `TypeOK`, `ChainsTile`,
  `NamesUniqueWithoutFaults` and `FoundUnlessInSlack` are inductive together (`Tidy`):
  NotFound means that no entry has the name only while chains tile. `StepAdds` says
  of every call that it changes nothing or adds one entry (`Adds`), from which
  `NamesKept` and `NothingResurfaces` follow.
* `FileOpsProofs`: `NoSharedBlockCorrect`. `NoSharedBlock` is not inductive by
  itself. `Exclusive` adds that mapped blocks are marked, and that the block a
  call holds between its allocation and its extent (`HeldBlock`) is marked and
  mapped by nobody; `CallIsRecord` types the call. `PutKeeping`, `PutAppending`
  and `PutNothing` are the three ways in which a step treats extents.
* `FilesReadBackCorrect` and `FileOpsTypeCorrect`. Besides
  `Exclusive`, the invariant is `Control` and `Reading`. `Control`: the parent
  that a call names is a directory, and the inode it creates another one, marked
  before it is written. `Reading`: every file that is not torn has the blocks of
  its size, holding what was acknowledged (`Intact`); a call that replaces the
  extents of a file has as many of them, with their data, as it has done
  (`Copied`), which becomes `Intact` when the size is written. What keeps the
  other files intact is `Exclusive`: a block that is written belongs to nobody
  (`WriteHeldReading`) or to a directory (`AddInPlaceReading`).
* `LinkedIsWrittenAlways` and `EntriesAreKept`. `Linking` says of every inode that the
  blocks of a directory list only inodes that are written, and of the call that the
  entry block it holds lists its own inode, written. Each step that writes a block
  or an inode (`PutBlockLinks`, `PutInodeLinks`) leaves every directory its entries
  and its parent (`DirKept`).
* `SpaceIsAccounted`: with `Exclusive`, the marked numbers are those in use and those
  in hand; each step moves one from free to hand or from hand to use (`Space`).
  `LinksAreCounted`: `Counted` puts the one link that a `mkdir` in progress still owes
  (`Pending`) between a directory's count and the cardinality of its children.
* `StoreRefined`: `FileOps` implements `FileStore`. `StoreStep` is a step of the store
  or none. Writes of what is not linked change nothing that a path reaches (`Quiet`,
  `StillQuiet`); the write of an entry adds one name (`Gaining`); the reset, the
  appends and the size of a file replace or tear the contents of one (`Rewriting`).
  `Named` adds to the rest of the invariant that the linked directories are a tree, and
  that what a call is about to link is whole and not linked yet. `WalkExists` and `PathLeads` say that
  `lookup_path` ends at a linked inode.
* Of `CachedDevice`: `WrittenFilesSurvive`, `CreatedNamesSurvive` and `SurvivorsAreMarked`. What a crash leaves is any
  mixture of what the medium may hold, so the invariant (`CacheInv`, with all of
  that of `FileOps` as `Sound`) speaks of every value of every place. `FileKept`:
  of the inode and the blocks of a file that was reported as written there is
  one value, its blocks are marked in every value of the bitmap, and no value of
  another inode maps them. `PromiseKept`: every value of the directory's inode
  has the block that lists the name (`Agree`), every value of that block lists
  it, every value of the bitmap marks the inode, and a directory that the name
  leads to finds itself as `.` in every value of its first block (`SelfKept`),
  which begins with that entry and never loses it (`SelfListed`). A step adds a value to a place (`MediumGains`): it keeps both,
  since entries, types and set bits stay and a block that is written is nobody's
  or gains an entry (`PromiseStays`, `FileStays`, `ContentNext`). A flush leaves
  one value of each place, of which both hold because the disk is sound
  (`PromiseMade`, `FileMade`) and because a `write_file` comes to its flush with
  a whole file (`CallDone`). The crash then takes one value of each
  (`PromiseSurvives`, `FileSurvives`).
* `InodeTableProofs`: `InodesReadBackCorrect` and `NeighboursKeptCorrect`.
  `UnitOf` and `InodeOf` are the arithmetic of `read_inode`: a unit of the tables
  belongs to exactly one inode, whatever the group it is in. From there,
  `Written`, `ReadWritten` and `ReadOther` say what one write does to every read.
  `InodesReadBack` is inductive with `Layout`, the types of disk and history.
* `ExtentTreeProofs`: all six properties of `ExtentTree`, for trees of any depth and
  shape. `IInv` says that *some* extents of the nodes make the tree ordered, and that a
  directory, or a file that is being written, has no holes and room for what its root
  can take (`Allowed`); `TreeInvariant` shows that it is inductive. An append ends where the last
  extent of the root does (`NextLogical`), which is the end of the root only because
  there are no holes, and does not wrap because there is room. A directory with an extent of 0x8000
  blocks leaves this invariant with its first append: then its root is a leaf whose
  extents are in order by the code's lengths (`Overgrown`), unless it is no leaf and is refused every
  append (`Fixed`). What the code computes is
  then read off the tree, from the leaves up: `ResolveExtents` and `Descend` have a value
  per level (`LevelsExist`), so that the lowest level where one of them fails contradicts
  the equation there. `ResolvedTree`: what `resolve_extents` returns is exactly the leaves of
  the tree, in order, which needs that every node hangs from the root, and what a
  concatenation of sequences keeps (`FlattenGrows`, `InOrderGrows`). From it
  `ExtentsStaySorted` and, since at most one extent covers a block (`CoversOnce`),
  `ReadsExact`. `LookupsAlwaysAgree`: the binary search returns the number of entries that
  start at or before the block, and no other child can map it. `SearchesAlwaysComplete`:
  the blocks of the leaves are what a search goes through (`VisitedBlocks`), and where no
  extent has 0x8000 blocks the leaves are a chain from 0 (`ResolvedChain`), whose
  blocks, one after the other, are the map.
  `ImplementsBlockMap` maps `Rewrite`, `AppendExtent` and their refusals to the steps of
  `BlockMap`; that the blocks appended are mapped nowhere in the image (`Apart`) makes
  its initial states those of the map.

**Only model-checked.** `CallsEnd` and `WritesSucceed`: liveness under fairness needs `ENABLED`, which
these provers do not know. The runs that expect a violation are
counterexamples, and need no proof.

## What is not modelled, and why

* Torn single writes: a write of an inode, a block or a bitmap happens or not.
  The trait says nothing of sectors.
* What `fsck` makes of a disk after a crash that lost cached writes, and mounting
  such a disk without it, which the crate forbids.
* Damaged disks and unsupported features: images are clean, with initialised
  bitmaps (`BLOCK_UNINIT` is parsed and never looked at: in such groups the
  allocator would take noise for a bitmap), without META_BG, bigalloc, checksum
  tails or HTree directories. `mount` checks little of this.
* Sizes in bytes: files are whole blocks. `rec_len` has no upper bound; with
  blocks of 64 KiB the code's 16 bits make it 0 and `to_bytes` panics.
* Inodes that are neither file nor directory: `write_file` would give a symbolic
  link or a device extents.
* Modes, times and checksums of inodes, UUIDs, names and feature accessors of the
  superblock, the legacy block pointers of `inode.rs`: no call changes or uses them.
* Reads have no effect on the disk: they are operators (`ReadFile`, `Resolve`,
  `Lookup`), and their device errors end a call like any other.
* Messages, `Display`, `Debug`, and the re-exports of `lib.rs`.

## Plan

The modules planned are written, and every safety property that a passing run checks is
proved. What is left: `mount` of damaged superblocks, if the crate starts to check them.
