# OneSecond in TLA+

OneSecond (`src/README.md`) is an iOS game: a stopwatch runs, and the player has
to stop it on a whole second. Each hit is a point and an acorn, a miss ends the
streak, and acorns buy two power-ups: *ice* slows the stopwatch fifteen times,
*green* forgives misses. The repository carries its pods with it, and two of
them are core logic in source form: **LevelDB**, the database in which
Firebase keeps the shop's catalog on disk (`AppDelegate.swift:19` turns its
persistence on), and **nanopb**, which encodes and decodes protocol buffers.

This directory holds TLA+ modules of the app's own code and of these two
libraries, TLC configurations that check them on small instances, and TLAPS
proofs of the properties that matter most for every instance. `PROJECT.json`
lists the components, the runs, the mutants, the source lines each definition
stands for, the hazards, the findings and the theorems.

1. [The system](#1-the-system)
2. [The modules](#2-the-modules)
3. [The runs](#3-the-runs)
4. [Where the code departs from what it says](#4-where-the-code-departs-from-what-it-says)
5. [The proofs](#5-the-proofs)
6. [Not modelled](#6-not-modelled)

## 1. The system

### The app

`src/TheSeconds/TheSeconds/*.swift`, about a thousand lines.

| part | state | operations | talks to |
|---|---|---|---|
| **Game screen** `ViewController.swift` | the stopwatch (`milliseconds`, which counts hundredths), the label (`seconds`, `suffix`), the lap counter `count`, the timer and `isTimerRunning`, the streak (`score`, `best`), the power-up flag `greenActiveted`, copies of the counters | Start/Stop, Ice, Green, Shop, Best/Score (leaderboard), the timer blocks, `viewDidLoad`, `viewDidAppear` | run loop, circle, `UserDefaults`, GameKit, shop |
| **Shop** `ShopController.swift` | its own copies of the counters, the rows | a child arrives, a cell is tapped, back | `UserDefaults`, catalog service |
| **Catalog service** `APIService.swift` | none (an observer that is never removed) | one callback per Firebase child | Firebase |
| **Persistent counters** `UserDefaults` (Foundation) | the keys `bool`, `acorn`, `green`, `ice`, `best` | `set`, `integer`, `bool` | both screens, the disk |
| **Leaderboard** GameKit | the player's entry | `GKScore.report` | game screen |
| **Circle** `View/CircleProgress.swift` | a layer's animation, the track's colour | `start`, `pause`, three colours | game screen |
| **Container** `ContainerController.swift` | the iced overlay | shown, hidden | game screen |
| Progress bar, shop cell, app delegate | - | - | dead, stateless or empty; not modelled |

The app starts no thread of its own. Everything runs on the main thread, one
handler at a time, so a handler is one action. What interleaves is what the
main thread is given: fingers going down and up (several at once), the timer's
callbacks, screens that cover the game and go away, the children Firebase sends,
the answers of GameKit, the preferences daemon that puts writes on disk
behind the app's back, and the death of the process. What makes it hard:

* a stop judges the *label* (`ViewController.swift:197`), which is written by
  the timer's callbacks only, and rewound by nothing;
* the timer behind the handle `timer` is replaced by a freeze (111-115) and by
  a start (242, 271-280), and there is no flag that says which kind it is;
* `checkerCirlceProgress` is only ever *toggled*, in two places (143, 224-232);
* the power-up handlers do not look at their counters: buttons' flags set at
  the start of a round are all that keeps a counter from going negative;
* the game and the shop each keep copies of the counters and write the store
  from the copies;
* a purchase is two writes and the first launch's gift is four.

What has to be right: the game runs one timer and judges the time it really
shows; the streak reaches `best` and the store before it is zeroed; the screen
shows what runs; counters never go negative; a copy never takes back another
copy's write; the leaderboard never has more than was earned; and
wherever the process dies, the player is not
richer than he should be, nor is his account in a state it has never been in.

### LevelDB

`src/TheSeconds/Pods/leveldb-library/{db,table,util}`.

| part | state | operations | talks to |
|---|---|---|---|
| **Write path** `db_impl.cc` | queue of writers, `mem_`, `imm_`, `log_`, `bg_error_`, the manual compaction | `Write`, `CompactRange`, `MakeRoomForWrite`, `BuildBatchGroup`, the background call | log, memtable, versions; threads meet at `mutex_` and `bg_cv_` |
| **Log** `log_writer.cc`, `log_reader.cc` | offset in the block; the reader's buffer and resynchronisation | `AddRecord`, `ReadRecord`, `SkipToInitialBlock` | files of the log and the MANIFEST |
| **Memtable** `memtable.cc`, `skiplist.h`, `write_batch.cc` | links of the skip list, `max_height_` | batches, insert, `Get`, iterator | one writer, any number of readers without a lock |
| **Version edits** `version_edit.cc`, `coding.cc` | a record of the MANIFEST | setters, `EncodeTo`, `DecodeFrom` | `VersionSet` |
| **Versions and compaction** `version_set.cc`, `db_impl.cc` | tables of each level, `compact_pointer_`, seeks left, snapshots | flush, pick, expand, merge, trivial move, `Get` | tables, table cache |
| **Files and recovery** `db_impl.cc`, `version_set.cc`, `builder.cc`, `filename.cc` | what is on disk, what is synced, `pending_outputs_` | `NewDB`, `Recover`, `LogAndApply`, `DeleteObsoleteFiles` | file system |
| **Tables** `table*.cc`, `block*.cc`, `filter_block.cc`, `bloom.cc`, `comparator.cc`, `dbformat.cc` | blocks, index, filter, footer | build, open, look up | file, comparator |
| **Iterators** `block.cc`, `two_level_iterator.cc`, `merger.cc`, `db_iter.cc` | position, direction, saved key | `Seek`, `Next`, `Prev`, the ends | each other, from blocks to the user |
| **Table cache** `table_cache.cc`, `cache.cc` | entries, references, the LRU list | find, insert, release, evict | readers, `DeleteObsoleteFiles` |
| Repair, C binding, environment | - | - | offline, forwarding, I/O; not modelled |

What makes it hard: `mutex_` is given up around I/O, and what was read before is
used after it; one condition variable serves writers, flushes and manual
compactions; a memtable may be flushed in the middle of a merge; the process may
die, or the machine lose its power, between any two file operations; a read has
no lock, and relies on the order in which links and the sequence number are
published; an iterator may be turned round at any step. What has to be right: a
write is whole, ordered, reported truly and never lost beyond what `sync`
promises; a read returns the newest entry at its sequence number; every call
returns; the files of a live version exist; the database opens after any death.

### nanopb

`src/TheSeconds/Pods/nanopb`: streams and scalars, decoder and encoder driven by
descriptors, the field iterator. It is sequential; what is hard is that sender and
reader may have different descriptors, that a message may be cut at any
byte, that a submessage is encoded twice, and that the iterator keeps running
sums over a descriptor of distances. What has to be right: a message arrives
whole or is refused, a buffer of the size that was computed is enough, and
nothing is stored outside the struct.

The other pods (binary frameworks, Objective-C and Swift UI libraries) carry none
of the game's logic and are not modelled.

## 2. The modules

```
 the app        UserDefaults   Leaderboard        Wallet  (abstract account)
                     \   \        /                |
                      \   ViewController           |
                       \      |                    |
                   ShopController                  |
                        \     |                    |
                         +-- App ------------------+     App implements Wallet

 LevelDB        Commits <-------- WriteQueue             implements
                DurableStore <--- DBFiles                implements
                                  Compaction             GetIsLatest is its reference
                Cursor <--------- Block, TwoLevelIterator, Merger, DBIter, SkipList
                                                         each implements it
                Ordered (positions)    Comparator, FilterBlock -> Table
                SkipList -> MemTable   TableCache
                LogFile                VersionEdit

 nanopb         Wire -> Decoder -> Encoder -> Message    FieldIter
```

Modules named `MC...` give the constants of a run; modules named `...Proofs`
EXTEND the module they prove something about. `MCReads`, `MCFormats` and `MCPurse` hold
several components next to each other: a behaviour picks one of them as its
`subject`, and the others stay as they begin, so that one run checks each at its
own size without multiplying their states.

### The app

**`UserDefaults`** (external, from how the app uses it). `defaults` is what the
process reads and sees its own writes at once; `unsaved` are the queued writes,
each recorded as the whole store it leads to; `disk` follows in order
(`Synchronize`). The app never calls `synchronize()`. `Reopen` is the next
process: what was queued is lost.

**`Leaderboard`** (external). `Report` is the call in `checkBestScore`
(389-399); an answer may be success or failure, in any order, and the handler
only prints.

**`ViewController`**: the game screen; one action per handler.

| action | code |
|---|---|
| `TouchDown`, `TouchCancelled`, `Lifted`, `StillHeld` | UIKit: every button's action is `touchUpInside` in `Main.storyboard` |
| `Hittable` | `showHideButtons` 169-173 and the `isUserInteractionEnabled` flags |
| `Tick` | the timer blocks 112-114 and 271-279 with `incrementMiliseconds`, `display` |
| `StartTapped`, `StopTapped` | `buttonTapped` 234-282, with `checkCirlceProgress`, `timerStops` 185-222 |
| `IceTapped`, `GreenTapped` | 108-122, 123-129 |
| `ShopTapped`, `ShopTappedInRound` | `buttonShop` 139-145 and the segue |
| `GameCenterTapped`, `AuthenticateHandler`, `CoverDismissed` | 401-407, 366-387, 409-411 and the shop's back button |
| `ViewDidLoad`, `ViewDidAppear` | 157-167 with `setupUserDefaultSetLabel` 330-363 |
| `ShopWrites` | what this module assumes of the shop: the acorns and one power-up counter, none below zero; `ShopKeepsItsPart` says that the real shop does no more |

A touch is two steps, because UIKit picks the button when the finger goes down
and runs its action when the finger is lifted; in between another finger may end
the round and hide or disable the button. UIKit's documentation does not say
whether such a finger's release is still delivered. The constant
`LateTouches` is this choice: with `TRUE` it is delivered, with `FALSE` it is
not. Properties that hold either way are checked and proved with late touches;
the two that need `FALSE` (`TimerOnlyInRound`, `LapsMatchClock`) say so. A
screen that comes in front is presented modally and full-screen, as iOS 10 does
for a `show` segue without a navigation controller, and cancels every touch; on
its dismissal `viewDidAppear` runs.

Left out of this module: `powerStatus`, `isTimerRunningIce` and
`timeIntervalIce` (written, never read; `timeIntervalIce` is never scheduled),
titles, sounds and shadows, and the force-unwraps of outlets. The iced overlay
is `overlayHidden`, the log's rotation `wood`. A hit writes `best` as it stands
(202), which the store already has, so it is one write with the acorn.

**`ShopController`**: `PowerUpAdded` is the callback of `observePowerUps`
(`ShopController.swift:47-60`), with Swift 4.0's `sorted(by:)` of fewer than
twenty elements (insertion sort) given the comparison in the source, which reads
`p1.tier` twice; `DidSelect` is `didSelectItemAt` (147-165), two writes. A
power-up is a key and a tier.

**`App`**: both screens over one store. `OpenShop` and `OpenShopInRound` add
`prepare(for:sender:)` (149-156) to the shop button; `InShop` replaces
`ShopWrites` by the real shop; `Relaunch` is a process killed between any two
handlers and launched on what had reached the disk. The storyboard lists the
button's action before its segue; `PrepareFirst` is the other order. `income` is
a history variable.

**`Wallet`**: the abstract specification. One account, a trail of the states a
death may take it back to, and five things that can happen to it: the gift, an
acorn earned, a power-up used, a power-up bought for `Cost` acorns (the shop's
`Price`), a death. `App` implements it under the mapping

    owned  <- the counters in defaults
    trail  <- the counters in <<disk>> \o unsaved
    income <- income

so that neither controller's copies are part of what is promised. `AppProofs` proves it.

### LevelDB

**`Commits`** is the abstract write: a queue of calls, resolved from its
front, each whole or not at all. **`WriteQueue`** implements it (`KeepsPromise`, proved in `WriteQueueProofs`).
`mutex` is explicit; what the code does between two unlocks is one step. `Write`
is a call that queues itself (`db_impl.cc:1202-1211`); `Woken`, `Relock` and the three
`...Wait` places of `pc` are the condition variables, spurious wake-ups included;
`YieldError`, `Sleep`, `WaitForBackground`, `SwitchMemTable` are the branches of
`MakeRoomForWrite`; `StartGroup` is `BuildBatchGroup`; `AddRecord`, `Sync`,
`InsertInto`, `EndGroup` are the group's commit without and with the lock;
`TakeSlot`, `AwaitCompaction`, `LeaveRange` are `TEST_CompactRange`; `BackgroundCall`,
`MergeYields` (a flush in the middle of a merge), `TableWritten`, `MemTableCompacted`,
`MergeDone` are the background thread. An operation is its call and its index. The
mapping to `Commits` takes as the writes in effect those at or below `last_sequence`, in
its order, and as a call's outcome the status it is handed.

**`DurableStore`** is the abstract promise on crashes (`options.h:181-200`):
writes survive the process, synced ones survive the machine. It loses writes only in a step that uses up one of its
`cuts`, which are those `DBFiles` has left: only `PowerCut` takes one. **`DBFiles`**
implements it (`KeepsWrites`, proved in `DBFilesProofs`). A file is a sequence of
records with a synced prefix; `dir` is the directory as the process sees it, and
`dirs` are those a power cut may leave: the one that was last synced, and what each
operation since has made of it. A cut takes any of them, with any amount between
the synced and the written records of each file. `NewDB`, `FindDB`, `Recover`, `RecoverLogFile`, `OpenNewLog` are an open; `ApplyAppend`,
`ApplySync`, `ApplyCurrent`, `ApplyFails` are `LogAndApply`, which gives the lock up;
`FlushStart`/`FlushBuilt` and `MergeStart`/`MergeBuilt` write tables, `DeleteObsoleteFile` removes
what nobody needs, one file at a time. The store's data is what a process that starts now
would find, so each of these steps, a death of the process included, has to be a stutter. A MANIFEST may fail at
its record, its sync or, for a new one, at `SetCurrentFile`. `NewDB` does not sync what it writes,
so the directory and the first MANIFEST may be lost apart from each other: `DescriptorLost`.

**`Compaction`** keeps entries in tables in levels. `Write`, `SwitchMemTable`,
`GetSnapshot`, `ReleaseSnapshot` and `Charge` (a read that uses up a table's seeks)
are the callers; `CompactMemTable`, `BackgroundCompaction` with `PickCompaction`, `SetupOtherInputs`,
`IsTrivialMove`, `DoCompactionWork` and `InstallCompactionResults`, and `StartManual`, are the
background thread, which starts a merge in one step and installs it in another.
`Get` searches as the code does, and `GetIsLatest` compares it with all that was
ever written. Iteration over sorted data (`std::set`, `std::sort`, the memtable) is `InOrder`; the
binary search, the closure of a range on level 0 and the work on each entry are recursive functions.
`CompactionProofs` proves what the levels promise.

**`LogFile`** writes and reads the log byte for byte (a header has one byte for each
of its fields): records are cut into fragments, a process dies in the middle of a
fragment, a file system leaves zeros, a byte is damaged, an append fails, a
new process continues the file (`Reuse`), a reader starts at an offset.
**`VersionEdit`** does the same for a record of the MANIFEST.

**`Cursor`** is the abstract iterator: a source, a position, and the one key
each call moves to. `Block` (prefix compression, restart points), `TwoLevelIterator`,
`Merger`, `DBIter` and the skip list's iterator each implement it under a mapping
of their own: over a block's keys, over the readable blocks, over the union of the
children, over the keys with a visible value. `Table` builds a table under failing
writes and looks keys up through `Comparator` (separators between blocks) and
`FilterBlock`.

**`SkipList`** links a node level by level, while a reader searches, one load per
step, from any `max_height_` there has been. **`MemTable`** adds the batches and the
sequence number that publishes them. **`TableCache`** has the cache's operations, each
under its lock, and the threads that use them with none in
between, so that a table may be opened twice and be evicted while it is read. An entry is
known by its memory, and `malloc` may return any that is free. `TableCacheProofs` proves what the cache
promises.

### nanopb

**`Wire`** has the streams, varints, zigzag, fixed-width integers and tags;
**`Decoder`** and **`Encoder`** have `pb_decode` and `pb_encode` over descriptors (scalars, strings,
bytes, arrays packed and not, submessages, unions, callbacks, extensions,
defaults), as they are built here (no malloc, so no pointer fields). **`Message`**
sends messages through them: into buffers that are just large enough or one byte
short, delimited or not, cut at any byte, to readers that know fewer, more,
narrower or reordered fields. What a reader must make of that is stated over
values (`Expected`, `Accepted`), never over bytes. **`FieldIter`** walks descriptors of
structs and is compared with where the members are.

## 3. The runs

Each property is preceded in its module by what it says and the lines it is
about. For each property of each passing run, `PROJECT.json` names a mutant: a
plausible bug in one definition, under which TLC finds that property violated.

| run | instance | properties | shows |
|---|---|---|---|
| `late` | second of 2 ticks, up to 3 ticks, two fingers, streak up to 2, late touches, three initial stores; 1.1 million states | `OneTimer`, `HitsAreReal`, `CheckerInStep`, `ViewsFollowTimer`, `NoOverdraft`, `CountersMirrored`, `BoardIsEarned`, `StreakIsRecorded` | stopwatch, streak, counters, board and views survive every interleaving of two fingers, ticks, screens, a shop that writes and GameKit's answers |
| `round` | `FairSpec`, second of 3 ticks, up to 6, two fingers, no late touches | `TimerOnlyInRound`, `LapsMatchClock`, `TargetIsReached` | what holds in addition if hidden buttons lose their fingers; a round left alone reaches a scoring time |
| `purse` | five children, two without a tier, purses of 0, 5 and 14 acorns at the real price of 5; beside it the account, income up to 9, trail up to 5 | `CopiesInStep`, `NothingForFree`, `NothingMinted` | purchases while the list arrives and the disk is behind; no death makes the account richer |
| `app` | two rows, price 2, two fingers, late touches, deaths anywhere | `KeepsOneWallet`, `ShopMirrorsStore`, `ShopKeepsItsPart` | `App` implements `Wallet`; what `ViewController` assumes of shops is discharged |
| `commit` | three threads, one call each, unsynced, synced and too big to join; one failure each of append, sync, file and merge; a spurious wake-up | `OutcomeIsTrue`, `LogMatchesMemory`, `KeepsPromise` | group commit implements `Commits`: whole, in queue order, reported truly, numbered alike in log and memtable |
| `stall` | two threads, two calls each, writes and `CompactRange`; every write fills a memtable, level 0 stops at one table, a flush may fail | `LogsCoverMemory`, `EveryCallReturns` | no signal is lost and nobody waits for ever; no log is given up before its memtable is in a table |
| `files` | an empty directory or a database; one or two writes; one or two power cuts, or one or two deaths, or a failing MANIFEST record, with a flush and a merge, and an iterator over an old version | `OpenSucceeds`, `FilesMatchMemory`, `KeepsWrites` | after any death, that of its creation included, the database opens again with what was promised and no live file missing, but for the one case of run `creation`; nothing but a power cut loses a write |
| `creation` | one power cut, one write | `CurrentHasDescriptor` | **violated**, see section 4 |
| `compaction` | two keys or one, four levels, up to 4 entries, up to 2 snapshots; four uses of a database (`SomeUses`) | `LevelsAreOrdered`, `GetIsLatest`, `CompactionsEnd` | every `Get`, now and at a snapshot, is right through flushes, merges, trivial moves, seeks and manual compactions, which come to an end |
| `boundary` | tables of one entry and a snapshot | `GetIsLatest` | **violated**, see section 4 |
| `reads` | nine subjects, see below | `Inv`, `IsCursor`, `AllAreCursors`, `NothingHidden`, `ReadsFindNewest`, `TablesAreWhole`, `CacheIsSound` | every layer of a read is what the layer above relies on |
| `formats` | four subjects, see below | `WrittenIsRead`, `TornTailIsQuiet`, `MessagesAreDelivered`, `LayoutIsFollowed` | what was written is read back; a record torn by a crash is neither returned nor reported; no part of a field passes for one, though a message cut between two fields passes for a shorter one; what does not fit a buffer is refused |

The subjects of `reads`: the *merger* (three children over four keys; `Inv`, `IsCursor`); a
*block* (all sets of the strings of up to two letters, restart intervals 1 to 3, one broken
entry); the *two levels* (four keys in up to three blocks, some unreadable); the *user*'s
iterator (three keys, four writes, any subset kept by compactions, any snapshot) and the same
with *corrupt* keys (two keys, three writes); a *table* (three users, two versions, blocks and
filters of a few units, every write and read failing or not); the memtable *getting* (groups of
batches and a `Get` in between) and *iterating* (nodes of height two under a walking reader); the *cache* (two
threads, three files, capacities 0 to 2). Those of `formats`: the *log* (three records, blocks of
8 bytes behind a header of 3, one mishap, five offsets to start at); the *edit* (two setters, numbers of one
and two bytes, cut at every byte); the *message* (five senders with their readers, up to two
messages); the *struct* (all descriptors of up to three of twelve kinds of members).

Each module's type invariant (`TypeOK`, `ShopTypeOK`, `WalletTypeOK`) and `ShieldIsVisible` are
not among the runs' properties; those of the app and of `Merger` are proved (`Merger`'s as a part of `Inv`).

### Bounds, and why they are enough

*The app.* The second is 2 or 3 ticks instead of 100: the code compares only
`suffix = 0`, `seconds >= 1` and `count == 101`, so a second needs a tick on it and
one off it, and `MaxMilliseconds` lets a whole second and what follows it happen (two of them and
the lap's restart in `round`). Two fingers are what it takes for one to change the button under the
other. A streak of 2 passes both thresholds in the code (`score <= 1`, `score > best`). Counters of
0 to 2 contain the last one, the empty one and a purchase that just fails. The initial stores are
a new installation, one whose first gift was cut after its first write, and a later launch.
`MaxUnsaved` and `MaxReports` say with how many writes and reports outstanding the player goes
on; with 0 the disk is not under test, but a handler may still send several at once. `MaxIncome`
bounds how much is earned across deaths. These bounds are conjuncts of guards and stop the
environment (the player, GameKit), never the code's reaction to it.

*Write queue.* Three threads are what a group with a leader, a follower and one left out
needs; `SmallBatch` and `MaxBatch` of 1 and 2 operations make every rule of `BuildBatchGroup` apply.
A memtable of one operation, or none, and a stop trigger of one or two tables bring every wait about within two
calls. Each failure happens at most once: `bg_error_` is never cleared, so what comes after
the first is in the model, and a second one changes nothing.

*Files.* A write before and one after a switch of logs are what recovery distinguishes. The
budgets (`SomeBudgets`) are five combinations of rare events, since a database that dies does not
also need an iterator: each is exhausted at every moment there is, and each starts from an empty directory and from a
database. The fifth is two power cuts, the second of them on what the first left of a creation.

*Compaction.* Four levels instead of seven keep one level that flushes skip to, one they do not, and
one with grandparents. Limits of a few entries make tables of one entry overflow; the opposite, all versions of a
key in one table, is a use of its own. The key and target sizes of a use say which it is.

*Reads and formats.* Blocks, strings and numbers are the smallest that have a case on each side of every
comparison: a record that ends in a block, fills it, leaves room for a header only, or less; a varint of
one byte and of more whose last byte is not full; a filter that covers several blocks and a block that
covers several filters; two keys with one Bloom hash in part.

Deadlock is checked in `late`, `round` and `app`. The other instances really stop: all the calls
have returned, the list is complete, the reader is at the end, the bound on writes is reached.

### Fairness

`FairSpec` (`round`) asks that a scheduled timer keeps firing (a property of the run loop), that UIKit
finishes a transition it began, and that the preferences daemon keeps writing. Nothing is asked of
the player, and `TargetIsReached` needs none: if he stops the round, the round is over.

`Fair` (`stall`) asks that the background thread and every thread in a call that can take a step takes one:
weak fairness of the scheduler and of the mutex. No thread is asked to call anything and no wake-up is assumed
but those the code sends. `CompactionsEnd` is liveness turned into a bound: a compaction that moves
no entry down for good exceeds it.

## 4. Where the code departs from what it says

### Found by a run

**`creation`** (`db_impl.cc:196`). `db_impl.cc:277-278`: "the creation of the DB is committed only when
the descriptor is created". `NewDB` closes the first MANIFEST without a sync (194-199) and
then has `SetCurrentFile` write and rename CURRENT. The trace is: `NewDB`, the rename of CURRENT, a power cut
that keeps the directory and none of the file: CURRENT names a MANIFEST without a record. `Recover` reports a corruption
("no meta-nextfile entry in descriptor", `version_set.cc:987-994`) at this and every later open, since
`NewDB` runs only where there is no CURRENT. Run `files` has these cuts too: `OpenSucceeds` says that
this is the only way not to open, and `KeepsWrites` that no write was acknowledged with sync by then.

**`boundary`** (`version_set.cc:1345`). `version_set.cc:346-348`: "We can search level-by-level since
entries never hop across levels. Therefore we are guaranteed that if we find data in an smaller
level, later levels are irrelevant." A snapshot keeps two versions of a key; `DoCompactionWork` ends a
table between them (`db_impl.cc:997-1005`); neither `PickCompaction` nor `SetupOtherInputs` looks for the rest of
the key on the same level, so the table with the newer version is moved down alone, and `Get` finds the
older one first. Section 5 has the converse: as long as no compaction does this, every `Get` is right.

### Known to the models, without a run of their own

Each of these is in the model, and the properties of the runs leave it out by a constant or a condition
that names it. The last column says what shows it. Paths are those of the two libraries.

| where | what a comment or the code says | what the code does | to see it |
|---|---|---|---|
| `ViewController.swift:197` | "the player has to stop the timer at one second" (`src/README.md:9`) | after a hit the label still shows the second that was hit; start and stop before the first tick of the new timer (10 ms) score again | `ViewController`, `PointsNeedATick` |
| `ShopController.swift:52` | `sorted(by: { p1, p2 in ... })`, a comparison of tiers by its look | `p1.tier` is compared with itself: the rows stay in order of arrival, and a child without a tier goes in front of them | `ShopController`, `Precedes` |
| `db_impl.cc:463` | an acknowledged write is not lost when the process dies (`options.h:193-196`) | with `reuse_logs`, the new process appends behind a record the dead one left in part, and the reader gives up the rest of that block | `LogFile`, `AcknowledgedIsRead` without `sound`, no failures |
| `log_writer.cc:107` | the same | `block_offset_` advances though the append failed, which sets no `bg_error_`; later records are acknowledged at offsets that are not the file's | the same, with a failed append |
| `log_reader.cc:87` | "a run of kMiddleType and kLastType records can be silently skipped" (`log_reader.h:76-78`) | a fragment before the offset ends the resynchronisation, and the next one is reported as a corruption | `SeekIsQuiet` |
| `db_impl.cc:1294` | "compact even if there is room?" (`db_impl.h:101`) | a NULL batch that joins a group returns OK without the memtable having been switched | `WriteQueue`, `ForcedSwitch`, writes and `CompactRange` |
| `db_impl.cc:616` | "Cancel my manual compaction since we aborted early for some reason" | when a failed sync cancels it during its merge, the background thread dereferences NULL (757-761) | `WriteQueue`, `CancelIsSafe`, with `"sync"` in `Failures` and `CompactRange` |
| `version_set.cc:765` | "Must not overlap" | a manual compaction of two tables with a gap, and a memtable flushed in the middle: the new table goes to the output level, into the range of the one being merged | `Compaction`, `LevelsAreDisjoint`, a use with `manual` and `yields` |
| `version_set.cc:868` | `LogAndApply` makes a version "that is both saved to persistent state and installed" (`version_set.h:172-175`) | when a flush in the middle of a merge fails to append, the merge appends behind the torn record and installs what `Recover` takes for a corruption | `DBFiles`, `InstalledIsSaved`, `failures` 1, `switches` 2, `merges` 1 |
| `env_posix.cc:278` | "Ensure new files referred to by the manifest are in the filesystem." | the record may reach the disk before the directory does, on a file system where syncing a file does not save its name | `DBFiles`, `OpenSucceeds`, `FsyncLinks = FALSE` |
| `merger.cc:72` | a key present in K children "will be yielded K times" (`merger.h:17-18`) | a walk that turns round at such a key yields one copy only (LevelDB's internal keys are unique, so it does not show there) | `Merger`, `EveryCopy`, `Duplicates = TRUE` |
| `pb_decode.c:192` | `pb_decode_varint32` "works for bool, enum, int32, and uint32" (`pb_decode.h:129-130`) | a negative int32 is encoded in 64 bits, and refused: "varint overflow" (`pb_decode` itself reads it in 64) | read from `Wire` |
| `pb_decode.c:258` | `pb_decode_tag` "At end of the message, returns false and sets eof to true" (`pb_decode.h:118-119`) | also in the middle of a tag of several bytes, after which `pb_decode` returns true; `WholeFieldsOnly` promises whole fields, not that the cut is noticed | `Message`, `rx.ok` with `cut` |
| `pb_encode.c:248` | proto3 fields are encoded if "non-zero" (203-204) | of a static array the first item is looked at, so a submessage with the array [0, 5] is not encoded | `Message`, a singular submessage with an array |
| `pb_decode.c:947` | "Check that all required fields were present." (919) | with a multiple of 32 required fields `allbits` is shifted by 32, which is undefined; arm64 and x86-64 shift by 0, and the message is refused | `Message`, `WordBits` required fields |

Two properties rest on an order the storyboard fixes: with `PrepareFirst = TRUE` (the segue before the
button's action) `ShopMirrorsStore` and `KeepsOneWallet` fail, an acorn earned by the stop that opens the shop is
overwritten; even then nothing is minted.

## 5. The proofs

TLAPS checks the following for every value of the constants that satisfies the
`ASSUME`s. Each specification with its own proofs has a module
`...Proofs` that EXTENDS it; `AppProofs` has those of `ViewController` and of `App`.

* `AppProofs`, its first part, of the game screen alone (`Spec`): `TypeCorrect` and eleven safety
  theorems. Three inductive invariants, one for each concern:
  * `RoundInv`, for `OneTimer`, `HitsAreReal`, `CheckerInStep`, `ViewsFollowTimer`,
    `ShieldIsVisible`. It adds that fingers are down on the game screen
    only while it is in front, and that no timer runs before the screen has
    loaded; without them a handler could be run from a state in which its
    flags mean nothing.
  * `WalletInv`, for `NoOverdraft`, `CountersMirrored`, `StreakIsRecorded`. It adds `Solvent`
    (every store that is read, queued or on disk has counters in `Nat`), `CopiesInStep` (the
    copies agree with the store, except behind a shop and until the game has
    come back from it, and no round goes on there), and the chain that makes the
    handlers' unchecked decrements safe: a power-up that is offered is owned
    (`OfferedIsOwned`), and a finger that is still down on a power-up implies
    that it is owned (`TouchedIsOwned`), which is what makes `NoOverdraft` hold
    even with late touches. `BoardIsEarned` follows from it together with `best` never dropping.
  * `StrictInv`, under `~LateTouches`, for `TimerOnlyInRound` and `LapsMatchClock`: a
    finger that is down is on a button that can still be hit, and a stopwatch
    that is not running stands on a whole second (what a hit leaves) or at zero
    (what a miss leaves), so the lap counter that starts at 0 agrees with it.

  It begins with lemmas on the preferences: what one, two or four writes, a
  synchronisation and a step that writes nothing do to the store and its queue.
* `ShopControllerProofs`: `ShopTypeCorrect`, `CopiesInStepSafe`, `NothingForFreeSafe`. The copies
  are natural numbers only because the store's counters are and the two
  agree, so `ShopInv` takes all of them together.
* `WalletProofs`: `WalletTypeCorrect`, `NothingMintedSafe`. `SoundTrail` says of every state on the
  trail that it is covered by the income even *once its gift is complete*: a
  death in the middle of the gift is followed by the rest of it. The lemma
  `GiftResumes` is the reason: wherever the gift stops, completing it leads
  to the same account.
* `MergerProofs`: `AlwaysLined` (`Inv` always holds) and `MergerIsCursor`, the refinement: for any
  number of children over any keys, of which none is held twice, the merging
  iterator is one iterator over their union. `Inv` is inductive because of `Lined`:
  while the iterator goes forward, every other child is at its first key past the current
  one; while it goes backward, at its last key before it. A call that turns
  the direction has to repair exactly this for all the others. Every call leaves
  the children at the first of their keys in an upward closed part of the order or at
  the last in a downward closed one; lemmas `Forward` and `Backward` say what `FindSmallest` and
  `FindLargest` make of such positions, and each action is an instance of one of them.
* `AppProofs`, its second part, of both screens over one store (`AppSpec`), with any catalog, any prices and a process that dies at any
  moment. The steps of `App` are steps of the game screen, with the purchases of the real shop in the place of `ShopWrites`,
  or a relaunch, after which everything is as after some first launch (`FoundStore` holds of every
  store that can be on disk). So the invariants above carry over as `GameInv`; `AppInv` adds that the controller knows
  whether the gift was given (`GiftKnown`) and that the shop is entered after the gift, with copies that agree
  with the store (`ShopInv`). From `AppInv` follow
  * `ShopMirrorsStoreSafe` and `ShopKeepsItsPartSafe`: each screen keeps what the proofs about the other assume of it;
  * `GameIsSafeInApp`: what is proved of the game screen alone holds in the app;
  * `KeepsOneWalletSafe`, the refinement: each handler becomes one thing that happens to an account or none,
    although it writes the store one key at a time. The trail of a step with several writes, which the mapping
    reads off `<<disk>> \o unsaved`, is computed by lemmas on what `Save` appends;
  * `NothingMintedInApp`: `NothingMinted` of `Wallet`, through the refinement.

  All five have the hypothesis `OrderlyShop`: the storyboard's order, a button's action before its segue, or else no
  late touches. It is satisfied by the code (`PrepareFirst = FALSE`); the other order is there to show what
  the code rests on, and with both the theorems are false (section 4).
* `WriteQueueProofs`, for any number of threads, writes, tables and failures. The inductive invariant
  `WriteInv` has four parts:
  * `LogInv`, for `LogsCoverMemorySafe`. `CompactMemTable` gives the lock up while the table is written
    and reads `logfile_number_` again afterwards. This is safe because at most one memtable is on its
    way to a table, and it is that of the log before the current one: `MakeRoomForWrite` waits
    while `imm_` is there, so the number cannot have moved in between.
  * `QueueInv`, for `OneLeaderSafe` and `NobodyForgottenSafe`. Whoever is past its wait is
    the head of the queue; the group a head writes for is a front part of the queue; a
    thread that waits and was not answered is in the queue. So one thread at a time uses
    `log_`, `mem_` and `tmp_batch_`, which `Write` relies on when it gives the lock up,
    and popping the group reaches everyone in it and leaves the others in the queue. `BuildBatchGroup`
    is not computed here: lemma `GroupExists` shows, by the well-foundedness of the naturals, that
    the queue has a longest front part that fits.
  * `CallInv`: who is in the queue is there once and has not been answered, and a call is known by its thread and
    number, so that no two calls share an operation.
  * `DataInv`, for `LogMatchesMemorySafe` and `OutcomeIsTrueSafe`. It says of the group at work how
    far it has come: its numbers begin behind `last_sequence`; its operations are those of its members
    and of nobody else; what has been inserted is a front part of them, above `last_sequence`, so that no reader sees it; from
    `AddRecord` on a record of the log has the same operations and the same first number, and from `Sync` on it is synced if
    any member asked for that (the leader asks whenever a member does, which is why `BuildBatchGroup` stops
    at a sync write behind one that is not, `db_impl.cc:1290`). `NothingEarly` says that a call that is still open has
    nothing in memory but that, which makes an error true.

  `KeepsPromiseSafe` is the refinement of `Commits`. It needs two invariants more: the group's operations are
  the members' in the queue's order (`GroupIsJoined`), and an answer is "ok" or "error" (`StatusIsGiven`). A `Write` is
  a `Call` and a return a `Return`; `EndGroup`, the step that moves `last_sequence`, resolves the whole group at once, and
  so does a call that is answered on its own (an error of the room or of the new log, a NULL batch); every other step
  of a thread or of the background thread is a stutter. What
  `EffectiveIds` makes of the entries before and after is shown by writing the group's operations as pieces, one for each member
  (`GroupIsNumbered`, `GroupTakesEffect`): the identities up to the new number are those up to the old
  one followed by the members' in order. `TypeOKSafe` adds who holds the mutex (`MutexInv`).
* `DBFilesProofs`, for any number of writes, deaths, power cuts, flushes, compactions of tables and iterators:
  `OpenSucceedsSafe`, `FilesMatchMemorySafe`, `FilesTypeOKSafe`, and `KeepsWritesSafe`, the refinement of
  `DurableStore`. The inductive invariant `FilesInv` is `(DBInv /\ Creation) \/ Lost`. `Creation` is about what nobody syncs,
  the first MANIFEST: it has one record at most, no process writes to it again, and where a power cut can still take it, no
  write was acknowledged with sync, because an open database has a MANIFEST of its own, which is synced with the directory before
  CURRENT names it. `Lost` is what a power cut may make of that: CURRENT
  names it and it is empty; nothing was acknowledged, and all a process can do is to find that out, again and again
  (`LostStays`). `DBInv` is about everything else and says
  * `SoundFiles`: not only the files as the process sees them are sound, but whatever a power cut may leave of
    them. For each directory of `dirs`, the MANIFEST it points to is there, and each number of records
    that a cut may leave of that MANIFEST is a version (`SoundVersion`) whose tables are there and whole, whose
    tables and logs hold every acknowledged write within their synced prefixes, and hold nothing that a process which
    starts now without a crash would not find. The last clause is what keeps the tables and logs of old versions from bringing writes
    back; a log that was deleted here but not on disk is below the log number of any such version.
  * `PhaseInv`: where the process is. While it replays logs, the tables it made hold what these logs held
    (`Replaying`); the new MANIFEST holds a snapshot and the edit, and is synced with the directory before CURRENT
    names it (`Opening`); while it runs, files of versions in use are there, the last version of the MANIFEST is the one in memory between
    two edits, each memtable is what its log holds (`Running`, `Working`), and during a `LogAndApply` the edit's table holds the memtable, or what the
    merge's inputs hold, and is linked in every directory that may be left (`Applying`).
  * `Apart`, which carries the second hypothesis below; types (`IsOS`, `Process`) and counts (`Counted`: no two writes
    have one sequence number).

  Each action has a lemma `...IsFine`: it keeps `DBInv` and leaves what a reopen finds `Unchanged`, or one write larger
  (`Grows`); only a power cut makes it smaller (`PowerCutIsSafe`), by writes that were not acknowledged with sync. These are the
  steps of `DurableStore`. What a MANIFEST says after each
  of its records is the recursive function `Versions`; its defining equation and what one more record makes of it are proved
  from the well-foundedness of the naturals (`Induction`, `Recursion`), and so is that a cut of the file leaves
  the versions before it.

  The theorems have two hypotheses, and the last table of section 4 shows that both are needed. `FsyncLinks` is the
  file system's: syncing a file makes its name durable. (Without it and with power cuts, row `env_posix.cc:278`.) `NotTogether` says
  that a run does not have a failing MANIFEST record, a flush and a compaction of tables, all three (row
  `version_set.cc:868`); any two of them, any number of times, are covered. A database that is created, and
  its creation cut short any number of times, is covered.

* `CompactionProofs`, for any set of keys, number of levels, limits on sizes, writes, snapshots and compactions:
  `LevelsAreOrderedSafe`, `GetIsLatestSafe`, `TypeOKSafe`, and `OrderedWithoutSnapshots`, `LatestWithoutSnapshots`.
  The inductive invariant `LevelsInv` sees the levels as sets of tables (`Sets`) and says
  * `Fine`: no key is in the ranges of two tables of a level but the first; memtables are newer, key by key, than tables, a
    level than the deeper ones, and on level 0 the table with the higher number;
  * `Shows`: at the smallest snapshot and later, what the newest entry of a key says is what the newest one ever
    written says. This is weaker than "no entry is lost", which compactions break on purpose, and stronger than
    `GetIsLatest`, which speaks of the snapshots there are and not of those to come;
  * `Merging`: installing the compaction under way, which was computed from an earlier version, leads to a
    version that is `Good` again. It is kept by a flush that comes in between, because the table that is flushed
    stays clear of the ranges of the outputs: these are covered by the inputs (`Covered`), and `PickLevelForMemTableOutput` does
    not go past a table it overlaps;
  * `Listed`, `Counted`, `Charged`: lists in order, sequence numbers and file numbers that are used once, a table out of
    seeks that exists.

  The lemmas are about the algorithms, each for inputs of any length: `InOrder` lists a set (`RanksList`); `FindFile` finds the first
  table whose end is not before the target (`FindFileIsFirst`, by an induction on halvings); on level 0 `GetOverlappingInputs` reaches
  a range no other table touches, since each round that changes it takes in a table more (`ReachedIsClosed`), and all of that range is
  covered (`ReachedIsCovered`); inputs that `PickCompaction` and `SetupOtherInputs` choose are `Sound`, so that they may
  leave their levels (`PickIsSound`, `MergeIsFine`); the outputs of `DoCompactionWork` are the entries it keeps, in order, cut
  anywhere (`OutputsAreParts`); what it drops is hidden by an entry that every snapshot sees, or is a deletion with
  nothing below (`DroppedIsForgotten`), which no reader can tell (`MergeShows`); and the first table `Searched` hits has the newest
  entry (`SearchedInTurn`, `LookupIsNewest`).

  The hypotheses are those of section 4. `ManualIsAlone`: a database on which `CompactRange` is called is not written to so
  fast that a memtable fills up during a compaction (row `version_set.cc:765`). `[]KeysAreWhole`: no compaction splits the versions of
  a key over two outputs (run `boundary`). The second is a condition on the behaviour, not on a constant, so it is
  also discharged where the code guarantees it: without snapshots a compaction keeps one version of a key (`KeptOnce`), and
  the last two theorems hold of every behaviour. All uses of run `compaction` satisfy both.

* `TableCacheProofs`: `CacheIsSoundSafe`, for any number of threads, files and entries and any capacity. The inductive
  invariant `CacheInv` says that the cache is `Sound` for the handles that are out: with n[e] the number of threads that hold
  entry e (`HoldCount`), a reference count is n[e] and one more if the cache keeps the entry (`Counted`); `lru_` has, once
  each, the entries that only the cache keeps, and `in_use_` the others it keeps (`Listed`); the table leads to entries of the keys it
  is asked for (`Tabled`); `usage_` counts the table. What a thread holds is an entry of the file it asked for
  (`HeldIn`). The operations come first, for any n: `RefSound`, `UnrefSound`, `EraseSound` and `InsertSound` say that each
  leads from a sound cache to one that is sound for one handle more, one less, or as many. The loop at the end of `Insert` is a
  recursive function of the turns; that it stops with the usage within the capacity or with `lru_` empty
  (`EvictedSound`) is shown on the first turn that would not, by the well-foundedness of the naturals. From there:
  * a count of zero cannot be reached while a thread holds the entry, so a held table is open; and an entry that is in memory has a
    count above zero, so it is held or cached;
  * when `lru_` is empty each table in the cache is held by a thread, and no two by the same one, which bounds the usage by
    the number of threads (`CapacityKept`, a surjection);
  * when a file is deleted no thread has it in hand, so the entry that `Evict` takes from the table is closed at once, and
    so is one that was replaced while it was held and given back since (`EvictStep`);
  * when the cache is deleted, no handle is out, so every entry is in `lru_`, which is all that `~LRUCache` walks (`ReopenStep`).

Assumptions on constants: `Second > 0`; gifts, prices and bounds are natural
numbers; a budget says of each rare event how often it may happen, up to the number of writes; the stores found at a launch have no negative counter; a tier is a natural number or none; the keys of a merger are integers other
than `None`, and any non-empty set of them has a first and a last; the keys of `Compaction` are natural numbers, there
are at least two levels, and limits and target sizes are positive; threads and files are finitely many, capacities are natural
numbers, and no entry is at the address NULL; `"free"` and `"background"`, which say who else may hold the mutex, are not threads. No other
assumption is made; in particular nothing is assumed about the number of
fingers, the length of rounds, the catalog's length and order or the number of children.

Only model-checked:

* liveness: `TargetIsReached`, `EveryCallReturns`;
* how many compactions there are: `CompactionsEnd` needs a sum over all entries of how deep they are;
* LevelDB's tables, blocks and memtable, the iterators but the merging one, and nanopb. Most of these modules have
  recursive operators, for which the prover loses its arithmetic.

## 6. Not modelled

*The app.* `ProgressBar.swift` (not in the Xcode target; it names colours that do not exist),
`ShopTableViewCell.swift` and `AppDelegate.swift` (no state), layout. The `power-ups` data in Firebase
is not in the repository. The repository does not build as it stands: the project refers to a
missing `UIViewExtensions.swift`, `Podfile.lock` has merge-conflict markers, and an
outlet of the storyboard has no property; the modules take the Swift sources as
they are. Five hazards have no property:

* a streak under way is lost with the process, and `best` may go back to an earlier one while the
  leaderboard keeps the later (`ViewController.swift:198`); no document promises otherwise, and
  `BoardIsEarned` and `StreakIsRecorded` are stated for one process;
* in which order the rows are meant to be is not written down: the comparison compares `p1.tier` with itself
  (`ShopController.swift:52`, section 4), and a property that holds of it would only say what the slip does;
* the observers each opening of the shop leaves behind (`APIService.swift:12`) cost memory and work,
  but a closed shop writes nothing;
* a reused cell of the shop keeps the text or the image of the power-up before when the next one has
  none (`ShopController.swift:119`); what a cell shows is not in the model;
* `pause()` sets the circle's `timeOffset` and `start()` does not reset it (`CircleProgress.swift:71`);
  what CoreAnimation shows of that is not in the repository.

*LevelDB.* Left out of the modules that are there: readers with checksums switched off, and
errors of the sequential file below the log; `reuse_logs` for the MANIFEST and, outside `LogFile`, for logs;
several tables written from one recovered log; a file system that loses the directory entry of a log
whose records were synced; corrupted keys in a compaction; compression, the bytes of handles
and the footer; the block cache; reference counts and the arena; `HandleTable`'s buckets and the sharding of
the cache; the sampling of reads by an iterator; the destructor of `DBImpl` (no caller runs beside it). Where a step is
coarser than the code: `DBFiles` creates, writes and syncs the table of a recovered log in one step (nothing refers to it before
the edit); `WriteQueue` ends a `CompactRange` whose NULL batch failed, where the code ignores the status and goes on
(`db_impl.cc:578-581`), and leaves the log as it was when an append fails (`LogFile` has the writer's offset); in `LogFile` a
record is torn before its last byte, so one that is whole and was not acknowledged (`log_writer.cc:102-108`) does not
occur; in `TwoLevelIterator` a block is unreadable as a whole (an entry that does not parse, `block.cc:240`, is in `Block`).
Not modelled at all: `RepairDB` (it puts every table on level 0, ordered by file number, so that an older
entry may be found first where numbers and sequence numbers disagree; nothing in the app calls it), `c.cc`
(it forwards), `env_posix.cc` apart from what `DBFiles` says of files and directories, `DebugString` and
the dump tools.

*nanopb.* Pointer fields and `pb_release` (not compiled here), reading through a caller's stream
callback other than a buffer, and the encoder's and decoder's stacks of nested calls.

*Other pods.* Firebase's frameworks are binary; Kingfisher, SAConfettiView, Hue and GoogleToolboxForMac have
no part in the game's logic.
