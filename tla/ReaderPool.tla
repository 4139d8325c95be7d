------------------------------- MODULE ReaderPool -------------------------------
(***************************************************************************)
(* The pool of memory-mapped readers of one cache file in one process      *)
(* (wind-dict reader_pool.rs): whoever asks for the file gets the mapping  *)
(* that is there, unless the file has been replaced since it was opened.   *)
(* Size and time of a file may be the same before and after a replacement, *)
(* so whoever replaces it counts a generation up before and after.         *)
(***************************************************************************)
EXTENDS Naturals

CONSTANTS
    Threads,   \* they open the file
    Writers,   \* they replace it, without a common lock
    MaxVer,    \* bound: contents of the file
    MaxGen     \* bound: the generation at which no replacement starts

ASSUME PoolAssumption == MaxVer \in Nat \ {0} /\ MaxGen \in Nat

VARIABLES
    disk,    \* the file: which content it has, and how it looks (size and time)
    gen,     \* REPLACE_GEN of its path
    pool,    \* the entry of the pool: the content it maps, its stamp
    held,    \* strong references of the entry's reader: the threads that hold it
    get,     \* per thread: a get_or_open, or the reader it has got
    write,   \* per writer: where its replacement is, and the content it has put there
    done,    \* history: the newest content whose replacement is over
    calm     \* history: no get has begun between an announcement and its rename

poolVars == <<disk, gen, pool, held, get, write, done, calm>>

Idle == [pc |-> "idle", gen |-> 0, look |-> 0, ver |-> 0, since |-> 0, seen |-> 0]

Gets == [pc : {"idle", "counted", "stamped", "mapped", "got"}, gen : Nat, look : Nat,
         ver : 0..MaxVer, since : 0..MaxVer, seen : 0..MaxVer]

PoolTypeOK ==
    /\ disk \in [ver : 1..MaxVer, look : Nat]
    /\ gen \in Nat
    /\ pool \in [ver : 0..MaxVer, look : Nat, gen : Nat]
    /\ held \in SUBSET Threads
    /\ get \in [Threads -> Gets]
    /\ write \in [Writers -> [pc : {"idle", "announced", "renamed"}, ver : 0..MaxVer]]
    /\ done \in 1..MaxVer
    /\ calm \in BOOLEAN

PoolInit ==
    /\ disk = [ver |-> 1, look |-> 1]
    /\ gen = 0
    /\ pool = [ver |-> 0, look |-> 0, gen |-> 0] /\ held = {}
    /\ get = [t \in Threads |-> Idle]
    /\ write = [w \in Writers |-> [pc |-> "idle", ver |-> 0]]
    /\ done = 1
    /\ calm = TRUE

--------------------------------------------------------------------------------
\* file_stamp: the generation first, ...
Count(t) ==
    /\ get[t].pc = "idle"
    /\ get' = [get EXCEPT ![t] = [pc |-> "counted", gen |-> gen, look |-> 0, ver |-> 0,
                                  since |-> done, seen |-> disk.ver]]
    /\ calm' = (calm /\ \A w \in Writers : write[w].pc # "announced")
    /\ UNCHANGED <<disk, gen, pool, held, write, done>>

\* ... then size and time.
Stat(t) ==
    /\ get[t].pc = "counted"
    /\ get' = [get EXCEPT ![t].pc = "stamped", ![t].look = disk.look]
    /\ UNCHANGED <<disk, gen, pool, held, write, done, calm>>

\* The pool holds a weak reference: it can be upgraded while somebody holds that reader.
\* A reader that was mapped before the entry was made anew does not count.
Alive == held # {}

Matches(t) == pool.gen = get[t].gen /\ pool.look = get[t].look

\* The lock of the pool is held while a file is opened and entered.
Unlocked == \A t \in Threads : get[t].pc # "mapped"

\* get_or_open: the reader that is there, ...
Reuse(t) ==
    /\ get[t].pc = "stamped" /\ Unlocked /\ Matches(t) /\ Alive
    /\ get' = [get EXCEPT ![t].pc = "got", ![t].ver = pool.ver]
    /\ held' = held \cup {t}
    /\ UNCHANGED <<disk, gen, pool, write, done, calm>>

\* ... or a new one, ...
Map(t) ==
    /\ get[t].pc = "stamped" /\ Unlocked /\ ~(Matches(t) /\ Alive)
    /\ get' = [get EXCEPT ![t].pc = "mapped", ![t].ver = disk.ver]
    /\ UNCHANGED <<disk, gen, pool, held, write, done, calm>>

\* Mutant: the generation is taken once the file is open.
NewEntryLate(t) == [ver |-> get[t].ver, look |-> get[t].look, gen |-> gen]

\* ... entered under the stamp taken before the file was opened.
NewEntry(t) == [ver |-> get[t].ver, look |-> get[t].look, gen |-> get[t].gen]

Enter(t) ==
    /\ get[t].pc = "mapped"
    /\ pool' = NewEntry(t) /\ held' = {t}
    /\ get' = [get EXCEPT ![t].pc = "got"]
    /\ UNCHANGED <<disk, gen, write, done, calm>>

\* The holder of a reader lets it go.
Release(t) ==
    /\ get[t].pc = "got"
    /\ get' = [get EXCEPT ![t] = Idle]
    /\ held' = held \ {t}
    /\ UNCHANGED <<disk, gen, pool, write, done, calm>>

--------------------------------------------------------------------------------
\* Mutant: one count only, after the rename.
AnnounceNothing(w) ==
    /\ write[w].pc = "idle" /\ gen < MaxGen
    /\ write' = [write EXCEPT ![w].pc = "announced"]
    /\ UNCHANGED <<disk, gen, pool, held, get, done, calm>>

\* replacing: the guard counts once when it is made, ...
Announce(w) ==
    /\ write[w].pc = "idle" /\ gen < MaxGen
    /\ gen' = gen + 1
    /\ write' = [write EXCEPT ![w].pc = "announced"]
    /\ UNCHANGED <<disk, pool, held, get, done, calm>>

\* The new file may have the size and, within one tick of the clock, the time of the old one.
Rename(w) ==
    /\ write[w].pc = "announced" /\ disk.ver < MaxVer
    /\ \E look \in {disk.look, disk.look + 1} : disk' = [ver |-> disk.ver + 1, look |-> look]
    /\ write' = [write EXCEPT ![w] = [pc |-> "renamed", ver |-> disk.ver + 1]]
    /\ UNCHANGED <<gen, pool, held, get, done, calm>>

RenameFails(w) ==
    /\ write[w].pc = "announced"
    /\ write' = [write EXCEPT ![w].pc = "renamed"]
    /\ UNCHANGED <<disk, gen, pool, held, get, done, calm>>

\* ... and again when it is dropped, whether the rename succeeded or not.
Finish(w) ==
    /\ write[w].pc = "renamed"
    /\ gen' = gen + 1
    /\ write' = [write EXCEPT ![w] = [pc |-> "idle", ver |-> 0]]
    /\ done' = IF write[w].ver > done THEN write[w].ver ELSE done
    /\ UNCHANGED <<disk, pool, held, get, calm>>

\* The user or another process replaces the file, at another time.
ReplaceOutside ==
    /\ disk.ver < MaxVer
    /\ disk' = [ver |-> disk.ver + 1, look |-> disk.look + 1]
    /\ done' = disk.ver + 1
    /\ UNCHANGED <<gen, pool, held, get, write, calm>>

ByThread(t) == Count(t) \/ Stat(t) \/ Reuse(t) \/ Map(t) \/ Enter(t) \/ Release(t)
ByWriter(w) == Announce(w) \/ Rename(w) \/ RenameFails(w) \/ Finish(w)

PoolNext ==
    \/ \E t \in Threads : ByThread(t)
    \/ \E w \in Writers : ByWriter(w)
    \/ ReplaceOutside

PoolSpec == PoolInit /\ [][PoolNext]_poolVars

--------------------------------------------------------------------------------
\* Nobody is handed a mapping of a content that was replaced for good before he asked.
NoStaleReader == \A t \in Threads : get[t].pc = "got" => get[t].ver >= get[t].since

\* Unless somebody has asked between an announcement and its rename, nobody is handed
\* a mapping older than the file was when he asked, though its replacement is not over.
NewestAfterRename == calm => \A t \in Threads : get[t].pc = "got" => get[t].ver >= get[t].seen
================================================================================
